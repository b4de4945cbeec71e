----------------------------- MODULE DataProofs -----------------------------
(***************************************************************************)
(* The files and tables of the data directory, for every number of         *)
(* vectors, tables, jobs, pages, packages, documents and failures: one     *)
(* section for each component's inductive invariant and the properties     *)
(* that follow from it.                                                    *)
(***************************************************************************)
EXTENDS LocalIndex, SteelDatasets, SteelCompute, KnowledgeWiki, KnowledgeSearch, BackupRestore, TLAPS

-----------------------------------------------------------------------------
(***************************************************************************)
(* The local index: OpenedGraphMatches and RebuildServes. Between the      *)
(* validation of a generation and the loading of its graph any rebuild may *)
(* act, so the induction says what no rebuild does: a generation that      *)
(* exists, by whatever name, is never given other vectors, and its number  *)
(* is never used again. What is served rests on more: a rebuild that works *)
(* alone removes only what still has its .tmp- name.                       *)
(***************************************************************************)

Directory == [place : {"none", "tmp", "final", "gone"}, files : SUBSET IxFiles,
              snapshot : SUBSET IxVectors]

Numbers == Generations \cup {0}

Building == [at : {"idle", "list", "clean", "dump", "metadata", "validate", "rename", "activate"},
             snapshot : SUBSET IxVectors, victims : SUBSET Generations, opened : Numbers,
             gen : Numbers]

ReadState == [at : {"idle", "current", "validate", "load", "fallback", "hnsw", "flat", "unavailable"},
            snapshot : SUBSET IxVectors, gen : Numbers, records : SUBSET IxVectors,
            served : BOOLEAN]

IxTypeOK ==
  /\ vectorRows \in [IxVectors -> {"new", "stored", "deleted"}]
  /\ generation \in [Generations -> Directory]
  /\ CURRENT \in Numbers
  /\ builder \in [Builders -> Building]
  /\ reader \in ReadState
  /\ served \in BOOLEAN

\* What a reader past its validation relies on.
ReaderInv ==
  /\ reader.at = "validate" => reader.gen \in Generations
  /\ reader.at = "load" => /\ reader.gen \in Generations
                           /\ generation[reader.gen].place # "none"
                           /\ generation[reader.gen].snapshot = reader.snapshot
  /\ reader.at = "hnsw" => reader.records = reader.snapshot

IxInv == IxTypeOK /\ ReaderInv

\* A directory that exists keeps the vectors it was built from.
KeepsSnapshots ==
  \A g \in Generations : generation[g].place # "none" =>
     generation'[g].place # "none" /\ generation'[g].snapshot = generation[g].snapshot

\* The readers' part of the invariant survives whatever a rebuild does.
LEMMA ReaderUndisturbed ==
  ASSUME ReaderInv, KeepsSnapshots, reader'.at = reader.at, reader'.gen = reader.gen,
         reader'.snapshot = reader.snapshot, reader'.records = reader.records
  PROVE  ReaderInv'
  BY DEF ReaderInv, KeepsSnapshots

\* Setting the place of one directory, or of none.
LEMMA PlaceUpdate ==
  ASSUME generation \in [Generations -> Directory], NEW g,
         \/ generation' = generation
         \/ generation' = [generation EXCEPT ![g].place = "gone"]
         \/ generation' = [generation EXCEPT ![g].place = "final"]
  PROVE  generation' \in [Generations -> Directory] /\ KeepsSnapshots
<1>1. ASSUME NEW p \in {"gone", "final"}, generation' = [generation EXCEPT ![g].place = p]
      PROVE  generation' \in [Generations -> Directory] /\ KeepsSnapshots
  <2>1. CASE g \in Generations
    <3>1. [generation[g] EXCEPT !.place = p] \in Directory
      BY <2>1 DEF Directory
    <3>2. [generation[g] EXCEPT !.place = p].snapshot = generation[g].snapshot
      BY <2>1 DEF Directory
    <3>3. p # "none" /\ [generation[g] EXCEPT !.place = p].place = p
      BY <2>1 DEF Directory
    <3> QED BY <1>1, <2>1, <3>1, <3>2, <3>3 DEF KeepsSnapshots
  <2>2. CASE g \notin Generations BY <1>1, <2>2 DEF KeepsSnapshots
  <2> QED BY <2>1, <2>2
<1>2. ASSUME generation' = generation
      PROVE  generation' \in [Generations -> Directory] /\ KeepsSnapshots
  BY <1>2 DEF KeepsSnapshots
<1> QED BY <1>1, <1>2

\* Setting the files of one directory.
LEMMA FilesUpdate ==
  ASSUME generation \in [Generations -> Directory], NEW g, NEW F,
         g \in Generations => F \in SUBSET IxFiles,
         generation' = [generation EXCEPT ![g].files = F]
  PROVE  generation' \in [Generations -> Directory] /\ KeepsSnapshots
<1>1. CASE g \in Generations
  <2>1. [generation[g] EXCEPT !.files = F] \in Directory
    BY <1>1 DEF Directory
  <2>2. [generation[g] EXCEPT !.files = F].snapshot = generation[g].snapshot
    BY <1>1 DEF Directory
  <2>3. [generation[g] EXCEPT !.files = F].place = generation[g].place
    BY <1>1 DEF Directory
  <2> QED BY <1>1, <2>1, <2>2, <2>3 DEF KeepsSnapshots
<1>2. CASE g \notin Generations BY <1>2 DEF KeepsSnapshots
<1> QED BY <1>1, <1>2

\* The files of an existing directory.
LEMMA FilesType ==
  ASSUME generation \in [Generations -> Directory], NEW g \in Generations
  PROVE  generation[g].files \in SUBSET IxFiles
  BY DEF Directory

\* The record of one rebuild.
LEMMA BuildUpdate ==
  ASSUME builder \in [Builders -> Building], NEW b, NEW record \in Building, Build(b, record)
  PROVE  builder' \in [Builders -> Building]
  BY DEF Build

\* No rebuild at work.
LEMMA NoBuildType == NoBuild \in Building
  BY DEF NoBuild, Building, Numbers

\* A failed build keeps the invariant, with whatever it leaves behind.
LEMMA FailureKeeps ==
  ASSUME IxInv, NEW b \in Builders, Build(b, NoBuild),
         generation' = IF builder[b].gen # 0 /\ OwnDirectory(b)
                       THEN [generation EXCEPT ![builder[b].gen].place = "gone"]
                       ELSE generation,
         UNCHANGED <<vectorRows, CURRENT, reader, served>>
  PROVE  IxInv'
<1>1. builder[b].gen \in Numbers BY DEF IxInv, IxTypeOK, Building
<1>2. generation' \in [Generations -> Directory] /\ KeepsSnapshots
  BY <1>1, PlaceUpdate DEF IxInv, IxTypeOK
<1>3. builder' \in [Builders -> Building] BY BuildUpdate, NoBuildType DEF IxInv, IxTypeOK
<1>4. IxTypeOK' BY <1>2, <1>3 DEF IxInv, IxTypeOK
<1>5. ReaderInv' BY <1>2, ReaderUndisturbed DEF IxInv
<1> QED BY <1>4, <1>5 DEF IxInv

\* A step of one rebuild on its own directory or on one it removes.
LEMMA BuildKeeps ==
  ASSUME IxInv, NEW b \in Builders, NEW record \in Building, Build(b, record),
         generation' \in [Generations -> Directory], KeepsSnapshots,
         UNCHANGED <<vectorRows, CURRENT, reader, served>>
  PROVE  IxInv'
<1>1. builder' \in [Builders -> Building] BY BuildUpdate DEF IxInv, IxTypeOK
<1>2. IxTypeOK' BY <1>1 DEF IxInv, IxTypeOK
<1>3. ReaderInv' BY ReaderUndisturbed DEF IxInv
<1> QED BY <1>2, <1>3 DEF IxInv

\* The rows of SQLite that have vectors.
LEMMA SnapshotType == load_index_snapshot \in SUBSET IxVectors
  BY DEF load_index_snapshot

\* Every step of a rebuild keeps the invariant.
LEMMA RebuildKeeps ==
  ASSUME IxInv, NEW b \in Builders, BuildStep(b)
  PROVE  IxInv'
<1>0. /\ builder[b] \in Building /\ builder[b].gen \in Numbers /\ builder[b].opened \in Numbers
      /\ generation \in [Generations -> Directory]
      /\ builder[b].snapshot \in SUBSET IxVectors
  BY DEF IxInv, IxTypeOK, Building
<1>s. generation' = generation => generation' \in [Generations -> Directory] /\ KeepsSnapshots
  BY <1>0 DEF KeepsSnapshots
<1>f. BuildFails(b) => IxInv'
  BY FailureKeeps DEF BuildFails
<1>1. CASE StartRebuild(b)
  <2>1. [NoBuild EXCEPT !.at = "list", !.snapshot = load_index_snapshot] \in Building
    BY SnapshotType DEF NoBuild, Building, Numbers
  <2> QED BY <1>1, <2>1, <1>s, BuildKeeps DEF StartRebuild
<1>2. CASE ListTemporaries(b)
  <2>1. [builder[b] EXCEPT !.at = "clean",
           !.victims = {g \in Generations : generation[g].place = "tmp"}] \in Building
    BY <1>0 DEF Building
  <2> QED BY <1>2, <2>1, <1>s, BuildKeeps DEF ListTemporaries
<1>3. CASE OpenVictim(b)
  <2>1. PICK g \in builder[b].victims :
           IF generation[g].place = "tmp"
           THEN /\ Build(b, [builder[b] EXCEPT !.opened = g])
                /\ UNCHANGED <<vectorRows, generation, CURRENT, reader, served, overlapped, ixFaults>>
           ELSE BuildFails(b)
    BY <1>3 DEF OpenVictim
  <2>2. [builder[b] EXCEPT !.opened = g] \in Building
    BY <1>0 DEF Building, Numbers
  <2>3. CASE generation[g].place = "tmp" BY <2>1, <2>2, <2>3, <1>s, BuildKeeps
  <2> QED BY <2>1, <2>3, <1>f
<1>4. CASE EmptyVictim(b)
  <2>1. PICK f \in generation[builder[b].opened].files :
           generation' = [generation EXCEPT ![builder[b].opened].files = @ \ {f}]
    BY <1>4 DEF EmptyVictim
  <2>2. UNCHANGED <<vectorRows, CURRENT, builder, reader, served>> BY <1>4 DEF EmptyVictim
  <2>a. builder[b].opened \in Generations =>
           generation[builder[b].opened].files \ {f} \in SUBSET IxFiles
    BY <1>0, FilesType
  <2>3. generation' \in [Generations -> Directory] /\ KeepsSnapshots
    BY <1>0, <2>1, <2>a, FilesUpdate
  <2>4. IxTypeOK' BY <2>2, <2>3 DEF IxInv, IxTypeOK
  <2>5. ReaderInv' BY <2>2, <2>3, ReaderUndisturbed DEF IxInv
  <2> QED BY <2>4, <2>5 DEF IxInv
<1>5. CASE RemoveVictim(b)
  <2>1. CASE /\ generation' = [generation EXCEPT ![builder[b].opened].place = "gone"]
             /\ Build(b, [builder[b] EXCEPT !.opened = 0, !.victims = @ \ {builder[b].opened}])
             /\ UNCHANGED <<vectorRows, CURRENT, reader, served, overlapped, ixFaults>>
    <3>1. [builder[b] EXCEPT !.opened = 0, !.victims = @ \ {builder[b].opened}] \in Building
      BY <1>0 DEF Building, Numbers
    <3>2. generation' \in [Generations -> Directory] /\ KeepsSnapshots
      BY <1>0, <2>1, PlaceUpdate
    <3> QED BY <2>1, <3>1, <3>2, BuildKeeps
  <2> QED BY <1>5, <2>1, <1>f DEF RemoveVictim
<1>6. CASE CreateTemporary(b)
  <2>1. PICK g \in Generations :
           /\ generation[g].place = "none"
           /\ generation' = [generation EXCEPT
                                ![g] = [NoDirectory EXCEPT !.place = "tmp",
                                                           !.snapshot = builder[b].snapshot]]
           /\ Build(b, [builder[b] EXCEPT !.at = "dump", !.gen = g])
    BY <1>6 DEF CreateTemporary
  <2>2. [builder[b] EXCEPT !.at = "dump", !.gen = g] \in Building
    BY <1>0 DEF Building, Numbers
  <2>3. [NoDirectory EXCEPT !.place = "tmp", !.snapshot = builder[b].snapshot] \in Directory
    BY <1>0 DEF NoDirectory, Directory
  <2>4. generation' \in [Generations -> Directory] /\ KeepsSnapshots
    BY <1>0, <2>1, <2>3 DEF KeepsSnapshots
  <2> QED BY <1>6, <2>1, <2>2, <2>4, BuildKeeps DEF CreateTemporary
<1>7. CASE DumpGraph(b)
  <2>1. CASE /\ generation' = [generation EXCEPT ![builder[b].gen].files = @ \cup {"graph"}]
             /\ Build(b, [builder[b] EXCEPT !.at = "metadata"])
             /\ UNCHANGED <<vectorRows, CURRENT, reader, served, overlapped, ixFaults>>
    <3>1. [builder[b] EXCEPT !.at = "metadata"] \in Building BY <1>0 DEF Building
    <3>a. builder[b].gen \in Generations =>
             generation[builder[b].gen].files \cup {"graph"} \in SUBSET IxFiles
      BY <1>0, FilesType DEF IxFiles
    <3>2. generation' \in [Generations -> Directory] /\ KeepsSnapshots
      BY <1>0, <2>1, <3>a, FilesUpdate
    <3> QED BY <2>1, <3>1, <3>2, BuildKeeps
  <2> QED BY <1>7, <2>1, <1>f DEF DumpGraph
<1>8. CASE write_metadata(b)
  <2>1. CASE /\ generation' = [generation EXCEPT ![builder[b].gen].files = @ \cup {"metadata"}]
             /\ Build(b, [builder[b] EXCEPT !.at = "validate"])
             /\ UNCHANGED <<vectorRows, CURRENT, reader, served, overlapped, ixFaults>>
    <3>1. [builder[b] EXCEPT !.at = "validate"] \in Building BY <1>0 DEF Building
    <3>a. builder[b].gen \in Generations =>
             generation[builder[b].gen].files \cup {"metadata"} \in SUBSET IxFiles
      BY <1>0, FilesType DEF IxFiles
    <3>2. generation' \in [Generations -> Directory] /\ KeepsSnapshots
      BY <1>0, <2>1, <3>a, FilesUpdate
    <3> QED BY <2>1, <3>1, <3>2, BuildKeeps
  <2> QED BY <1>8, <2>1, <1>f DEF write_metadata
<1>9. CASE ValidateBuild(b)
  <2>1. [builder[b] EXCEPT !.at = "rename"] \in Building BY <1>0 DEF Building
  <2> QED BY <1>9, <2>1, <1>s, <1>f, BuildKeeps DEF ValidateBuild
<1>10. CASE RenameGeneration(b)
  <2>1. CASE /\ generation' = [generation EXCEPT ![builder[b].gen].place = "final"]
             /\ Build(b, [builder[b] EXCEPT !.at = "activate"])
             /\ UNCHANGED <<vectorRows, CURRENT, reader, served, overlapped, ixFaults>>
    <3>1. [builder[b] EXCEPT !.at = "activate"] \in Building BY <1>0 DEF Building
    <3>2. generation' \in [Generations -> Directory] /\ KeepsSnapshots
      BY <1>0, <2>1, PlaceUpdate
    <3> QED BY <2>1, <3>1, <3>2, BuildKeeps
  <2> QED BY <1>10, <2>1, <1>f DEF RenameGeneration
<1>11. CASE ActivateGeneration(b)
  <2>1. served' \in BOOLEAN BY <1>11, Zenon DEF ActivateGeneration
  <2>2. /\ CURRENT' = builder[b].gen /\ reader' = [reader EXCEPT !.served = @ /\ served']
        /\ Build(b, NoBuild) /\ UNCHANGED <<vectorRows, generation>>
    BY <1>11 DEF ActivateGeneration
  <2>3. builder' \in [Builders -> Building]
    BY <2>2, BuildUpdate, NoBuildType DEF IxInv, IxTypeOK
  <2>4. reader' \in ReadState BY <2>1, <2>2 DEF IxInv, IxTypeOK, ReadState
  <2>5. IxTypeOK' BY <1>0, <2>1, <2>2, <2>3, <2>4 DEF IxInv, IxTypeOK
  <2>6. /\ reader'.at = reader.at /\ reader'.gen = reader.gen
        /\ reader'.snapshot = reader.snapshot /\ reader'.records = reader.records
    BY <2>2 DEF IxInv, IxTypeOK, ReadState
  <2>7. ReaderInv' BY <1>s, <2>2, <2>6, ReaderUndisturbed DEF IxInv
  <2> QED BY <2>5, <2>7 DEF IxInv
<1>12. CASE IxIoError(b)
  BY <1>12, FailureKeeps DEF IxIoError
<1> QED
  BY <1>1, <1>2, <1>3, <1>4, <1>5, <1>6, <1>7, <1>8, <1>9, <1>10, <1>11, <1>12 DEF BuildStep

\* A reader's own step leaves everything else alone.
LEMMA ReadKeeps ==
  ASSUME IxInv, NEW record \in ReadState, Read(record),
         record.at = "validate" => record.gen \in Generations,
         record.at = "load" => /\ record.gen \in Generations
                               /\ generation[record.gen].place # "none"
                               /\ generation[record.gen].snapshot = record.snapshot,
         record.at = "hnsw" => record.records = record.snapshot
  PROVE  IxInv'
  BY DEF Read, IxInv, IxTypeOK, ReaderInv

\* A change of the rows only tells the reader that it is no longer served.
LEMMA RowsKeep ==
  ASSUME IxInv, vectorRows' \in [IxVectors -> {"new", "stored", "deleted"}], served' = FALSE,
         reader' = [reader EXCEPT !.served = FALSE], UNCHANGED <<generation, CURRENT, builder>>
  PROVE  IxInv'
<1>1. reader' \in ReadState BY DEF IxInv, IxTypeOK, ReadState
<1>2. IxTypeOK' BY <1>1 DEF IxInv, IxTypeOK
<1>3. /\ reader'.at = reader.at /\ reader'.gen = reader.gen
      /\ reader'.snapshot = reader.snapshot /\ reader'.records = reader.records
  BY DEF IxInv, IxTypeOK, ReadState
<1>4. KeepsSnapshots BY DEF KeepsSnapshots
<1>5. ReaderInv' BY <1>3, <1>4, ReaderUndisturbed DEF IxInv
<1> QED BY <1>2, <1>5 DEF IxInv

\* The type invariant of the index, and what a reader past its validation
\* holds in its hands.
THEOREM IndexInvariant == IxSpec => []IxInv
<1>1. IxInit => IxInv
  <2> SUFFICES ASSUME IxInit PROVE IxInv OBVIOUS
  <2>1. NoDirectory \in Directory BY DEF NoDirectory, Directory
  <2>2. NoRead \in ReadState /\ NoRead.at = "idle" BY DEF NoRead, ReadState, Numbers
  <2>3. IxTypeOK BY <2>1, <2>2, NoBuildType DEF IxInit, IxTypeOK, Numbers
  <2>4. ReaderInv BY <2>2 DEF IxInit, ReaderInv
  <2> QED BY <2>3, <2>4 DEF IxInv
<1>2. IxInv /\ [IxNext]_ixVars => IxInv'
  <2> SUFFICES ASSUME IxInv, [IxNext]_ixVars PROVE IxInv' OBVIOUS
  <2>0. /\ reader \in ReadState /\ reader.snapshot \in SUBSET IxVectors /\ reader.gen \in Numbers
        /\ served \in BOOLEAN /\ CURRENT \in Numbers
        /\ generation \in [Generations -> Directory]
        /\ vectorRows \in [IxVectors -> {"new", "stored", "deleted"}]
    BY DEF IxInv, IxTypeOK, ReadState
  <2>1. ASSUME NEW d \in IxVectors, StoreVectors(d) PROVE IxInv'
    BY <2>0, <2>1, RowsKeep DEF StoreVectors
  <2>2. ASSUME NEW d \in IxVectors, DeleteVectors(d) PROVE IxInv'
    BY <2>0, <2>2, RowsKeep DEF DeleteVectors
  <2>3. ASSUME NEW b \in Builders, BuildStep(b) PROVE IxInv'
    BY <2>3, RebuildKeeps
  <2>4. CASE BeginRead
    <3> DEFINE r == [NoRead EXCEPT !.at = "current", !.snapshot = load_index_snapshot,
                                   !.served = served]
    <3>1. r \in ReadState /\ r.at = "current"
      BY <2>0, SnapshotType DEF NoRead, ReadState, Numbers
    <3>2. Read(r) BY <2>4 DEF BeginRead
    <3> HIDE DEF r
    <3> QED BY <3>1, <3>2, ReadKeeps
  <2>5. CASE read_current
    <3> DEFINE r == [reader EXCEPT !.gen = CURRENT,
                                   !.at = IF CURRENT = 0 THEN "fallback" ELSE "validate"]
    <3>1. /\ r \in ReadState /\ r.at = (IF CURRENT = 0 THEN "fallback" ELSE "validate")
          /\ r.gen = CURRENT
      BY <2>0 DEF ReadState
    <3>2. Read(r) BY <2>5 DEF read_current
    <3>3. CURRENT # 0 => CURRENT \in Generations BY <2>0 DEF Numbers
    <3> HIDE DEF r
    <3> QED BY <3>1, <3>2, <3>3, ReadKeeps
  <2>6. CASE ValidateCurrent
    <3> DEFINE valid == /\ generation[reader.gen].place = "final"
                        /\ validate_generation(reader.gen, reader.snapshot)
               r == [reader EXCEPT !.at = IF valid THEN "load" ELSE "fallback"]
    <3>1. /\ r \in ReadState /\ r.gen = reader.gen /\ r.snapshot = reader.snapshot
          /\ r.at = (IF valid THEN "load" ELSE "fallback")
      BY <2>0 DEF ReadState
    <3>2. Read(r) BY <2>6 DEF ValidateCurrent
    <3>3. reader.gen \in Generations BY <2>6 DEF ValidateCurrent, IxInv, ReaderInv
    <3>4. valid => /\ generation[reader.gen].place # "none"
                   /\ generation[reader.gen].snapshot = reader.snapshot
      BY DEF validate_generation
    <3> HIDE DEF r, valid
    <3> QED BY <3>1, <3>2, <3>3, <3>4, ReadKeeps
  <2>7. CASE spawn_worker
    <3>1. /\ reader.gen \in Generations /\ generation[reader.gen].snapshot = reader.snapshot
      BY <2>7 DEF spawn_worker, IxInv, ReaderInv
    <3> DEFINE h == [reader EXCEPT !.at = "hnsw", !.records = generation[reader.gen].snapshot]
               f == [reader EXCEPT !.at = "fallback"]
    <3>2. h \in ReadState /\ h.at = "hnsw" /\ h.records = h.snapshot
      BY <2>0, <3>1 DEF ReadState
    <3>3. f \in ReadState /\ f.at = "fallback" BY <2>0 DEF ReadState
    <3>4. Read(h) \/ Read(f) BY <2>7 DEF spawn_worker
    <3> HIDE DEF h, f
    <3> QED BY <3>2, <3>3, <3>4, ReadKeeps
  <2>8. CASE FlatLoad
    <3> DEFINE f == [reader EXCEPT !.at = "flat", !.records = load_index_snapshot]
               u == [reader EXCEPT !.at = "unavailable"]
    <3>1. f \in ReadState /\ f.at = "flat" BY <2>0, SnapshotType DEF ReadState
    <3>2. u \in ReadState /\ u.at = "unavailable" BY <2>0 DEF ReadState
    <3>3. Read(f) \/ Read(u) BY <2>8 DEF FlatLoad
    <3> HIDE DEF f, u
    <3> QED BY <3>1, <3>2, <3>3, ReadKeeps
  <2>9. NoRead \in ReadState /\ NoRead.at = "idle" BY DEF NoRead, ReadState, Numbers
  <2>10. CASE EndRead BY <2>9, <2>10, ReadKeeps DEF EndRead
  <2>11. CASE IxExit
    BY <2>9, <2>11, NoBuildType DEF IxExit, IxInv, IxTypeOK, ReaderInv
  <2>12. CASE UNCHANGED ixVars
    BY <2>12 DEF ixVars, IxInv, IxTypeOK, ReaderInv
  <2> QED
    BY <2>1, <2>2, <2>3, <2>4, <2>5, <2>6, <2>7, <2>8, <2>10, <2>11, <2>12 DEF IxNext
<1> QED
  BY <1>1, <1>2, PTL DEF IxSpec

\* A search never runs over a graph built from other vectors than the ones
\* its own snapshot saw, for any number of concurrent rebuilds and crashes.
THEOREM OpenedGraphAlwaysMatches == IxSpec => []OpenedGraphMatches
<1>1. IxInv => OpenedGraphMatches
  BY DEF IxInv, ReaderInv, OpenedGraphMatches
<1> QED
  BY <1>1, IndexInvariant, PTL

\* A generation that is complete, under its final name, and built from s.
Whole(g, s) ==
  /\ g \in Generations /\ generation[g].place = "final"
  /\ generation[g].files = IxFiles /\ generation[g].snapshot = s

\* What a rebuild relies on as long as no other has worked beside it: what it
\* removes still has its .tmp- name, and what it validated is still whole.
BuilderSound(b) ==
  /\ builder[b].at = "list" => builder[b].opened = 0
  /\ builder[b].at = "clean" /\ builder[b].opened # 0 =>
       generation[builder[b].opened].place = "tmp"
  /\ builder[b].at \in {"dump", "metadata", "validate", "rename"} => builder[b].gen \in Generations
  /\ builder[b].at = "rename" =>
       /\ generation[builder[b].gen].files = IxFiles
       /\ generation[builder[b].gen].snapshot = builder[b].snapshot
  /\ builder[b].at = "activate" => Whole(builder[b].gen, builder[b].snapshot)

OneAtWork ==
  \A b, c \in Builders : builder[b] # NoBuild /\ builder[c] # NoBuild => b = c

ServedReader ==
  reader.served =>
    /\ served /\ reader.snapshot = load_index_snapshot
    /\ reader.at \notin {"fallback", "flat", "unavailable"}
    /\ reader.at \in {"validate", "load"} => Whole(reader.gen, load_index_snapshot)

\* The generation CURRENT names is whole while it is served, and so is the one
\* a served reader has read from CURRENT, which may be an older one.
ServeInv ==
  ~overlapped => /\ OneAtWork /\ \A b \in Builders : BuilderSound(b)
                 /\ served => Whole(CURRENT, load_index_snapshot)
                 /\ ServedReader

\* The generations that are whole stay so.
KeepsWhole == \A g, s : Whole(g, s) => Whole(g, s)'

\* A rebuild at work has a place to be at.
LEMMA AtWork ==
  ASSUME NEW b, builder[b].at # "idle" PROVE builder[b] # NoBuild
  BY DEF NoBuild

\* The rebuilds that do nothing rely on nothing.
LEMMA IdleIsSound ==
  ASSUME NEW b, builder[b] = NoBuild PROVE BuilderSound(b)
  BY DEF NoBuild, BuilderSound

\* Changing one directory that is not whole leaves the whole ones alone.
LEMMA OthersStayWhole ==
  ASSUME generation \in [Generations -> Directory], NEW g \in Generations, NEW d,
         generation' = [generation EXCEPT ![g] = d], generation[g].place # "final"
  PROVE  KeepsWhole
  BY DEF KeepsWhole, Whole

\* A step of the only rebuild at work, after which its own part holds.
LEMMA BuildServes ==
  ASSUME IxInv, ServeInv, NEW b \in Builders, builder[b].at # "idle", NEW record,
         Build(b, record), UNCHANGED <<vectorRows, CURRENT, reader, served, overlapped>>,
         ~overlapped => KeepsWhole /\ BuilderSound(b)'
  PROVE  ServeInv'
<1> SUFFICES ASSUME ~overlapped' PROVE ServeInv' BY DEF ServeInv
<1>1. ~overlapped /\ OneAtWork /\ KeepsWhole /\ BuilderSound(b)'
  BY DEF ServeInv
<1>2. ASSUME NEW c \in Builders, c # b PROVE builder[c] = NoBuild /\ builder'[c] = NoBuild
  BY <1>1, <1>2, AtWork DEF OneAtWork, Build, IxInv, IxTypeOK
<1>3. OneAtWork' BY <1>2 DEF OneAtWork
<1>4. ASSUME NEW c \in Builders PROVE BuilderSound(c)'
  <2>1. CASE c = b BY <1>1, <2>1
  <2>2. CASE c # b
    <3>1. builder'[c].at = "idle" BY <1>2, <2>2 DEF NoBuild
    <3> QED BY <3>1 DEF BuilderSound
  <2> QED BY <2>1, <2>2
<1>5. load_index_snapshot' = load_index_snapshot BY DEF load_index_snapshot
<1>6. \A g, s : Whole(g, s) => Whole(g, s)' BY <1>1 DEF KeepsWhole, Whole
<1>7. (served => Whole(CURRENT, load_index_snapshot))' BY <1>1, <1>5, <1>6 DEF ServeInv, Whole
<1>8. ServedReader' BY <1>1, <1>5, <1>6 DEF ServeInv, ServedReader, Whole
<1> QED BY <1>3, <1>4, <1>7, <1>8 DEF ServeInv

\* A failed build removes at most its own .tmp- directory.
LEMMA FailureServes ==
  ASSUME IxInv, ServeInv, NEW b \in Builders, builder[b].at # "idle", Build(b, NoBuild),
         generation' = IF builder[b].gen # 0 /\ OwnDirectory(b)
                       THEN [generation EXCEPT ![builder[b].gen].place = "gone"]
                       ELSE generation,
         UNCHANGED <<vectorRows, CURRENT, reader, served, overlapped>>
  PROVE  ServeInv'
<1>1. builder[b].gen \in Numbers /\ generation \in [Generations -> Directory]
      /\ builder \in [Builders -> Building]
  BY DEF IxInv, IxTypeOK, Building
<1>2. KeepsWhole
  <2>1. CASE builder[b].gen # 0 /\ OwnDirectory(b)
    <3>1. builder[b].gen \in Generations /\ generation[builder[b].gen].place # "final"
      BY <1>1, <2>1 DEF Numbers, OwnDirectory
    <3> QED BY <1>1, <2>1, <3>1, OthersStayWhole
  <2>2. CASE ~(builder[b].gen # 0 /\ OwnDirectory(b)) BY <2>2 DEF KeepsWhole, Whole
  <2> QED BY <2>1, <2>2
<1>3. builder'[b].at = "idle" BY <1>1 DEF Build, NoBuild
<1>4. BuilderSound(b)' BY <1>3 DEF BuilderSound
<1> QED BY <1>2, <1>4, BuildServes

\* Writing a file of its own .tmp- directory.
LEMMA WriteServes ==
  ASSUME IxInv, ServeInv, NEW b \in Builders, NEW p, NEW file,
         builder[b].at \in {"dump", "metadata"}, p \in {"metadata", "validate"}, OwnDirectory(b),
         generation' = [generation EXCEPT ![builder[b].gen].files = @ \cup {file}],
         Build(b, [builder[b] EXCEPT !.at = p]),
         UNCHANGED <<vectorRows, CURRENT, reader, served, overlapped>>
  PROVE  ServeInv'
<1>0. /\ builder[b] \in Building /\ builder \in [Builders -> Building]
      /\ generation \in [Generations -> Directory]
  BY DEF IxInv, IxTypeOK
<1> DEFINE r == [builder[b] EXCEPT !.at = p]
<1>1. r.at = p /\ r.gen = builder[b].gen BY <1>0 DEF Building
<1>2. builder'[b] = r BY <1>0 DEF Build
<1> HIDE DEF r
<1>3. ASSUME ~overlapped PROVE KeepsWhole /\ BuilderSound(b)'
  <2>1. builder[b].gen \in Generations BY <1>3 DEF ServeInv, BuilderSound
  <2>2. generation' = [generation EXCEPT ![builder[b].gen] =
                          [generation[builder[b].gen] EXCEPT !.files = @ \cup {file}]]
    OBVIOUS
  <2>3. KeepsWhole BY <1>0, <2>1, <2>2, OthersStayWhole DEF OwnDirectory
  <2>4. BuilderSound(b)' BY <1>1, <1>2, <2>1 DEF BuilderSound
  <2> QED BY <2>3, <2>4
<1> QED BY <1>3, BuildServes

\* Every step of a rebuild keeps the served generation whole.
LEMMA RebuildServing ==
  ASSUME IxInv, ServeInv, NEW b \in Builders, BuildStep(b)
  PROVE  ServeInv'
<1>0. /\ builder[b] \in Building /\ builder[b].gen \in Numbers /\ builder[b].opened \in Numbers
      /\ generation \in [Generations -> Directory] /\ builder \in [Builders -> Building]
  BY DEF IxInv, IxTypeOK, Building
<1>s. generation' = generation => KeepsWhole BY DEF KeepsWhole, Whole
<1>f. BuildFails(b) /\ builder[b].at # "idle" => ServeInv'
  BY FailureServes DEF BuildFails
<1>o. ~overlapped => BuilderSound(b) BY DEF ServeInv
<1>n. ASSUME NEW record, Build(b, record) PROVE builder'[b] = record
  BY <1>0, <1>n DEF Build
<1>1. CASE StartRebuild(b)
  <2> SUFFICES ASSUME ~overlapped' PROVE ServeInv' BY DEF ServeInv
  <2> DEFINE r == [NoBuild EXCEPT !.at = "list", !.snapshot = load_index_snapshot]
  <2>1. ~overlapped /\ \A c \in Builders \ {b} : builder[c] = NoBuild
    BY <1>1 DEF StartRebuild
  <2>2. builder' = [builder EXCEPT ![b] = r] BY <1>1 DEF StartRebuild, Build
  <2>3. r.at = "list" /\ r.opened = 0 BY DEF NoBuild
  <2> HIDE DEF r
  <2>4. OneAtWork' BY <2>1, <2>2 DEF OneAtWork
  <2>5. ASSUME NEW c \in Builders PROVE BuilderSound(c)'
    <3>1. builder'[c].at \in {"idle", "list"} /\ builder'[c].opened = 0
      BY <1>0, <2>1, <2>2, <2>3 DEF NoBuild
    <3> QED BY <3>1 DEF BuilderSound
  <2>6. UNCHANGED <<vectorRows, generation, CURRENT, reader, served>> BY <1>1 DEF StartRebuild
  <2>7. load_index_snapshot' = load_index_snapshot BY <2>6 DEF load_index_snapshot
  <2>8. (served => Whole(CURRENT, load_index_snapshot))' /\ ServedReader'
    BY <2>1, <2>6, <2>7 DEF ServeInv, ServedReader, Whole
  <2> QED BY <2>4, <2>5, <2>8 DEF ServeInv
<1>2. CASE ListTemporaries(b)
  <2> DEFINE r == [builder[b] EXCEPT !.at = "clean",
                      !.victims = {g \in Generations : generation[g].place = "tmp"}]
  <2>1. r.at = "clean" /\ r.opened = builder[b].opened BY <1>0 DEF Building
  <2>2. /\ builder[b].at = "list" /\ Build(b, r)
        /\ UNCHANGED <<vectorRows, generation, CURRENT, reader, served, overlapped>>
    BY <1>2 DEF ListTemporaries
  <2> HIDE DEF r
  <2>3. ~overlapped => BuilderSound(b)' BY <1>n, <1>o, <2>1, <2>2 DEF BuilderSound
  <2> QED BY <1>s, <2>2, <2>3, BuildServes
<1>3. CASE OpenVictim(b)
  <2>1. PICK g \in builder[b].victims :
           IF generation[g].place = "tmp"
           THEN /\ Build(b, [builder[b] EXCEPT !.opened = g])
                /\ UNCHANGED <<vectorRows, generation, CURRENT, reader, served, overlapped, ixFaults>>
           ELSE BuildFails(b)
    BY <1>3 DEF OpenVictim
  <2>a. builder[b].at = "clean" BY <1>3 DEF OpenVictim
  <2>2. CASE generation[g].place = "tmp"
    <3> DEFINE r == [builder[b] EXCEPT !.opened = g]
    <3>1. r.at = "clean" /\ r.opened = g BY <1>0, <2>a DEF Building
    <3>2. Build(b, r) /\ UNCHANGED <<vectorRows, generation, CURRENT, reader, served, overlapped>>
      BY <2>1, <2>2
    <3> HIDE DEF r
    <3>3. builder'[b] = r BY <1>n, <3>2
    <3>4. BuilderSound(b)' BY <2>2, <3>1, <3>2, <3>3 DEF BuilderSound
    <3> QED BY <1>s, <2>a, <3>2, <3>4, BuildServes
  <2> QED BY <1>f, <2>1, <2>2, <2>a
<1>4. CASE EmptyVictim(b)
  <2> DEFINE g == builder[b].opened
  <2>1. PICK f \in generation[g].files : generation' = [generation EXCEPT ![g].files = @ \ {f}]
    BY <1>4 DEF EmptyVictim
  <2>2. /\ UNCHANGED <<vectorRows, CURRENT, builder, reader, served, overlapped>>
        /\ builder[b].at = "clean" /\ g # 0
    BY <1>4 DEF EmptyVictim
  <2>3. Build(b, builder[b]) BY <1>0, <2>2 DEF Build
  <2>4. g \in Generations BY <1>0, <2>2 DEF Numbers
  <2>5. ASSUME ~overlapped PROVE KeepsWhole /\ BuilderSound(b)'
    <3>1. generation[g].place = "tmp" BY <1>o, <2>2, <2>5 DEF BuilderSound
    <3>2. generation' = [generation EXCEPT ![g] = [generation[g] EXCEPT !.files = @ \ {f}]]
      BY <2>1
    <3>3. KeepsWhole BY <1>0, <2>4, <3>1, <3>2, OthersStayWhole
    <3>4. generation'[g].place = "tmp" BY <1>0, <2>1, <2>4, <3>1 DEF Directory
    <3> QED BY <2>2, <3>3, <3>4 DEF BuilderSound
  <2> QED BY <2>2, <2>3, <2>5, BuildServes
<1>5. CASE RemoveVictim(b)
  <2> DEFINE g == builder[b].opened
  <2>a. builder[b].at = "clean" /\ g # 0 BY <1>5 DEF RemoveVictim
  <2>1. CASE /\ generation[g].place = "tmp"
             /\ generation' = [generation EXCEPT ![g].place = "gone"]
             /\ Build(b, [builder[b] EXCEPT !.opened = 0, !.victims = @ \ {g}])
             /\ UNCHANGED <<vectorRows, CURRENT, reader, served, overlapped, ixFaults>>
    <3> DEFINE r == [builder[b] EXCEPT !.opened = 0, !.victims = @ \ {g}]
    <3>1. r.at = "clean" /\ r.opened = 0 BY <1>0, <2>a DEF Building
    <3>2. Build(b, r) BY <2>1
    <3>3. g \in Generations BY <1>0, <2>a DEF Numbers
    <3> HIDE DEF r
    <3>4. BuilderSound(b)' BY <1>n, <3>1, <3>2 DEF BuilderSound
    <3>5. KeepsWhole BY <1>0, <2>1, <3>3, OthersStayWhole
    <3> QED BY <2>1, <2>a, <3>2, <3>4, <3>5, BuildServes
  <2> QED BY <1>5, <1>f, <2>a, <2>1 DEF RemoveVictim
<1>6. CASE CreateTemporary(b)
  <2>1. PICK g \in Generations :
           /\ generation[g].place = "none"
           /\ generation' = [generation EXCEPT
                                ![g] = [NoDirectory EXCEPT !.place = "tmp",
                                                           !.snapshot = builder[b].snapshot]]
           /\ Build(b, [builder[b] EXCEPT !.at = "dump", !.gen = g])
    BY <1>6 DEF CreateTemporary
  <2> DEFINE r == [builder[b] EXCEPT !.at = "dump", !.gen = g]
  <2>2. r.at = "dump" /\ r.gen = g BY <1>0 DEF Building
  <2>3. Build(b, r) BY <2>1
  <2>4. builder[b].at # "idle" /\ UNCHANGED <<vectorRows, CURRENT, reader, served, overlapped>>
    BY <1>6 DEF CreateTemporary
  <2> HIDE DEF r
  <2>5. BuilderSound(b)' BY <1>n, <2>1, <2>2, <2>3 DEF BuilderSound
  <2>6. KeepsWhole BY <1>0, <2>1, OthersStayWhole
  <2> QED BY <2>3, <2>4, <2>5, <2>6, BuildServes
<1>7. CASE DumpGraph(b)
  <2>1. builder[b].at = "dump" BY <1>7 DEF DumpGraph
  <2>2. CASE OwnDirectory(b) BY <1>7, <2>1, <2>2, WriteServes DEF DumpGraph
  <2> QED BY <1>7, <1>f, <2>1, <2>2 DEF DumpGraph
<1>8. CASE write_metadata(b)
  <2>1. builder[b].at = "metadata" BY <1>8 DEF write_metadata
  <2>2. CASE OwnDirectory(b) /\ "graph" \in generation[builder[b].gen].files
    BY <1>8, <2>1, <2>2, WriteServes DEF write_metadata
  <2> QED BY <1>8, <1>f, <2>1, <2>2 DEF write_metadata
<1>9. CASE ValidateBuild(b)
  <2>1. builder[b].at = "validate" BY <1>9 DEF ValidateBuild
  <2>2. CASE OwnDirectory(b) /\ validate_generation(builder[b].gen, builder[b].snapshot)
    <3> DEFINE r == [builder[b] EXCEPT !.at = "rename"]
    <3>1. r.at = "rename" /\ r.gen = builder[b].gen /\ r.snapshot = builder[b].snapshot
      BY <1>0 DEF Building
    <3>2. Build(b, r) /\ UNCHANGED <<vectorRows, generation, CURRENT, reader, served, overlapped>>
      BY <1>9, <2>2 DEF ValidateBuild
    <3> HIDE DEF r
    <3>3. builder'[b] = r BY <1>n, <3>2
    <3>4. ~overlapped => BuilderSound(b)'
      BY <1>o, <2>1, <2>2, <3>1, <3>2, <3>3 DEF BuilderSound, validate_generation
    <3> QED BY <1>s, <2>1, <3>2, <3>4, BuildServes
  <2> QED BY <1>9, <1>f, <2>1, <2>2 DEF ValidateBuild
<1>10. CASE RenameGeneration(b)
  <2>1. builder[b].at = "rename" BY <1>10 DEF RenameGeneration
  <2>2. CASE OwnDirectory(b)
    <3> DEFINE r == [builder[b] EXCEPT !.at = "activate"]
               g == builder[b].gen
    <3>1. r.at = "activate" /\ r.gen = g /\ r.snapshot = builder[b].snapshot
      BY <1>0 DEF Building
    <3>2. /\ Build(b, r) /\ generation' = [generation EXCEPT ![g].place = "final"]
          /\ UNCHANGED <<vectorRows, CURRENT, reader, served, overlapped>>
      BY <1>10, <2>2 DEF RenameGeneration
    <3> HIDE DEF r
    <3>3. builder'[b] = r BY <1>n, <3>2
    <3>4. ASSUME ~overlapped PROVE KeepsWhole /\ BuilderSound(b)'
      <4>1. /\ g \in Generations /\ generation[g].files = IxFiles
            /\ generation[g].snapshot = builder[b].snapshot
        BY <1>o, <2>1, <3>4 DEF BuilderSound
      <4>2. generation' = [generation EXCEPT ![g] = [generation[g] EXCEPT !.place = "final"]]
        BY <3>2
      <4>3. KeepsWhole BY <1>0, <2>2, <4>1, <4>2, OthersStayWhole DEF OwnDirectory
      <4>4. /\ generation'[g].place = "final" /\ generation'[g].files = IxFiles
            /\ generation'[g].snapshot = builder[b].snapshot
        BY <1>0, <4>1, <4>2 DEF Directory
      <4>5. BuilderSound(b)' BY <3>1, <3>3, <4>1, <4>4 DEF BuilderSound, Whole
      <4> QED BY <4>3, <4>5
    <3> QED BY <2>1, <3>2, <3>4, BuildServes
  <2> QED BY <1>10, <1>f, <2>1, <2>2 DEF RenameGeneration
<1>11. CASE ActivateGeneration(b)
  <2> SUFFICES ASSUME ~overlapped' PROVE ServeInv' BY DEF ServeInv
  <2>1. /\ ~overlapped /\ builder[b].at = "activate" /\ CURRENT' = builder[b].gen
        /\ served' <=> (builder[b].snapshot = load_index_snapshot)
        /\ builder' = [builder EXCEPT ![b] = NoBuild]
        /\ reader' = [reader EXCEPT !.served = @ /\ served']
        /\ UNCHANGED <<vectorRows, generation>>
    BY <1>11 DEF ActivateGeneration, Build
  <2>2. \A c \in Builders : builder[c] = NoBuild \/ c = b
    BY <2>1, AtWork DEF ServeInv, OneAtWork
  <2>3. \A c \in Builders : builder'[c] = NoBuild BY <1>0, <2>1, <2>2
  <2>4. OneAtWork' BY <2>3 DEF OneAtWork
  <2>5. ASSUME NEW c \in Builders PROVE BuilderSound(c)'
    <3>1. builder'[c].at = "idle" BY <2>3 DEF NoBuild
    <3> QED BY <3>1 DEF BuilderSound
  <2>6. load_index_snapshot' = load_index_snapshot BY <2>1 DEF load_index_snapshot
  <2>7. Whole(builder[b].gen, builder[b].snapshot) BY <1>o, <2>1 DEF BuilderSound
  <2>8. (served => Whole(CURRENT, load_index_snapshot))'
    BY <2>1, <2>6, <2>7 DEF Whole
  <2>9. /\ reader'.at = reader.at /\ reader'.gen = reader.gen
        /\ reader'.snapshot = reader.snapshot
        /\ reader'.served => reader.served /\ served'
    BY <2>1 DEF IxInv, IxTypeOK, ReadState
  <2>10. ServedReader' BY <2>1, <2>6, <2>9 DEF ServeInv, ServedReader, Whole
  <2> QED BY <2>4, <2>5, <2>8, <2>10 DEF ServeInv
<1>12. CASE IxIoError(b)
  BY <1>12, FailureServes DEF IxIoError
<1> QED
  BY <1>1, <1>2, <1>3, <1>4, <1>5, <1>6, <1>7, <1>8, <1>9, <1>10, <1>11, <1>12 DEF BuildStep

\* A step of the reader, or of SQLite, that leaves the reader's part true.
LEMMA ReadServes ==
  ASSUME ServeInv, NEW record, Read(record), ~overlapped => ServedReader'
  PROVE  ServeInv'
<1>1. load_index_snapshot' = load_index_snapshot BY DEF Read, load_index_snapshot
<1> QED
  BY <1>1 DEF ServeInv, Read, OneAtWork, BuilderSound, Whole

\* The served generation stays whole as long as no two rebuilds work at a time.
THEOREM IndexServes == IxSpec => []ServeInv
<1>1. IxInit => ServeInv
  BY DEF IxInit, NoBuild, NoRead, ServeInv, OneAtWork, BuilderSound, ServedReader
<1>2. IxInv /\ ServeInv /\ [IxNext]_ixVars => ServeInv'
  <2> SUFFICES ASSUME IxInv, ServeInv, [IxNext]_ixVars PROVE ServeInv' OBVIOUS
  <2>0. reader \in ReadState /\ served \in BOOLEAN BY DEF IxInv, IxTypeOK
  <2>s. ~overlapped => ServedReader /\ (served => Whole(CURRENT, load_index_snapshot))
    BY DEF ServeInv
  <2>1. ASSUME served' = FALSE, reader' = [reader EXCEPT !.served = FALSE],
               UNCHANGED <<generation, CURRENT, builder, overlapped>>
        PROVE  ServeInv'
    <3>1. reader'.served = FALSE BY <2>0, <2>1 DEF ReadState
    <3> QED BY <2>1, <3>1 DEF ServeInv, OneAtWork, BuilderSound, Whole, ServedReader
  <2>2. ASSUME NEW d \in IxVectors, StoreVectors(d) \/ DeleteVectors(d) PROVE ServeInv'
    BY <2>1, <2>2 DEF StoreVectors, DeleteVectors
  <2>3. ASSUME NEW b \in Builders, BuildStep(b) PROVE ServeInv'
    BY <2>3, RebuildServing
  <2>4. CASE BeginRead
    <3> DEFINE r == [NoRead EXCEPT !.at = "current", !.snapshot = load_index_snapshot,
                                   !.served = served]
    <3>1. r.at = "current" /\ r.snapshot = load_index_snapshot /\ r.served = served
      BY DEF NoRead
    <3>2. Read(r) BY <2>4 DEF BeginRead
    <3> HIDE DEF r
    <3>3. ServedReader'
      BY <3>1, <3>2 DEF Read, ServedReader, load_index_snapshot
    <3> QED BY <3>2, <3>3, ReadServes
  <2>5. CASE read_current
    <3> DEFINE r == [reader EXCEPT !.gen = CURRENT,
                                   !.at = IF CURRENT = 0 THEN "fallback" ELSE "validate"]
    <3>1. /\ r.at = (IF CURRENT = 0 THEN "fallback" ELSE "validate") /\ r.gen = CURRENT
          /\ r.served = reader.served /\ r.snapshot = reader.snapshot
      BY <2>0 DEF ReadState
    <3>2. Read(r) BY <2>5 DEF read_current
    <3> HIDE DEF r
    <3>3. 0 \notin Generations BY DEF Generations
    <3>4. ~overlapped => ServedReader'
      BY <2>s, <3>1, <3>2, <3>3 DEF Read, ServedReader, Whole, load_index_snapshot
    <3> QED BY <3>2, <3>4, ReadServes
  <2>6. CASE ValidateCurrent
    <3>0. PICK p \in {"load", "fallback"} :
             /\ Read([reader EXCEPT !.at = p])
             /\ p = "fallback" => ~(/\ generation[reader.gen].place = "final"
                                    /\ validate_generation(reader.gen, reader.snapshot))
      BY <2>6 DEF ValidateCurrent
    <3> DEFINE r == [reader EXCEPT !.at = p]
    <3>1. /\ r.at = p /\ r.gen = reader.gen
          /\ r.served = reader.served /\ r.snapshot = reader.snapshot
      BY <2>0 DEF ReadState
    <3>2. Read(r) /\ reader.at = "validate" BY <2>6, <3>0 DEF ValidateCurrent
    <3> HIDE DEF r
    <3>3. ~overlapped /\ reader.served => p = "load"
      BY <2>s, <3>0, <3>2 DEF ServedReader, Whole, validate_generation
    <3>4. ~overlapped => ServedReader'
      BY <2>s, <3>1, <3>2, <3>3 DEF Read, ServedReader, Whole, load_index_snapshot
    <3> QED BY <3>2, <3>4, ReadServes
  <2>7. CASE spawn_worker
    <3> DEFINE h == [reader EXCEPT !.at = "hnsw", !.records = generation[reader.gen].snapshot]
               f == [reader EXCEPT !.at = "fallback"]
    <3>1. h.at = "hnsw" /\ h.served = reader.served /\ h.snapshot = reader.snapshot
      BY <2>0 DEF ReadState
    <3>2. reader.at = "load" /\ (Read(h) \/ ("graph" \notin generation[reader.gen].files /\ Read(f)))
      BY <2>7 DEF spawn_worker
    <3>f. f.served = reader.served BY <2>0 DEF ReadState
    <3> HIDE DEF h, f
    <3>3. CASE Read(h)
      <4>1. ~overlapped => ServedReader'
        BY <2>s, <3>1, <3>2, <3>3 DEF Read, ServedReader, Whole, load_index_snapshot
      <4> QED BY <3>3, <4>1, ReadServes
    <3>4. CASE "graph" \notin generation[reader.gen].files /\ Read(f)
      <4>1. ~overlapped => ~reader.served BY <2>s, <3>2, <3>4 DEF ServedReader, Whole, IxFiles
      <4>2. ~overlapped => ServedReader' BY <3>4, <3>f, <4>1 DEF Read, ServedReader
      <4> QED BY <3>4, <4>2, ReadServes
    <3> QED BY <3>2, <3>3, <3>4
  <2>8. CASE FlatLoad
    <3> DEFINE f == [reader EXCEPT !.at = "flat", !.records = load_index_snapshot]
               u == [reader EXCEPT !.at = "unavailable"]
    <3>1. f.served = reader.served /\ u.served = reader.served BY <2>0 DEF ReadState
    <3>2. reader.at = "fallback" /\ (Read(f) \/ Read(u)) BY <2>8 DEF FlatLoad
    <3> HIDE DEF f, u
    <3>3. ~overlapped => ~reader.served BY <2>s, <3>2 DEF ServedReader
    <3>4. ~overlapped => ServedReader' BY <3>1, <3>2, <3>3 DEF Read, ServedReader
    <3> QED BY <3>2, <3>4, ReadServes
  <2>9. NoRead.served = FALSE BY DEF NoRead
  <2>10. CASE EndRead
    <3>1. Read(NoRead) BY <2>10 DEF EndRead
    <3>2. ServedReader' BY <2>9, <3>1 DEF Read, ServedReader
    <3> QED BY <3>1, <3>2, ReadServes
  <2>11. CASE IxExit
    <3>1. /\ builder' = [b \in Builders |-> NoBuild] /\ reader' = NoRead
          /\ UNCHANGED <<vectorRows, generation, CURRENT, served, overlapped>>
      BY <2>11 DEF IxExit
    <3>2. OneAtWork' /\ \A b \in Builders : BuilderSound(b)'
      BY <3>1 DEF OneAtWork, BuilderSound, NoBuild
    <3>3. ServedReader' BY <2>9, <3>1 DEF ServedReader
    <3>4. ~overlapped => (served => Whole(CURRENT, load_index_snapshot))'
      BY <2>s, <3>1 DEF Whole, load_index_snapshot
    <3> QED BY <3>1, <3>2, <3>3, <3>4 DEF ServeInv
  <2>12. CASE UNCHANGED ixVars
    BY <2>12 DEF ixVars, ServeInv, OneAtWork, BuilderSound, Whole, ServedReader, load_index_snapshot
  <2> QED
    BY <2>2, <2>3, <2>4, <2>5, <2>6, <2>7, <2>8, <2>10, <2>11, <2>12 DEF IxNext
<1> QED
  BY <1>1, <1>2, IndexInvariant, PTL DEF IxSpec

\* Once a rebuild of the vectors SQLite holds has finished, every reader that
\* starts afterwards is served from its graph while no vector changes and no
\* two rebuilds have worked at a time, whatever fails or exits in between.
THEOREM RebuildAlwaysServes == IxSpec => []RebuildServes
<1>1. ServeInv => RebuildServes
  BY DEF ServeInv, ServedReader, RebuildServes
<1> QED
  BY <1>1, IndexServes, PTL

-----------------------------------------------------------------------------
(***************************************************************************)
(* Steel datasets: ReadyIsUsable. Every saved mapping, ready or not, names *)
(* a canonical field at most once, because normalize_mappings let it       *)
(* through.                                                                *)
(***************************************************************************)

\* Each canonical field is the meaning of one column.
FieldsUnique(columns) ==
  \A i, j \in DOMAIN columns :
    i # j /\ columns[i].field # NoField => columns[i].field # columns[j].field

\* A saved row, whatever its state: its mapping was checked when it was written, and
\* a ready one was activated as it stands.
RowOk(d) ==
  /\ d = [path |-> d.path, columns |-> d.columns, state |-> d.state]
  /\ FieldsUnique(d.columns)
  /\ d.state = "ready" => Activatable(d.columns)

DsInv ==
  /\ dataset = [t \in Tables |-> dataset[t]]
  /\ \A t \in Tables : IsSaved(t) => RowOk(dataset[t])

\* A mapping that normalize_mappings lets through names each field once.
LEMMA PreviewIsUnique ==
  ASSUME NEW t, NEW maps, normalize_mappings(t, maps)
  PROVE  FieldsUnique(PreviewColumns(t, maps))
<1> DEFINE columns == PreviewColumns(t, maps)
<1>1. /\ DOMAIN columns = 1..Len(t.heads)
      /\ \A i \in DOMAIN columns : columns[i].field = MapOf(maps, i).field
  BY DEF PreviewColumns
<1>2. \A i : MapOf(maps, i).field # NoField =>
        i \in DOMAIN maps /\ MapOf(maps, i).field = maps[i].field
  BY DEF MapOf
<1> HIDE DEF columns
<1>3. ASSUME NEW i \in DOMAIN columns, NEW j \in DOMAIN columns, i # j,
             columns[i].field # NoField, columns[i].field = columns[j].field
      PROVE  FALSE
  BY <1>1, <1>2, <1>3 DEF normalize_mappings
<1>4. FieldsUnique(columns) BY <1>3 DEF FieldsUnique
<1> QED BY <1>4 DEF columns

\* A row is written, or none.
LEMMA PutRow ==
  ASSUME DsInv, NEW h, NEW d, dataset' = [dataset EXCEPT ![h] = d], RowOk(d)
  PROVE  DsInv'
  BY DEF DsInv, IsSaved

LEMMA DsStepHolds == DsInv /\ [DsNext]_dsVars => DsInv'
<1> SUFFICES ASSUME DsInv, [DsNext]_dsVars PROVE DsInv' OBVIOUS
<1>1. CASE UNCHANGED dataset BY <1>1 DEF DsInv, IsSaved
<1>2. ASSUME NEW c \in DsCallers, save_preview(c) PROVE DsInv'
  <2> DEFINE x == dsCall[c]
             d == [path |-> x.path, columns |-> PreviewColumns(x.seen, x.maps),
                   state |-> "draft"]
  <2>1. CASE normalize_mappings(x.seen, x.maps)
    <3>1. dataset' = [dataset EXCEPT ![x.hash] = d] BY <1>2, <2>1 DEF save_preview, Upsert
    <3>2. RowOk(d)
      <4>1. FieldsUnique(PreviewColumns(x.seen, x.maps)) BY <2>1, PreviewIsUnique
      <4> QED BY <4>1 DEF RowOk
    <3> QED BY <3>1, <3>2, PutRow
  <2>2. CASE ~normalize_mappings(x.seen, x.maps)
    BY <1>1, <1>2, <2>2 DEF save_preview
  <2> QED BY <2>1, <2>2
<1>3. ASSUME NEW t \in Tables, activate_dataset(t) PROVE DsInv'
  <2> DEFINE e == dataset[t]
             d == [path |-> e.path, columns |-> e.columns, state |-> "ready"]
  <2>1. RowOk(e) /\ Activatable(e.columns) BY <1>3 DEF activate_dataset, DsInv
  <2>2. [e EXCEPT !.state = "ready"] = d
    <3>1. e = [path |-> e.path, columns |-> e.columns, state |-> e.state]
      BY <2>1 DEF RowOk
    <3> HIDE DEF e
    <3> QED BY <3>1
  <2>3. dataset' = [dataset EXCEPT ![t] = d] BY <1>3, <2>2 DEF activate_dataset
  <2>4. RowOk(d) BY <2>1 DEF RowOk
  <2> QED BY <2>3, <2>4, PutRow
<1>4. ASSUME NEW c \in DsCallers,
             HashSource(c) \/ list_columns(c) \/ read_dataset_table(c) \/ match_coil(c)
      PROVE  UNCHANGED dataset
  BY <1>4 DEF HashSource, list_columns, read_dataset_table, match_coil
<1>5. ASSUME NEW c \in DsCallers, NEW t \in Tables,
             NEW op \in {"train", "match", "analyze", "clean"}, ReadRow(c, t, op)
      PROVE  UNCHANGED dataset
  BY <1>5 DEF ReadRow
<1>6. ASSUME NEW p \in DsPaths, NEW t \in Tables \cup {NoTable}, EditSource(p, t)
      PROVE  UNCHANGED dataset
  BY <1>6 DEF EditSource
<1>7. ASSUME NEW c \in DsCallers, NEW p \in DsPaths, NEW maps \in DsMappings,
             PreviewSource(c, p, maps)
      PROVE  UNCHANGED dataset
  BY <1>7 DEF PreviewSource
<1>8. CASE UNCHANGED dsVars BY <1>1, <1>8 DEF dsVars
<1> QED BY <1>1, <1>2, <1>3, <1>4, <1>5, <1>6, <1>7, <1>8 DEF DsNext

LEMMA DsInitHolds == DsInit => DsInv
<1> SUFFICES ASSUME DsInit PROVE DsInv OBVIOUS
<1>1. dataset = [t \in Tables |-> NoDataset] BY DEF DsInit
<1>2. \A t \in Tables : dataset[t] = NoDataset BY <1>1
<1> QED BY <1>1, <1>2 DEF DsInv, IsSaved

\* Every saved row has a mapping that names each field once, ready or not.
THEOREM DatasetsInvariant == DsSpec => []DsInv
  BY DsInitHolds, DsStepHolds, PTL DEF DsSpec

\* A dataset that training accepts was activated with the mapping it has, for any
\* tables, mappings and interleaving of commands and edits of the sources.
THEOREM ReadyDatasetsAreUsable == DsSpec => []ReadyIsUsable
<1>1. DsInv => ReadyIsUsable BY DEF DsInv, RowOk, FieldsUnique, ReadyIsUsable
<1> QED BY <1>1, DatasetsInvariant, PTL

-----------------------------------------------------------------------------
(***************************************************************************)
(* Steel compute: DerivedFromFinal. It is inductive with the types: an     *)
(* artifact is that of the claim whose checkpoint the completion wrote     *)
(* last.                                                                   *)
(***************************************************************************)

JobStates == {"absent", "queued", "running", "completed", "failed", "cancelled", "interrupted"}
Artifact == [task : ScJobs, by : Nat]
JobType == {NoJob} \cup [kind : {"train"}, algo : Algorithms]
             \cup [kind : Derived, artifact : Artifact] \cup [kind : Standalone]
TaskCheckpointType == [stage : {"queued", "progress", "completed"}, by : Nat]
HandlerType == [at : {"none", "spawn", "submit", "answered", "closing", "returned"},
                outcome : {"none", "completed", "failed", "cancelled"}, stop : BOOLEAN]

ScTypeOK ==
  /\ job \in [ScJobs -> JobType]
  /\ jobState \in [ScJobs -> JobStates]
  /\ taskCheckpoint \in [ScJobs -> TaskCheckpointType]
  /\ hand \in [ScClaims -> HandlerType]
  /\ \A c \in ScClaims : hand[c].at = "returned" => hand[c].outcome # "none"
  /\ \A m \in models :
       /\ m = [lineage |-> m.lineage, version |-> m.version, artifact |-> m.artifact,
               active |-> m.active]
       /\ m.artifact \in Artifact

ScInv == ScTypeOK /\ DerivedFromFinal

LEMMA HandlerFacts ==
  /\ IdleHandler \in HandlerType /\ IdleHandler.at = "none"
  /\ [IdleHandler EXCEPT !.at = "spawn"] \in HandlerType
  /\ [IdleHandler EXCEPT !.at = "spawn"].at = "spawn"
  BY DEF IdleHandler, HandlerType

\* A handler moves.
LEMMA HandMoves ==
  ASSUME ScInv, NEW c,
         \/ \E step \in {"submit", "answered", "closing"} : HandlerTo(c, step)
         \/ \E outcome \in {"completed", "failed", "cancelled"} : Return(c, outcome)
         \/ hand' = [hand EXCEPT ![c] = IdleHandler]
         \/ hand' = [hand EXCEPT ![c] = [IdleHandler EXCEPT !.at = "spawn"]]
         \/ hand' = hand
  PROVE  /\ hand' \in [ScClaims -> HandlerType]
         /\ \A d \in ScClaims : hand'[d].at = "returned" => hand'[d].outcome # "none"
<1>1. /\ hand \in [ScClaims -> HandlerType]
      /\ \A d \in ScClaims : hand[d].at = "returned" => hand[d].outcome # "none"
  BY DEF ScInv, ScTypeOK
<1>2. ASSUME NEW h \in HandlerType, hand' = [hand EXCEPT ![c] = h],
             h.at = "returned" => h.outcome # "none"
      PROVE  /\ hand' \in [ScClaims -> HandlerType]
             /\ \A d \in ScClaims : hand'[d].at = "returned" => hand'[d].outcome # "none"
  BY <1>1, <1>2
<1>3. CASE c \notin ScClaims
  <2>1. hand' = hand BY <1>1, <1>3 DEF HandlerTo, Return
  <2> QED BY <1>1, <2>1
<1>4. CASE c \in ScClaims
  <2>1. hand[c] \in HandlerType BY <1>1, <1>4
  <2>2. ASSUME NEW step \in {"submit", "answered", "closing"}, HandlerTo(c, step)
        PROVE  /\ hand' \in [ScClaims -> HandlerType]
               /\ \A d \in ScClaims : hand'[d].at = "returned" => hand'[d].outcome # "none"
    <3>1. [hand[c] EXCEPT !.at = step] \in HandlerType /\ [hand[c] EXCEPT !.at = step].at = step
      BY <2>1 DEF HandlerType
    <3> QED BY <1>1, <1>2, <2>2, <3>1 DEF HandlerTo
  <2>3. ASSUME NEW outcome \in {"completed", "failed", "cancelled"}, Return(c, outcome)
        PROVE  /\ hand' \in [ScClaims -> HandlerType]
               /\ \A d \in ScClaims : hand'[d].at = "returned" => hand'[d].outcome # "none"
    <3> DEFINE h == [hand[c] EXCEPT !.at = "returned", !.outcome = outcome]
    <3>1. h \in HandlerType /\ h.outcome # "none" BY <2>1 DEF HandlerType
    <3>2. hand' = [hand EXCEPT ![c] = h] BY <1>1, <2>3 DEF Return
    <3> QED BY <1>2, <3>1, <3>2
  <2> QED BY <1>1, <1>2, <2>2, <2>3, HandlerFacts
<1> QED BY <1>3, <1>4

\* A completed task keeps its state and its checkpoint.
CompletedKept ==
  \A j \in ScJobs : jobState[j] = "completed" =>
    jobState'[j] = "completed" /\ taskCheckpoint'[j] = taskCheckpoint[j]

\* What a derived task was built from is an artifact.
LEMMA DerivedArtifacts ==
  ASSUME ScInv
  PROVE  \A j \in ScJobs : job[j].kind \in Derived => job[j].artifact \in Artifact
  BY KindsAssumption DEF ScInv, ScTypeOK, JobType, NoJob

\* Nothing new is derived, and what was derived from stays.
LEMMA FinalStays ==
  ASSUME ScInv, CompletedKept, UNCHANGED <<job, models>>
  PROVE  DerivedFromFinal'
<1>1. \A a \in Artifact : IsFinal(a) => IsFinal(a)' BY DEF CompletedKept, IsFinal, Artifact
<1>2. \A m \in models : m.artifact \in Artifact BY DEF ScInv, ScTypeOK
<1> QED BY <1>1, <1>2, DerivedArtifacts DEF ScInv, DerivedFromFinal

\* A request creates a task that was absent, so no artifact is named after it.
LEMMA RequestKeeps ==
  ASSUME ScInv, NEW j \in ScJobs, NEW what \in JobType, CreateJob(j, what),
         what.kind \in Derived => IsFinal(what.artifact) /\ what.artifact \in Artifact,
         UNCHANGED <<taskCheckpoint, hand, models>>
  PROVE  ScInv'
<1>1. /\ job \in [ScJobs -> JobType] /\ jobState \in [ScJobs -> JobStates]
  BY DEF ScInv, ScTypeOK
<1>2. /\ jobState[j] = "absent" /\ job' = [job EXCEPT ![j] = what]
      /\ jobState' = [jobState EXCEPT ![j] = "queued"]
  BY DEF CreateJob
<1>3. job' \in [ScJobs -> JobType] /\ jobState' \in [ScJobs -> JobStates]
  BY <1>1, <1>2 DEF JobStates
<1>4. ScTypeOK' BY <1>3 DEF ScInv, ScTypeOK
<1>5. \A a \in Artifact : IsFinal(a) => IsFinal(a)'
  BY <1>1, <1>2 DEF IsFinal, Artifact
<1>7. DerivedFromFinal'
  <2>1. \A k \in ScJobs : job'[k].kind \in Derived => IsFinal(job[k].artifact)'
    <3> SUFFICES ASSUME NEW k \in ScJobs, job'[k].kind \in Derived,
                        NEW a, a = job'[k].artifact
                 PROVE  IsFinal(a)'
      BY DEF IsFinal
    <3>1. CASE k = j
      <4>1. job'[k] = what BY <1>1, <1>2, <3>1
      <4> QED BY <1>5, <4>1
    <3>2. CASE k # j
      <4>1. job'[k] = job[k] BY <1>1, <1>2, <3>2
      <4> QED BY <1>5, <4>1, DerivedArtifacts DEF ScInv, DerivedFromFinal
    <3> QED BY <3>1, <3>2
  <2>2. \A m \in models : IsFinal(m.artifact)'
    BY <1>5 DEF ScInv, ScTypeOK, DerivedFromFinal
  <2> QED BY <2>1, <2>2 DEF DerivedFromFinal
<1> QED BY <1>4, <1>7 DEF ScInv

LEMMA ResultIsFinal ==
  ASSUME ScInv, NEW t \in ScJobs, jobState[t] = "completed", taskCheckpoint[t].stage = "completed"
  PROVE  ResultOf(t) \in Artifact /\ IsFinal(ResultOf(t))
<1>1. taskCheckpoint[t] \in TaskCheckpointType BY DEF ScInv, ScTypeOK
<1>2. taskCheckpoint[t] = [stage |-> "completed", by |-> taskCheckpoint[t].by]
  BY <1>1 DEF TaskCheckpointType
<1> QED BY <1>1, <1>2 DEF ResultOf, Artifact, IsFinal, TaskCheckpointType

LEMMA RequestsKeep ==
  ASSUME ScInv, ScRequests
  PROVE  ScInv'
<1>1. ASSUME NEW j \in ScJobs, NEW algo \in Algorithms, train_steel_dataset(j, algo)
      PROVE  ScInv'
  <2> DEFINE what == [kind |-> "train", algo |-> algo]
  <2>1. what \in JobType /\ what.kind \notin Derived BY KindsAssumption DEF JobType
  <2> QED BY <1>1, <2>1, RequestKeeps DEF train_steel_dataset
<1>2. ASSUME NEW j \in ScJobs, NEW t \in ScJobs, NEW kind \in Derived, derive(j, kind, t)
      PROVE  ScInv'
  <2> DEFINE what == [kind |-> kind, artifact |-> ResultOf(t)]
  <2>1. ResultOf(t) \in Artifact /\ IsFinal(ResultOf(t))
    BY <1>2, ResultIsFinal DEF derive, Trained
  <2>2. what \in JobType /\ what.artifact = ResultOf(t) BY <2>1 DEF JobType
  <2>3. CreateJob(j, what) /\ UNCHANGED <<taskCheckpoint, hand, models>> BY <1>2 DEF derive
  <2> HIDE DEF what
  <2> QED BY <2>1, <2>2, <2>3, RequestKeeps
<1>3. ASSUME NEW j \in ScJobs, NEW kind \in Standalone, standalone(j, kind)
      PROVE  ScInv'
  <2> DEFINE what == [kind |-> kind]
  <2>1. what \in JobType /\ what.kind \notin Derived BY KindsAssumption DEF JobType
  <2> QED BY <1>3, <2>1, RequestKeeps DEF standalone
<1> QED BY <1>1, <1>2, <1>3 DEF ScRequests

\* The scheduler and the handlers: a row that has completed is written no more.
LEMMA TasksKeep ==
  ASSUME ScInv, ScTasks
  PROVE  ScInv'
<1>1. /\ jobState \in [ScJobs -> JobStates] /\ hand \in [ScClaims -> HandlerType]
      /\ \A c \in ScClaims : hand[c].at = "returned" => hand[c].outcome # "none"
  BY DEF ScInv, ScTypeOK
<1>2. UNCHANGED <<job, taskCheckpoint, models>>
  BY DEF ScTasks, ClaimJob, CancelJob, RetryJob, InterruptJob, RecoverJob, SignalStop
<1>3. /\ jobState' \in [ScJobs -> JobStates] /\ CompletedKept
      /\ hand' \in [ScClaims -> HandlerType]
      /\ \A c \in ScClaims : hand'[c].at = "returned" => hand'[c].outcome # "none"
  <2>1. ASSUME NEW j \in ScJobs,
               ClaimJob(j) \/ CancelJob(j) \/ RetryJob(j) \/ InterruptJob(j) \/ RecoverJob(j)
        PROVE  /\ jobState' \in [ScJobs -> JobStates] /\ CompletedKept
               /\ hand' \in [ScClaims -> HandlerType]
               /\ \A c \in ScClaims : hand'[c].at = "returned" => hand'[c].outcome # "none"
    <3>1. \/ jobState' = jobState
          \/ jobState[j] # "completed" /\ \E s \in JobStates \ {"completed"} : SetState(j, s)
      BY <2>1 DEF ClaimJob, CancelJob, RetryJob, InterruptJob, RecoverJob, SetState, JobStates
    <3>2. jobState' \in [ScJobs -> JobStates] /\ CompletedKept
      BY <1>1, <1>2, <3>1 DEF SetState, CompletedKept
    <3>3. \/ hand' = hand
          \/ hand' = [hand EXCEPT ![<<j, jobTry[j] + 1>>] = [IdleHandler EXCEPT !.at = "spawn"]]
      BY <2>1 DEF ClaimJob, CancelJob, RetryJob, InterruptJob, RecoverJob
    <3> QED BY <3>2, <3>3, HandMoves
  <2>2. CASE SignalStop
    <3>1. \A c \in ScClaims : /\ [hand[c] EXCEPT !.stop = TRUE] \in HandlerType
                              /\ [hand[c] EXCEPT !.stop = TRUE].at = hand[c].at
                              /\ [hand[c] EXCEPT !.stop = TRUE].outcome = hand[c].outcome
      BY <1>1 DEF HandlerType
    <3> QED BY <1>1, <1>2, <2>2, <3>1 DEF SignalStop, taskVars, CompletedKept
  <2> QED BY <2>1, <2>2 DEF ScTasks
<1>4. ScTypeOK' BY <1>2, <1>3 DEF ScInv, ScTypeOK
<1> QED BY <1>2, <1>3, <1>4, FinalStays DEF ScInv

LEMMA HandlersKeep ==
  ASSUME ScInv, ScHandlers
  PROVE  ScInv'
<1>1. /\ jobState \in [ScJobs -> JobStates] /\ hand \in [ScClaims -> HandlerType]
      /\ taskCheckpoint \in [ScJobs -> TaskCheckpointType]
      /\ \A c \in ScClaims : hand[c].at = "returned" => hand[c].outcome # "none"
  BY DEF ScInv, ScTypeOK
<1>2. UNCHANGED <<job, models>>
  BY DEF ScHandlers, open_worker, on_progress, monitor, response, store, close, EndAttempt
<1>3. PICK c \in ScClaims :
        \/ open_worker(c) \/ on_progress(c) \/ monitor(c) \/ response(c)
        \/ store(c) \/ close(c) \/ EndAttempt(c)
  BY DEF ScHandlers
<1>4. c[1] \in ScJobs /\ c[2] \in Nat BY DEF ScClaims
<1>5. /\ hand' \in [ScClaims -> HandlerType]
      /\ \A d \in ScClaims : hand'[d].at = "returned" => hand'[d].outcome # "none"
  BY <1>3, HandMoves
  DEF open_worker, on_progress, monitor, response, dispatch, store, close, EndAttempt
<1>6. jobState' \in [ScJobs -> JobStates] /\
        \A j \in ScJobs : jobState[j] = "completed" => jobState'[j] = "completed"
  <2>1. CASE EndAttempt(c)
    <3>1. OutcomeOf(c) \in JobStates BY <1>1, <2>1 DEF EndAttempt, OutcomeOf, HandlerType, JobStates
    <3> QED BY <1>1, <1>4, <2>1, <3>1 DEF EndAttempt, OwnsRow, SetState
  <2>2. CASE ~EndAttempt(c)
    BY <1>1, <1>3, <2>2 DEF open_worker, on_progress, monitor, response, store, close, taskVars
  <2> QED BY <2>1, <2>2
<1>7. /\ taskCheckpoint' \in [ScJobs -> TaskCheckpointType]
      /\ \A j \in ScJobs : jobState[j] = "completed" => taskCheckpoint'[j] = taskCheckpoint[j]
  <2>1. \/ taskCheckpoint' = taskCheckpoint
        \/ \E stage \in {"progress", "completed"} : task_checkpoint(c, stage)
    BY <1>3 DEF open_worker, on_progress, monitor, response, store, close, EndAttempt
  <2>2. ASSUME NEW stage \in {"progress", "completed"}, task_checkpoint(c, stage)
        PROVE  /\ taskCheckpoint' \in [ScJobs -> TaskCheckpointType]
               /\ \A j \in ScJobs : jobState[j] = "completed" =>
                    taskCheckpoint'[j] = taskCheckpoint[j]
    <3>1. [stage |-> stage, by |-> c[2]] \in TaskCheckpointType
      BY <1>4 DEF TaskCheckpointType
    <3> QED BY <1>1, <1>4, <2>2, <3>1 DEF task_checkpoint, OwnsRow
  <2> QED BY <1>1, <2>1, <2>2
<1>8. ScTypeOK' BY <1>2, <1>5, <1>6, <1>7 DEF ScInv, ScTypeOK
<1> QED BY <1>2, <1>6, <1>7, <1>8, FinalStays DEF ScInv, CompletedKept

\* Model versions: a new one takes a result that is final.
LEMMA ModelsKeep ==
  ASSUME ScInv, ScModels
  PROVE  ScInv'
<1> DEFINE Sound(m) == /\ m = [lineage |-> m.lineage, version |-> m.version,
                               artifact |-> m.artifact, active |-> m.active]
                       /\ m.artifact \in Artifact /\ IsFinal(m.artifact)
<1>1. UNCHANGED <<job, jobState, taskCheckpoint, hand>>
  BY DEF ScModels, register_steel_model, set_active, delete, taskVars
<1>2. \A m \in models : Sound(m) BY DEF ScInv, ScTypeOK, DerivedFromFinal
<1>3. \A m \in models' : Sound(m)
  <2>1. ASSUME NEW t \in ScJobs, NEW l \in Lineages, register_steel_model(t, l)
        PROVE  \A m \in models' : Sound(m)
    <3>1. ResultOf(t) \in Artifact /\ IsFinal(ResultOf(t))
      BY <2>1, ResultIsFinal DEF register_steel_model, Registrable
    <3> QED BY <1>2, <2>1, <3>1 DEF register_steel_model
  <2>2. ASSUME NEW m \in models, set_active(m) PROVE \A n \in models' : Sound(n)
    <3> TAKE x \in models'
    <3>1. PICK n \in models :
            x = [n EXCEPT !.active = IF n.lineage # m.lineage THEN n.active ELSE n = m]
      BY <2>2 DEF set_active
    <3> DEFINE b == IF n.lineage # m.lineage THEN n.active ELSE n = m
    <3>2. x = [lineage |-> n.lineage, version |-> n.version, artifact |-> n.artifact,
               active |-> b]
      BY <1>2, <3>1
    <3> HIDE DEF b
    <3> QED BY <1>2, <3>2
  <2>3. ASSUME NEW m \in models, delete(m) PROVE \A n \in models' : Sound(n)
    BY <1>2, <2>3 DEF delete
  <2> QED BY <2>1, <2>2, <2>3 DEF ScModels
<1>4. ScTypeOK' BY <1>1, <1>3 DEF ScInv, ScTypeOK
<1>5. DerivedFromFinal' BY <1>1, <1>3 DEF ScInv, DerivedFromFinal, IsFinal
<1> QED BY <1>4, <1>5 DEF ScInv

LEMMA ScInitHolds == ScInit => ScInv
<1> SUFFICES ASSUME ScInit PROVE ScInv OBVIOUS
<1>1. NoJob.kind \notin Derived BY KindsAssumption DEF NoJob
<1> QED BY <1>1, HandlerFacts
  DEF ScInit, ScInv, ScTypeOK, DerivedFromFinal, JobType, JobStates, TaskCheckpointType

LEMMA ScStepHolds == ScInv /\ [ScNext]_scVars => ScInv'
<1> SUFFICES ASSUME ScInv, [ScNext]_scVars PROVE ScInv' OBVIOUS
<1>1. CASE UNCHANGED scVars
  BY <1>1 DEF scVars, taskVars, ScInv, ScTypeOK, DerivedFromFinal, IsFinal
<1> QED BY <1>1, RequestsKeep, TasksKeep, HandlersKeep, ModelsKeep DEF ScNext

\* The types, and that every artifact in use is the final result of a completed task.
THEOREM ComputeInvariant == ScSpec => []ScInv
  BY ScInitHolds, ScStepHolds, PTL DEF ScSpec

\* No prediction, optimization, export or model version rests on a result that was
\* rewritten after it was taken, for any tasks, attempts, failures and shutdowns.
THEOREM ArtifactsAreFinal == ScSpec => []DerivedFromFinal
<1>1. ScInv => DerivedFromFinal BY DEF ScInv
<1> QED BY <1>1, ComputeInvariant, PTL

-----------------------------------------------------------------------------
(***************************************************************************)
(* The wiki: PageShowsLatestRevision. The revisions of a page are numbered *)
(* without a gap, and an editor that has read the last number writes at    *)
(* most the next one.                                                      *)
(***************************************************************************)

WikiBodies == WikiTexts \cup {{}}
WikiSources == SourceDocs \cup {NoSource}
WikiTags == (SUBSET Tags) \cup {KeepTags}

\* The rows of one page: its revisions are numbered without a gap from 1, a
\* number belongs to one revision, a slug that never had a page has none, and
\* the text of a live page is that of the last revision.
PageFits(p, rs, n) ==
    /\ {r.number : r \in rs} = 1..n
    /\ \A q, r \in rs : q.number = r.number => q = r
    /\ p.row = "none" => rs = {}
    /\ p.row = "live" => n > 0 /\ [number |-> n, body |-> p.body] \in rs

\* What an editor is about to write: the number is at most the next one, and
\* the page of an update or a restore exists, alive or not.
EditFits(x) ==
    /\ x.kind # "idle" => x.slug \in Slugs
    /\ x.kind = "create" => x.number = 1
    /\ x.kind \in {"update", "restore"} =>
         /\ page[x.slug].row # "none"
         /\ x.number > 0
         /\ \A n \in Nat : {r.number : r \in revision[x.slug]} = 1..n => x.number <= n + 1

WikiTypes ==
    /\ page \in [Slugs -> [row : {"none", "live", "deleted"}, body : WikiBodies,
                           source : WikiSources, tags : WikiTags]]
    /\ revision \in [Slugs -> SUBSET [number : Nat, body : WikiBodies]]
    /\ editor \in [Editors -> [kind : {"idle", "create", "update", "restore"},
                               slug : Slugs \cup {"none"}, body : WikiBodies,
                               source : WikiSources, tags : WikiTags, number : Nat]]

WikiInv ==
    /\ WikiTypes
    /\ \A s \in Slugs : \E n \in Nat : PageFits(page[s], revision[s], n)
    /\ \A e \in Editors : EditFits(editor[e])

\* Numbers 1 to n: the last one is n (0 of a page without revisions).
LEMMA LastOfNumbers ==
    ASSUME NEW s \in Slugs, NEW n \in Nat, {r.number : r \in revision[s]} = 1..n
    PROVE  LastNumber(s) = n
<1>1. {r.number : r \in revision[s]} \cup {0} = 0..n
  OBVIOUS
<1>2. n \in 0..n /\ \A y \in 0..n : n >= y
  OBVIOUS
<1>3. \A x \in 0..n : (\A y \in 0..n : x >= y) => x = n
  OBVIOUS
<1>4. Max(0..n) = n
  BY <1>2, <1>3 DEF Max
<1> QED  BY <1>1, <1>4 DEF LastNumber

\* Two intervals from 1 with the same elements have the same end.
LEMMA SameInterval ==
    ASSUME NEW m \in Nat, NEW n \in Nat, 1..m = 1..n
    PROVE  m = n
<1>1. CASE m < n
  <2>1. n \in 1..n /\ n \notin 1..m  BY <1>1
  <2> QED  BY <2>1
<1>2. CASE n < m
  <2>1. m \in 1..m /\ m \notin 1..n  BY <1>2
  <2> QED  BY <2>1
<1> QED  BY <1>1, <1>2

LEMMA WikiStarts ==
    ASSUME WikiInit
    PROVE  WikiInv
<1>1. WikiTypes
  BY DEF WikiInit, WikiTypes, NoPage, Reading, WikiBodies, WikiSources, WikiTags
<1>2. ASSUME NEW s \in Slugs
      PROVE  PageFits(page[s], revision[s], 0)
  <2>1. page[s].row = "none" /\ revision[s] = {}
    BY DEF WikiInit, NoPage
  <2>2. {r.number : r \in revision[s]} = 1..0
    BY <2>1
  <2> QED  BY <2>1, <2>2 DEF PageFits
<1>3. ASSUME NEW e \in Editors
      PROVE  EditFits(editor[e])
  BY DEF WikiInit, EditFits, Reading
<1> QED  BY <1>1, <1>2, <1>3 DEF WikiInv

\* A command that reads: the number it takes is the next one.
LEMMA ReadsKeepWiki ==
    ASSUME WikiInv, NEW e \in Editors, NEW x, x.kind # "idle",
           x \in [kind : {"idle", "create", "update", "restore"},
                  slug : Slugs \cup {"none"}, body : WikiBodies,
                  source : WikiSources, tags : WikiTags, number : Nat],
           EditFits(x),
           editor' = [editor EXCEPT ![e] = x],
           UNCHANGED <<wikiBase, page, revision, edges>>
    PROVE  WikiInv'
<1>1. WikiTypes'
  BY DEF WikiInv, WikiTypes
<1>2. \A f \in Editors : editor'[f] = IF f = e THEN x ELSE editor[f]
  BY DEF WikiInv, WikiTypes
<1>3. \A f \in Editors : EditFits(editor[f])'
  BY <1>2 DEF WikiInv, EditFits
<1>4. \A s \in Slugs : \E n \in Nat : PageFits(page[s], revision[s], n)'
  BY DEF WikiInv, PageFits
<1> QED  BY <1>1, <1>3, <1>4 DEF WikiInv

LEMMA UpdateFits ==
    ASSUME WikiInv, NEW s \in Slugs, page[s].row = "live", NEW x,
           x.kind \in {"update", "restore"}, x.slug = s, x.number = LastNumber(s) + 1
    PROVE  EditFits(x) /\ x.number \in Nat
<1>1. PICK n \in Nat : PageFits(page[s], revision[s], n)
  BY DEF WikiInv
<1>2. LastNumber(s) = n
  BY <1>1, LastOfNumbers DEF PageFits
<1>3. \A m \in Nat : {r.number : r \in revision[s]} = 1..m => m = n
  BY <1>1, SameInterval DEF PageFits
<1> QED  BY <1>2, <1>3 DEF EditFits

\* A commit: the row gets the text, the revision is the next one.
LEMMA CommitKeepsWiki ==
    ASSUME WikiInv, NEW e \in Editors, NEW p, NEW source,
           editor[e].kind # "idle",
           p \in [row : {"none", "live", "deleted"}, body : WikiBodies,
                  source : WikiSources, tags : WikiTags],
           p.row # "none",
           p.row = "live" => p.body = editor[e].body,
           \A n \in Nat : PageFits(page[editor[e].slug], revision[editor[e].slug], n)
                            => editor[e].number = n + 1,
           WriteWiki(e, editor[e].slug, p, source)
    PROVE  WikiInv'
<1> DEFINE x == editor[e]
           s == x.slug
           r == [number |-> x.number, body |-> x.body]
<1>1. /\ x \in [kind : {"idle", "create", "update", "restore"},
                slug : Slugs \cup {"none"}, body : WikiBodies,
                source : WikiSources, tags : WikiTags, number : Nat]
      /\ s \in Slugs
      /\ EditFits(x)
  BY DEF WikiInv, WikiTypes, EditFits
<1>2. r \in [number : Nat, body : WikiBodies]
  BY <1>1
<1>3. /\ page' = [page EXCEPT ![s] = p]
      /\ revision' = [revision EXCEPT ![s] = @ \cup {r}]
      /\ editor' = [editor EXCEPT ![e] = Reading]
  BY DEF WriteWiki
<1>r. Reading \in [kind : {"idle", "create", "update", "restore"},
                slug : Slugs \cup {"none"}, body : WikiBodies,
                source : WikiSources, tags : WikiTags, number : Nat]
  BY DEF Reading, WikiBodies, WikiSources, WikiTags
<1>4. WikiTypes'
  BY <1>1, <1>2, <1>3, <1>r DEF WikiInv, WikiTypes
<1>5. PICK n \in Nat : PageFits(page[s], revision[s], n)
  BY <1>1 DEF WikiInv
<1>6. x.number = n + 1
  BY <1>5
<1>7. revision'[s] = revision[s] \cup {r} /\ page'[s] = p
  BY <1>1, <1>3 DEF WikiInv, WikiTypes
<1>8. {q.number : q \in revision'[s]} = 1..(n + 1)
  <2>1. {q.number : q \in revision'[s]} = {q.number : q \in revision[s]} \cup {n + 1}
    <3>1. r.number = n + 1
      BY <1>6
    <3> HIDE DEF r
    <3> QED  BY <3>1, <1>7
  <2>2. {q.number : q \in revision[s]} = 1..n
    BY <1>5 DEF PageFits
  <2>3. (1..n) \cup {n + 1} = 1..(n + 1)
    OBVIOUS
  <2> QED  BY <2>1, <2>2, <2>3
<1>9. \A q \in revision[s] : q.number \in 1..n
  BY <1>5 DEF PageFits
<1>10. \A q, t \in revision'[s] : q.number = t.number => q = t
  <2>1. \A q \in revision[s] : q.number # r.number
    BY <1>9, <1>6
  <2> QED  BY <2>1, <1>7, <1>5 DEF PageFits
<1>11. PageFits(p, revision'[s], n + 1)
  BY <1>6, <1>7, <1>8, <1>10 DEF PageFits
<1>12. ASSUME NEW u \in Slugs
       PROVE  \E m \in Nat : PageFits(page[u], revision[u], m)'
  <2>1. CASE u = s
    <3>1. PageFits(page[u], revision[u], n + 1)'
      BY <2>1, <1>11, <1>7 DEF PageFits
    <3> QED  BY <3>1
  <2>2. CASE u # s
    <3>1. page'[u] = page[u] /\ revision'[u] = revision[u]
      BY <2>2, <1>1, <1>3 DEF WikiInv, WikiTypes
    <3>2. PICK m \in Nat : PageFits(page[u], revision[u], m)
      BY DEF WikiInv
    <3>3. PageFits(page[u], revision[u], m)'
      BY <3>1, <3>2 DEF PageFits
    <3> QED  BY <3>3
  <2> QED  BY <2>1, <2>2
<1>13. ASSUME NEW f \in Editors
       PROVE  EditFits(editor[f])'
  <2>1. CASE f = e
    <3>1. editor'[f] = Reading  BY <2>1, <1>3 DEF WikiInv, WikiTypes
    <3> QED  BY <3>1 DEF EditFits, Reading
  <2>2. CASE f # e
    <3>1. editor'[f] = editor[f]  BY <2>2, <1>3 DEF WikiInv, WikiTypes
    <3>2. EditFits(editor[f]) /\ editor[f].number \in Nat
      BY DEF WikiInv, WikiTypes
    <3>3. CASE editor[f].kind \notin {"update", "restore"}
      BY <3>1, <3>2, <3>3 DEF EditFits
    <3>4. CASE editor[f].kind \in {"update", "restore"} /\ editor[f].slug # s
      <4>1. /\ editor[f].slug \in Slugs
            /\ page'[editor[f].slug] = page[editor[f].slug]
            /\ revision'[editor[f].slug] = revision[editor[f].slug]
        BY <3>4, <3>2, <1>3 DEF EditFits, WikiInv, WikiTypes
      <4> QED  BY <4>1, <3>1, <3>2, <3>4 DEF EditFits
    <3>5. CASE editor[f].kind \in {"update", "restore"} /\ editor[f].slug = s
      <4>1. editor[f].number <= n + 1
        BY <3>5, <3>2, <1>5 DEF EditFits, PageFits
      <4>2. \A m \in Nat : {q.number : q \in revision'[s]} = 1..m => m = n + 1
        BY <1>8, SameInterval
      <4>3. \A m \in Nat : {q.number : q \in revision'[s]} = 1..m
                              => editor[f].number <= m + 1
        BY <4>1, <4>2, <3>2
      <4>4. page'[s].row # "none"  BY <1>7
      <4> QED  BY <4>3, <4>4, <3>1, <3>2, <3>5 DEF EditFits
    <3> QED  BY <3>3, <3>4, <3>5
  <2> QED  BY <2>1, <2>2
<1> QED  BY <1>4, <1>12, <1>13 DEF WikiInv

\* The number of an update or a restore that is still free is the next one.
LEMMA FreeIsNext ==
    ASSUME WikiInv, NEW e \in Editors, editor[e].kind \in {"update", "restore"},
           NumberFree(editor[e]), NEW n \in Nat,
           PageFits(page[editor[e].slug], revision[editor[e].slug], n)
    PROVE  editor[e].number = n + 1
<1> DEFINE x == editor[e]
<1>1. x.number \in Nat /\ x.number > 0 /\ x.number <= n + 1
  BY DEF WikiInv, WikiTypes, EditFits, PageFits
<1>2. x.number \notin {r.number : r \in revision[x.slug]}
  BY DEF NumberFree
<1>3. x.number \notin 1..n
  BY <1>2 DEF PageFits
<1> QED  BY <1>1, <1>3

\* A row of page that changes neither its text nor whether it exists.
LEMMA RowsKeepWiki ==
    ASSUME WikiInv, UNCHANGED <<revision, editor>>,
           page' \in [Slugs -> [row : {"none", "live", "deleted"}, body : WikiBodies,
                                source : WikiSources, tags : WikiTags]],
           \A s \in Slugs :
               /\ page'[s].body = page[s].body
               /\ page'[s].row = "none" <=> page[s].row = "none"
               /\ page'[s].row = "live" => page[s].row = "live"
    PROVE  WikiInv'
<1>1. WikiTypes'
  BY DEF WikiInv, WikiTypes
<1>2. ASSUME NEW s \in Slugs
      PROVE  \E n \in Nat : PageFits(page[s], revision[s], n)'
  <2>1. PICK n \in Nat : PageFits(page[s], revision[s], n)
    BY DEF WikiInv
  <2>2. PageFits(page[s], revision[s], n)'
    BY <2>1 DEF PageFits
  <2> QED  BY <2>2
<1>3. ASSUME NEW e \in Editors
      PROVE  EditFits(editor[e])'
  BY DEF WikiInv, EditFits
<1> QED  BY <1>1, <1>2, <1>3 DEF WikiInv

LEMMA WikiStepKeeps ==
    ASSUME WikiInv, WikiNext
    PROVE  WikiInv'
<1> USE DEF WikiBodies, WikiSources, WikiTags
<1>1. ASSUME NEW e \in Editors, NEW s \in Slugs, NEW body \in WikiTexts,
             NEW source \in SourceDocs \cup {NoSource}, NEW tags \in SUBSET Tags,
             BeginCreate(e, s, body, source, tags)
      PROVE  WikiInv'
  <2> DEFINE x == [kind |-> "create", slug |-> s, body |-> body,
                   source |-> source, tags |-> tags, number |-> 1]
  <2>1. EditFits(x)  BY DEF EditFits
  <2> QED  BY <1>1, <2>1, ReadsKeepWiki DEF BeginCreate
<1>2. ASSUME NEW e \in Editors, NEW s \in Slugs, NEW body \in WikiTexts,
             NEW source \in SourceDocs \cup {NoSource},
             NEW tags \in (SUBSET Tags) \cup {KeepTags},
             BeginUpdate(e, s, body, source, tags)
      PROVE  WikiInv'
  <2> DEFINE x == [kind |-> "update", slug |-> s, body |-> body,
                   source |-> source, tags |-> tags, number |-> LastNumber(s) + 1]
  <2>1. EditFits(x) /\ x.number \in Nat
    BY <1>2, UpdateFits DEF BeginUpdate
  <2> QED  BY <1>2, <2>1, ReadsKeepWiki DEF BeginUpdate
<1>3. ASSUME NEW e \in Editors, NEW s \in Slugs, NEW r \in revision[s],
             BeginRestore(e, s, r)
      PROVE  WikiInv'
  <2> DEFINE x == [kind |-> "restore", slug |-> s, body |-> r.body,
                   source |-> NoSource, tags |-> {}, number |-> LastNumber(s) + 1]
  <2>1. EditFits(x) /\ x.number \in Nat
    BY <1>3, UpdateFits DEF BeginRestore
  <2>2. r.body \in WikiBodies
    BY DEF WikiInv, WikiTypes
  <2> QED  BY <1>3, <2>1, <2>2, ReadsKeepWiki DEF BeginRestore
<1>4. ASSUME NEW e \in Editors
      PROVE  /\ editor[e] \in [kind : {"idle", "create", "update", "restore"},
                    slug : Slugs \cup {"none"}, body : WikiBodies,
                    source : WikiSources, tags : WikiTags, number : Nat]
             /\ editor[e].kind # "idle" => editor[e].slug \in Slugs
  BY DEF WikiInv, WikiTypes, EditFits
<1>5. ASSUME NEW e \in Editors, CommitCreate(e)
      PROVE  WikiInv'
  <2> DEFINE x == editor[e]
             p == [row |-> "live", body |-> x.body, source |-> x.source, tags |-> x.tags]
  <2>1. x.kind = "create" /\ page[x.slug].row = "none" /\ WriteWiki(e, x.slug, p, x.source)
    BY <1>5 DEF CommitCreate
  <2>2. x.number = 1
    BY <2>1 DEF WikiInv, EditFits
  <2>3. ASSUME NEW n \in Nat, PageFits(page[x.slug], revision[x.slug], n)
        PROVE  x.number = n + 1
    <3>1. {r.number : r \in revision[x.slug]} = {}
      BY <2>1, <2>3 DEF PageFits
    <3>2. 1..n = {}
      BY <3>1, <2>3 DEF PageFits
    <3>3. n = 0 \/ 1 \in 1..n  OBVIOUS
    <3> QED  BY <3>2, <3>3, <2>2
  <2>4. p \in [row : {"none", "live", "deleted"}, body : WikiBodies,
               source : WikiSources, tags : WikiTags]
    BY <1>4
  <2>5. p.row = "live" /\ p.body = x.body  OBVIOUS
  <2> HIDE DEF p
  <2> QED  BY <2>1, <2>3, <2>4, <2>5, CommitKeepsWiki
<1>6. ASSUME NEW e \in Editors, CommitWikiUpdate(e)
      PROVE  WikiInv'
  <2> DEFINE x == editor[e]
             t == IF x.tags = KeepTags THEN page[x.slug].tags ELSE x.tags
             p == IF page[x.slug].row = "live"
                  THEN [page[x.slug] EXCEPT !.body = x.body, !.source = x.source, !.tags = t]
                  ELSE page[x.slug]
  <2>1. x.kind = "update" /\ NumberFree(x) /\ WriteWiki(e, x.slug, p, x.source)
    BY <1>6 DEF CommitWikiUpdate
  <2>2. page[x.slug] \in [row : {"none", "live", "deleted"}, body : WikiBodies,
                          source : WikiSources, tags : WikiTags]
    BY <1>4, <2>1 DEF WikiInv, WikiTypes
  <2>3. page[x.slug].row # "none"
    BY <2>1 DEF WikiInv, EditFits
  <2>4. t \in WikiTags
    BY <1>4, <2>2
  <2> HIDE DEF t
  <2>5. p \in [row : {"none", "live", "deleted"}, body : WikiBodies,
               source : WikiSources, tags : WikiTags]
    BY <1>4, <2>2, <2>4
  <2>6. p.row # "none" /\ (p.row = "live" => p.body = x.body)
    BY <2>2, <2>3
  <2>7. \A n \in Nat : PageFits(page[x.slug], revision[x.slug], n) => x.number = n + 1
    BY <2>1, FreeIsNext
  <2> HIDE DEF p
  <2> QED  BY <2>1, <2>5, <2>6, <2>7, CommitKeepsWiki
<1>7. ASSUME NEW e \in Editors, CommitRestore(e)
      PROVE  WikiInv'
  <2> DEFINE x == editor[e]
             p == IF page[x.slug].row = "live"
                  THEN [page[x.slug] EXCEPT !.body = x.body] ELSE page[x.slug]
  <2>1. x.kind = "restore" /\ NumberFree(x) /\ WriteWiki(e, x.slug, p, page[x.slug].source)
    BY <1>7 DEF CommitRestore
  <2>2. page[x.slug] \in [row : {"none", "live", "deleted"}, body : WikiBodies,
                          source : WikiSources, tags : WikiTags]
    BY <1>4, <2>1 DEF WikiInv, WikiTypes
  <2>3. page[x.slug].row # "none"
    BY <2>1 DEF WikiInv, EditFits
  <2>5. p \in [row : {"none", "live", "deleted"}, body : WikiBodies,
               source : WikiSources, tags : WikiTags]
    BY <1>4, <2>2
  <2>6. p.row # "none" /\ (p.row = "live" => p.body = x.body)
    BY <2>2, <2>3
  <2>7. \A n \in Nat : PageFits(page[x.slug], revision[x.slug], n) => x.number = n + 1
    BY <2>1, FreeIsNext
  <2> HIDE DEF p
  <2> QED  BY <2>1, <2>5, <2>6, <2>7, CommitKeepsWiki
<1>8. ASSUME NEW e \in Editors, WikiRefused(e)
      PROVE  WikiInv'
  <2>1. editor' = [editor EXCEPT ![e] = Reading] /\ UNCHANGED <<page, revision>>
    BY <1>8 DEF WikiRefused
  <2>2. Reading \in [kind : {"idle", "create", "update", "restore"},
                slug : Slugs \cup {"none"}, body : WikiBodies,
                source : WikiSources, tags : WikiTags, number : Nat]
    BY DEF Reading
  <2>3. WikiTypes'
    BY <2>1, <2>2 DEF WikiInv, WikiTypes
  <2>4. \A f \in Editors : editor'[f] = IF f = e THEN Reading ELSE editor[f]
    BY <2>1 DEF WikiInv, WikiTypes
  <2>5. \A f \in Editors : EditFits(editor[f])'
    BY <2>1, <2>4 DEF WikiInv, EditFits, Reading
  <2>6. \A s \in Slugs : \E n \in Nat : PageFits(page[s], revision[s], n)'
    BY <2>1 DEF WikiInv, PageFits
  <2> QED  BY <2>3, <2>5, <2>6 DEF WikiInv
<1>9. ASSUME NEW s \in Slugs, NEW tags \in SUBSET Tags, SetTags(s, tags)
      PROVE  WikiInv'
  <2>1. page' = [page EXCEPT ![s].tags = tags] /\ UNCHANGED <<revision, editor>>
    BY <1>9 DEF SetTags
  <2> DEFINE p == [page[s] EXCEPT !.tags = tags]
  <2>a. page[s] \in [row : {"none", "live", "deleted"}, body : WikiBodies,
                     source : WikiSources, tags : WikiTags]
    BY DEF WikiInv, WikiTypes
  <2>b. /\ p \in [row : {"none", "live", "deleted"}, body : WikiBodies,
                  source : WikiSources, tags : WikiTags]
        /\ p.body = page[s].body /\ p.row = page[s].row
    BY <2>a
  <2>c. page' = [page EXCEPT ![s] = p]
    BY <2>1
  <2> HIDE DEF p
  <2>2. page' \in [Slugs -> [row : {"none", "live", "deleted"}, body : WikiBodies,
                             source : WikiSources, tags : WikiTags]]
    BY <2>b, <2>c DEF WikiInv, WikiTypes
  <2>3. \A u \in Slugs : page'[u].body = page[u].body /\ page'[u].row = page[u].row
    BY <2>b, <2>c DEF WikiInv, WikiTypes
  <2> QED  BY <2>1, <2>2, <2>3, RowsKeepWiki
<1>10. ASSUME NEW s \in Slugs, NEW t \in Slugs, CreateEdge(s, t)
       PROVE  WikiInv'
  BY <1>10, RowsKeepWiki DEF CreateEdge, WikiInv, WikiTypes
<1>11. ASSUME NEW x \in edges, DeleteEdge(x)
       PROVE  WikiInv'
  BY <1>11, RowsKeepWiki DEF DeleteEdge, WikiInv, WikiTypes
<1>12. ASSUME DeleteWiki
       PROVE  WikiInv'
  <2>1. /\ page' = [s \in Slugs |-> IF page[s].row = "live"
                         THEN [page[s] EXCEPT !.row = "deleted"] ELSE page[s]]
        /\ UNCHANGED <<revision, editor>>
    BY <1>12 DEF DeleteWiki
  <2>2. \A s \in Slugs : page[s] \in [row : {"none", "live", "deleted"},
                body : WikiBodies, source : WikiSources, tags : WikiTags]
    BY DEF WikiInv, WikiTypes
  <2>3. page' \in [Slugs -> [row : {"none", "live", "deleted"}, body : WikiBodies,
                             source : WikiSources, tags : WikiTags]]
    BY <2>1, <2>2
  <2>4. \A s \in Slugs :
          /\ page'[s].body = page[s].body
          /\ page'[s].row = IF page[s].row = "live" THEN "deleted" ELSE page[s].row
    BY <2>1, <2>2
  <2> QED  BY <2>1, <2>3, <2>4, RowsKeepWiki
<1> QED  BY <1>1, <1>2, <1>3, <1>5, <1>6, <1>7, <1>8, <1>9, <1>10, <1>11, <1>12
         DEF WikiNext

\* The revisions of a page are numbered without a gap and a live page shows the
\* text of the last one, for any number of editors, pages and commands: the
\* number read by an editor is only a proposal, UNIQUE (page_id, revision) of
\* knowledge_db.rs decides which one of two editors saves.
THEOREM WikiInvariant == WikiSpec => []WikiInv
<1>1. WikiInit => WikiInv
  BY WikiStarts
<1>2. WikiInv /\ [WikiNext]_wikiVars => WikiInv'
  <2> SUFFICES ASSUME WikiInv, [WikiNext]_wikiVars
               PROVE  WikiInv'
    OBVIOUS
  <2>1. CASE WikiNext
    BY <2>1, WikiStepKeeps
  <2>2. CASE UNCHANGED wikiVars
    BY <2>2, RowsKeepWiki DEF wikiVars, WikiInv, WikiTypes
  <2> QED  BY <2>1, <2>2
<1> QED  BY <1>1, <1>2, PTL DEF WikiSpec

\* No edit of a wiki page is lost without a revision: of two editors that read
\* the same revision number only one saves, so the text a live page shows is
\* always that of its latest revision.
THEOREM PagesShowLatest == WikiSpec => []PageShowsLatestRevision
<1>1. WikiInv => PageShowsLatestRevision
  <2> SUFFICES ASSUME WikiInv, NEW s \in LiveIn(page)
               PROVE  {r.body : r \in {x \in revision[s] : x.number = LastNumber(s)}}
                        = {page[s].body}
    BY DEF PageShowsLatestRevision
  <2>1. s \in Slugs /\ page[s].row = "live"
    BY DEF LiveIn
  <2>2. PICK n \in Nat : PageFits(page[s], revision[s], n)
    BY <2>1 DEF WikiInv
  <2>3. LastNumber(s) = n
    BY <2>1, <2>2, LastOfNumbers DEF PageFits
  <2> DEFINE q == [number |-> n, body |-> page[s].body]
  <2>4. q \in revision[s] /\ \A r \in revision[s] : r.number = n => r = q
    BY <2>1, <2>2 DEF PageFits
  <2>5. {x \in revision[s] : x.number = LastNumber(s)} = {q}
    BY <2>3, <2>4
  <2>6. {r.body : r \in {q}} = {q.body}
    OBVIOUS
  <2> QED  BY <2>5, <2>6
<1> QED  BY <1>1, WikiInvariant, PTL

-----------------------------------------------------------------------------
(***************************************************************************)
(* Searches: DegradationIsDeclared. Preferences are read once for the plan *)
(* and once for the search and may be saved in between; a search whose     *)
(* policy was strict from the question on has read them as strict both     *)
(* times and has no reason to do without its vectors.                      *)
(***************************************************************************)

SearchShape(x) ==
    x = [pc |-> x.pc, entry |-> x.entry, left |-> x.left, dense |-> x.dense,
         strict |-> x.strict, forbids |-> x.forbids, threshold |-> x.threshold,
         source |-> x.source, hits |-> x.hits, reason |-> x.reason, steady |-> x.steady,
         misread |-> x.misread]

SamePolicy(x, y) ==
    /\ x.entry = y.entry /\ x.strict = y.strict /\ x.forbids = y.forbids
    /\ x.steady = y.steady /\ x.misread = y.misread

\* A search whose policy has been strict since the question, and which has not
\* misread it, follows the preferences, has read them as strict each time, and
\* has no reason to do without its vectors.
StaysStrict(x, prefs) ==
    x.steady => x.entry \in Planned /\ prefs.strict
                /\ (~x.misread => /\ x.entry = "literature" => x.strict
                                  /\ x.pc \notin {"idle", "asked"} => x.forbids
                                  /\ x.reason \notin Reasons)

SeInv ==
    /\ SearchShape(search) /\ search.steady \in BOOLEAN /\ search.misread \in BOOLEAN
    /\ sePrefs \in [strict : BOOLEAN, threshold : BOOLEAN]
    /\ StaysStrict(search, sePrefs)
    /\ search.pc = "asked" => search.reason \notin Reasons
    /\ StrictPolicyHolds

LEMMA EndedSearch ==
    /\ SearchShape(NoSearch) /\ NoSearch.steady = FALSE /\ NoSearch.misread = FALSE
    /\ NoSearch.reason = "none" /\ NoSearch.reason \notin Reasons
    /\ ~NoAnswer.degraded
BY DEF NoSearch, SearchShape, NoAnswer, Reasons

\* The steps beside a search, and those that change other fields of it.
LEMMA OtherSteps ==
    ASSUME SeInv, UNCHANGED <<search, sePrefs>>, UNCHANGED answer \/ ~answer'.degraded
    PROVE  SeInv'
BY DEF SeInv, StrictPolicyHolds

LEMMA AskKeeps ==
    ASSUME SeInv, NEW entry, NEW bases, NEW source, Ask(entry, bases, source)
    PROVE  SeInv'
<1>0. PICK read \in Readings(entry = "literature") :
        search' = [NoSearch EXCEPT !.pc = "asked", !.entry = entry,
                      !.left = bases, !.source = source, !.strict = read.strict,
                      !.misread = entry = "literature" /\ read # sePrefs,
                      !.steady = entry \in Planned /\ sePrefs.strict]
  BY DEF Ask
<1>1. PICK steady \in BOOLEAN : steady = (entry \in Planned /\ sePrefs.strict)
  OBVIOUS
<1>2. PICK misread \in BOOLEAN : misread = (entry = "literature" /\ read # sePrefs)
  OBVIOUS
<1> DEFINE y1 == [NoSearch EXCEPT !.pc = "asked"]
           y2 == [y1 EXCEPT !.entry = entry]
           y3 == [y2 EXCEPT !.left = bases]
           y4 == [y3 EXCEPT !.source = source]
           y5 == [y4 EXCEPT !.strict = read.strict]
           y6 == [y5 EXCEPT !.misread = misread]
           y7 == [y6 EXCEPT !.steady = steady]
<1>a. search' = [NoSearch EXCEPT !.pc = "asked", !.entry = entry, !.left = bases,
                    !.source = source, !.strict = read.strict, !.misread = misread,
                    !.steady = steady]
  BY <1>0, <1>1, <1>2
<1>3. search' = y7
  BY <1>a
<1>4. SearchShape(y1) /\ y1.pc = "asked" /\ y1.reason = "none"
  BY EndedSearch DEF SearchShape
<1> HIDE DEF y1
<1>5. SearchShape(y2) /\ y2.pc = "asked" /\ y2.reason = "none" /\ y2.entry = entry
  BY <1>4 DEF SearchShape
<1> HIDE DEF y2
<1>6. SearchShape(y3) /\ y3.pc = "asked" /\ y3.reason = "none" /\ y3.entry = entry
  BY <1>5 DEF SearchShape
<1> HIDE DEF y3
<1>7. SearchShape(y4) /\ y4.pc = "asked" /\ y4.reason = "none" /\ y4.entry = entry
  BY <1>6 DEF SearchShape
<1> HIDE DEF y4
<1>8. SearchShape(y5) /\ y5.pc = "asked" /\ y5.reason = "none" /\ y5.entry = entry
      /\ y5.strict = read.strict
  BY <1>7 DEF SearchShape
<1> HIDE DEF y5
<1>9. SearchShape(y6) /\ y6.pc = "asked" /\ y6.reason = "none" /\ y6.entry = entry
      /\ y6.strict = read.strict /\ y6.misread = misread
  BY <1>8 DEF SearchShape
<1> HIDE DEF y6
<1>10. SearchShape(y7) /\ y7.pc = "asked" /\ y7.reason = "none" /\ y7.entry = entry
       /\ y7.strict = read.strict /\ y7.misread = misread /\ y7.steady = steady
  BY <1>9 DEF SearchShape
<1> HIDE DEF y7
<1>11. StaysStrict(y7, sePrefs)
  BY <1>1, <1>2, <1>10 DEF StaysStrict, Reasons
<1>12. ~answer'.degraded /\ UNCHANGED sePrefs
  BY EndedSearch DEF Ask
<1> QED  BY <1>3, <1>10, <1>11, <1>12 DEF SeInv, StrictPolicyHolds, Reasons

\* A search that ends leaves no state, and its answer is as the property says.
LEMMA ReturnedKeeps ==
    ASSUME SeInv, NEW mode, NEW evidence, NEW degraded \in BOOLEAN,
           Returned(mode, evidence, degraded), UNCHANGED sePrefs,
           degraded /\ search.dense /\ search.steady => search.misread
    PROVE  SeInv'
<1>1. search' = NoSearch
  BY DEF Returned
<1>2. /\ answer'.degraded = degraded /\ answer'.wanted = search.dense
      /\ answer'.steady = search.steady /\ answer'.misread = search.misread
  BY DEF Returned
<1> QED  BY <1>1, <1>2, EndedSearch DEF SeInv, StaysStrict, StrictPolicyHolds, NoSearch

LEMMA FailsKeeps ==
    ASSUME SeInv, Fails, UNCHANGED sePrefs
    PROVE  SeInv'
<1>1. CASE search.entry = "literature" /\ ~search.strict
  <2>1. search.steady => search.misread
    BY <1>1 DEF SeInv, StaysStrict
  <2> QED  BY <1>1, <2>1, ReturnedKeeps DEF Fails
<1>2. CASE ~(search.entry = "literature" /\ ~search.strict)
  BY <1>2, ReturnedKeeps DEF Fails
<1> QED  BY <1>1, <1>2

LEMMA DegradeKeeps ==
    ASSUME SeInv, search.pc \in {"prepare", "embed"}, NEW reason, Degrade(reason), UNCHANGED sePrefs
    PROVE  SeInv'
<1>1. CASE allows_embedding_fallback
  <2> DEFINE x == [search EXCEPT !.pc = "text", !.reason = reason]
  <2>1. SearchShape(x) /\ x.pc = "text" /\ SamePolicy(x, search)
    <3> DEFINE y1 == [search EXCEPT !.pc = "text"]
    <3>1. /\ SearchShape(y1) /\ SamePolicy(y1, search)
          /\ y1.pc = "text" /\ y1.reason = search.reason
      BY DEF SearchShape, SamePolicy, SeInv
    <3> HIDE DEF y1
    <3> DEFINE y2 == [y1 EXCEPT !.reason = reason]
    <3>2. /\ SearchShape(y2) /\ SamePolicy(y2, search)
          /\ y2.pc = "text" /\ y2.reason = reason
      BY <3>1 DEF SearchShape, SamePolicy
    <3> HIDE DEF y2
    <3>3. x = y2
      BY DEF y1, y2
    <3> HIDE DEF x
    <3> QED  BY <3>2, <3>3
  <2>2. search' = x /\ UNCHANGED answer
    BY <1>1 DEF Degrade
  <2> HIDE DEF x
  <2>3. search.steady => search.misread
    BY <1>1 DEF allows_embedding_fallback, SeInv, StaysStrict
  <2> QED  BY <2>1, <2>2, <2>3 DEF SeInv, StaysStrict, StrictPolicyHolds, SamePolicy
<1>2. CASE ~allows_embedding_fallback
  BY <1>2, FailsKeeps DEF Degrade
<1> QED  BY <1>1, <1>2

\* A step of the search that keeps its entry, its policy and its reason.
LEMMA SearchGoesOn ==
    ASSUME SeInv, UNCHANGED <<sePrefs, answer>>,
           SearchShape(search'), SamePolicy(search', search), search'.reason = search.reason,
           search'.pc # "asked",
           search.pc \notin {"idle", "asked"} \/ search'.pc \in {"idle"}
    PROVE  SeInv'
BY DEF SeInv, StaysStrict, SamePolicy, StrictPolicyHolds

LEMMA PlanKeeps ==
    ASSUME SeInv, PlanText \/ PlanHybrid
    PROVE  SeInv'
<1>1. CASE PlanText
  <2> DEFINE x == [search EXCEPT !.pc = "text", !.reason = "unsupported"]
  <2>1. SearchShape(x) /\ x.pc = "text" /\ SamePolicy(x, search)
    <3> DEFINE y1 == [search EXCEPT !.pc = "text"]
    <3>1. /\ SearchShape(y1) /\ SamePolicy(y1, search)
          /\ y1.pc = "text" /\ y1.reason = search.reason
      BY DEF SearchShape, SamePolicy, SeInv
    <3> HIDE DEF y1
    <3> DEFINE y2 == [y1 EXCEPT !.reason = "unsupported"]
    <3>2. /\ SearchShape(y2) /\ SamePolicy(y2, search)
          /\ y2.pc = "text" /\ y2.reason = "unsupported"
      BY <3>1 DEF SearchShape, SamePolicy
    <3> HIDE DEF y2
    <3>3. x = y2
      BY DEF y1, y2
    <3> HIDE DEF x
    <3> QED  BY <3>2, <3>3
  <2>2. search' = x /\ UNCHANGED <<answer, sePrefs>>
    BY <1>1 DEF PlanText
  <2> HIDE DEF x
  <2>3. ~search.steady
    BY <1>1 DEF PlanText, SeInv, StaysStrict, Planned
  <2> QED  BY <2>1, <2>2, <2>3 DEF SeInv, StaysStrict, StrictPolicyHolds, SamePolicy
<1>2. CASE PlanHybrid
  <2>0. PICK read \in Readings(search.entry \in Planned) :
          search' = [search EXCEPT !.pc = "prepare", !.dense = TRUE,
                        !.threshold = read.threshold, !.forbids = read.strict,
                        !.misread = @ \/ read # sePrefs]
    BY <1>2 DEF PlanHybrid
  <2>1. PICK misread \in BOOLEAN : misread = (search.misread \/ read # sePrefs)
    OBVIOUS
  <2>2. PICK dense : dense = TRUE
    OBVIOUS
  <2> DEFINE y1 == [search EXCEPT !.pc = "prepare"]
             y2 == [y1 EXCEPT !.dense = dense]
             y3 == [y2 EXCEPT !.threshold = read.threshold]
             y4 == [y3 EXCEPT !.forbids = read.strict]
             y5 == [y4 EXCEPT !.misread = misread]
  <2>3. search' = y5
    BY <2>0, <2>1, <2>2
  <2>4. /\ SearchShape(y1) /\ SamePolicy(y1, search)
        /\ y1.pc = "prepare" /\ y1.reason = search.reason
    BY DEF SearchShape, SeInv, SamePolicy
  <2> HIDE DEF y1
  <2>5. /\ SearchShape(y2) /\ SamePolicy(y2, search)
        /\ y2.pc = "prepare" /\ y2.reason = search.reason
    BY <2>4 DEF SearchShape, SamePolicy
  <2> HIDE DEF y2
  <2>6. /\ SearchShape(y3) /\ SamePolicy(y3, search)
        /\ y3.pc = "prepare" /\ y3.reason = search.reason
    BY <2>5 DEF SearchShape, SamePolicy
  <2> HIDE DEF y3
  <2>7. /\ SearchShape(y4) /\ y4.pc = "prepare" /\ y4.forbids = read.strict
        /\ y4.entry = search.entry /\ y4.strict = search.strict
        /\ y4.reason = search.reason /\ y4.steady = search.steady
    BY <2>6 DEF SearchShape, SamePolicy
  <2> HIDE DEF y4
  <2>8. /\ SearchShape(y5) /\ y5.pc = "prepare" /\ y5.forbids = read.strict
        /\ y5.entry = search.entry /\ y5.strict = search.strict
        /\ y5.reason = search.reason /\ y5.steady = search.steady /\ y5.misread = misread
    BY <2>7 DEF SearchShape, SamePolicy
  <2> HIDE DEF y5
  <2>9. StaysStrict(y5, sePrefs)
    BY <2>1, <2>8 DEF SeInv, StaysStrict
  <2>10. UNCHANGED <<answer, sePrefs>>
    BY <1>2 DEF PlanHybrid
  <2> QED  BY <2>1, <2>3, <2>8, <2>9, <2>10 DEF SeInv, StrictPolicyHolds
<1> QED  BY <1>1, <1>2

LEMMA GotoKeeps ==
    ASSUME SeInv, NEW pc, Goto(pc), pc # "asked", search.pc \notin {"idle", "asked"},
           UNCHANGED <<sePrefs, answer>>
    PROVE  SeInv'
<1> DEFINE x == [search EXCEPT !.pc = pc]
<1>1. /\ SearchShape(x) /\ x.pc = pc /\ SamePolicy(x, search) /\ x.reason = search.reason
  BY DEF SeInv, SearchShape, SamePolicy
<1>2. search' = x
  BY DEF Goto
<1> HIDE DEF x
<1> QED  BY <1>1, <1>2, SearchGoesOn

LEMMA HybridBaseKeeps ==
    ASSUME SeInv, NEW b, HybridBase(b)
    PROVE  SeInv'
<1>1. CASE search.source # "none"
  BY <1>1, FailsKeeps DEF HybridBase
<1>2. CASE search.source = "none"
  <2>1. PICK pc : pc = IF search.left = {b} THEN "rerank" ELSE "hybrid"
    OBVIOUS
  <2>2. PICK hits, left : hits = search.hits \cup {[doc |-> d, base |-> b] : d \in hybrid_pool(b, search.threshold)}
                          /\ left = search.left \ {b}
    OBVIOUS
  <2> DEFINE x == [search EXCEPT !.left = left, !.pc = pc, !.hits = hits]
  <2>3. /\ SearchShape(x) /\ x.pc = pc /\ SamePolicy(x, search) /\ x.reason = search.reason
    <3> DEFINE y1 == [search EXCEPT !.left = left]
    <3>1. /\ SearchShape(y1) /\ SamePolicy(y1, search)
          /\ y1.pc = search.pc /\ y1.reason = search.reason
      BY DEF SearchShape, SamePolicy, SeInv
    <3> HIDE DEF y1
    <3> DEFINE y2 == [y1 EXCEPT !.pc = pc]
    <3>2. /\ SearchShape(y2) /\ SamePolicy(y2, search)
          /\ y2.pc = pc /\ y2.reason = search.reason
      BY <3>1 DEF SearchShape, SamePolicy
    <3> HIDE DEF y2
    <3> DEFINE y3 == [y2 EXCEPT !.hits = hits]
    <3>3. /\ SearchShape(y3) /\ SamePolicy(y3, search)
          /\ y3.pc = pc /\ y3.reason = search.reason
      BY <3>2 DEF SearchShape, SamePolicy
    <3> HIDE DEF y3
    <3>4. x = y3
      BY DEF y1, y2, y3
    <3> HIDE DEF x
    <3> QED  BY <3>3, <3>4
  <2>4. search' = x /\ search.pc = "hybrid" /\ UNCHANGED <<sePrefs, answer>>
    BY <1>2, <2>1, <2>2 DEF HybridBase
  <2>5. pc # "asked"
    BY <2>1
  <2> HIDE DEF x
  <2> QED  BY <2>3, <2>4, <2>5, SearchGoesOn
<1> QED  BY <1>1, <1>2

LEMMA TextOnlyKeeps ==
    ASSUME SeInv, TextOnly
    PROVE  SeInv'
<1>1. PICK hits : hits = {[doc |-> d, base |-> seDocs[d].base] : d \in TextHits(search.left)}
  OBVIOUS
<1> DEFINE x == [search EXCEPT !.pc = "persist", !.left = {}, !.hits = hits]
<1>2. /\ SearchShape(x) /\ x.pc = "persist" /\ SamePolicy(x, search) /\ x.reason = search.reason
  <2> DEFINE y1 == [search EXCEPT !.pc = "persist"]
  <2>1. /\ SearchShape(y1) /\ SamePolicy(y1, search)
        /\ y1.pc = "persist" /\ y1.reason = search.reason
    BY DEF SearchShape, SamePolicy, SeInv
  <2> HIDE DEF y1
  <2> DEFINE y2 == [y1 EXCEPT !.left = {}]
  <2>2. /\ SearchShape(y2) /\ SamePolicy(y2, search)
        /\ y2.pc = "persist" /\ y2.reason = search.reason
    BY <2>1 DEF SearchShape, SamePolicy
  <2> HIDE DEF y2
  <2> DEFINE y3 == [y2 EXCEPT !.hits = hits]
  <2>3. /\ SearchShape(y3) /\ SamePolicy(y3, search)
        /\ y3.pc = "persist" /\ y3.reason = search.reason
    BY <2>2 DEF SearchShape, SamePolicy
  <2> HIDE DEF y3
  <2>4. x = y3
    BY DEF y1, y2, y3
  <2> HIDE DEF x
  <2> QED  BY <2>3, <2>4
<1>3. search' = x /\ search.pc = "text" /\ UNCHANGED <<sePrefs, answer>>
  BY <1>1 DEF TextOnly
<1> HIDE DEF x
<1> QED  BY <1>2, <1>3, SearchGoesOn

LEMMA SavePreferencesKeeps ==
    ASSUME SeInv, NEW p \in [strict : BOOLEAN, threshold : BOOLEAN], SavePreferences(p)
    PROVE  SeInv'
<1>1. PICK st \in BOOLEAN : st = (search.steady /\ p.strict)
  OBVIOUS
<1> DEFINE x == [search EXCEPT !.steady = st]
<1>2. /\ SearchShape(x) /\ x.pc = search.pc /\ x.steady = st /\ x.forbids = search.forbids
      /\ x.misread = search.misread
      /\ x.entry = search.entry /\ x.strict = search.strict /\ x.reason = search.reason
  BY DEF SeInv, SearchShape, SamePolicy
<1>3. search' = x /\ sePrefs' = p /\ UNCHANGED answer
  BY <1>1 DEF SavePreferences
<1> HIDE DEF x
<1> QED  BY <1>1, <1>2, <1>3 DEF SeInv, StaysStrict, StrictPolicyHolds

\* A search that goes on under a policy that has been strict since the question
\* has not given up its vectors, whatever documents, profiles and preferences
\* do between its awaits.
THEOREM SearchInvariant == SeSpec => []SeInv
<1>1. SeInit => SeInv
  BY EndedSearch DEF SeInit, SeInv, StaysStrict, StrictPolicyHolds
<1>2. SeInv /\ [SeNext]_seVars => SeInv'
  <2> SUFFICES ASSUME SeInv, [SeNext]_seVars PROVE SeInv'
    OBVIOUS
  <2>1. CASE UNCHANGED seVars
    BY <2>1, OtherSteps DEF seVars
  <2>2. CASE \/ \E d \in SeDocs, b \in SeBases, s \in SeSources, l \in BOOLEAN :
                   PublishDocument(d, b, s, l)
             \/ \E d \in SeDocs, m \in SeModels : StoreEmbeddings(d, m)
             \/ \E d \in SeDocs : EmbedDocument(d) \/ DeleteFound(d)
             \/ \E d \in SeDocs, b \in SeBases : MoveFound(d, b)
             \/ \E b \in SeBases : DropBase(b)
             \/ \E m \in SeModels \cup {"none", "broken"} : ChangeProfile(m)
    <3>1. UNCHANGED <<search, sePrefs, answer>>
      BY <2>2 DEF PublishDocument, StoreEmbeddings, EmbedDocument, WriteVectors, DeleteFound,
            MoveFound, DropBase, ChangeProfile
    <3> QED  BY <3>1, OtherSteps
  <2>3. CASE \/ \E bs \in SUBSET SeBases, s \in SeSources \cup {"none"} :
                   SearchTool(bs, s) \/ ChatSearch(bs, s) \/ HttpSearch(bs, s)
             \/ \E bs \in SUBSET SeBases :
                   SearchLiterature(bs) \/ ReadSection(bs) \/ QueryStandard(bs)
    BY <2>3, AskKeeps DEF SearchTool, ChatSearch, HttpSearch, SearchLiterature, ReadSection,
          QueryStandard
  <2>4. CASE \E b \in SeBases : HybridBase(b)
    BY <2>4, HybridBaseKeeps
  <2>5. CASE \E p \in [strict : BOOLEAN, threshold : BOOLEAN] : SavePreferences(p)
    BY <2>5, SavePreferencesKeeps
  <2>6. CASE PlanText \/ PlanHybrid
    BY <2>6, PlanKeeps
  <2>7. CASE PrepareEmbedding \/ EmbedQuery
    <3>1. search.pc \in {"prepare", "embed"} /\ UNCHANGED sePrefs
      BY <2>7 DEF PrepareEmbedding, EmbedQuery
    <3>2. \/ (Goto("embed") \/ Goto("hybrid")) /\ UNCHANGED answer
          \/ \E reason : Degrade(reason)
      BY <2>7 DEF PrepareEmbedding, EmbedQuery
    <3> QED  BY <3>1, <3>2, GotoKeeps, DegradeKeeps
  <2>8. CASE Rerank \/ TextOnly
    BY <2>8, GotoKeeps, TextOnlyKeeps DEF Rerank
  <2>9. CASE Persist
    <3>1. CASE Returned("pack", search.hits, search.reason \in Reasons)
      <4>1. CASE search.reason \in Reasons
        <5>0. (search.reason \in Reasons) = TRUE
          BY <4>1
        <5>1. Returned("pack", search.hits, TRUE) /\ (search.steady => search.misread)
          BY <3>1, <4>1, <5>0 DEF SeInv, StaysStrict
        <5> QED  BY <2>9, <5>1, ReturnedKeeps DEF Persist
      <4>2. CASE search.reason \notin Reasons
        <5>0. (search.reason \in Reasons) = FALSE
          BY <4>2
        <5>1. Returned("pack", search.hits, FALSE)
          BY <3>1, <5>0 DEF Returned
        <5> QED  BY <2>9, <5>1, ReturnedKeeps DEF Persist
      <4> QED  BY <4>1, <4>2
    <3>2. CASE Fails
      BY <2>9, <3>2, FailsKeeps DEF Persist
    <3> QED  BY <2>9, <3>1, <3>2 DEF Persist
  <2>10. CASE \E b \in SeBases : SearchText(b) \/ SearchVectors(b) \/ SearchHybrid(b)
    <3>1. PICK mode, b, hits : Answered(mode, b, hits)
      BY <2>10 DEF SearchText, SearchVectors, SearchHybrid
    <3>2. UNCHANGED <<search, sePrefs>> /\ ~answer'.degraded
      BY <3>1 DEF Answered, NoAnswer
    <3> QED  BY <3>2, OtherSteps
  <2> QED  BY <2>1, <2>2, <2>3, <2>4, <2>5, <2>6, <2>7, <2>8, <2>9, <2>10 DEF SeNext
<1> QED  BY <1>1, <1>2, PTL DEF SeSpec

\* A search that wanted its vectors and answers without them has misread the
\* preferences where the stored policy was strict from the question to the
\* answer, for any bases, documents, models and changes between its awaits
\* (degradation_policy of app/knowledge_commands and knowledge_retrieval_settings
\* of app/steel_agent_gateway).
THEOREM StrictPolicyIsHonoured == SeSpec => []StrictPolicyHolds
<1>1. SeInv => StrictPolicyHolds
  BY DEF SeInv
<1> QED  BY <1>1, SearchInvariant, PTL

-----------------------------------------------------------------------------
(***************************************************************************)
(* Domain packages, backup and restore: ActiveDomainHasFiles and           *)
(* RestoreIsWhole. The restore is followed through its journal: what each  *)
(* directory, the database and the write-ahead log hold is a function of   *)
(* the moves that are done, and rolling them back in order leads to what   *)
(* was there before.  A place a worker has written to is given up; the     *)
(* others neither notice nor depend on it.                                 *)
(***************************************************************************)

Dirs == {"objects", "indexes"}
Packages == Contents \cup {"none"}
RowTable == [PkgVersions -> [sha : Packages, active : BOOLEAN]]
Data == [rows : RowTable, docs : SUBSET BrDocs, content : [Dirs -> SUBSET BrDocs]]

Restoring == {"move", "rollback", "ok", "failed"}
CommandPlaces ==
    {"none", "look", "stage", "verify", "record", "activate", "undo_row", "undo_files",
     "unrecord", "erase", "snapshot", "write"} \cup Restoring

CommandType ==
    [op : {"none", "boot", "steel", "install", "remove", "backup", "restore"},
     version : PkgVersions, content : Packages, at : CommandPlaces]

BrTypes ==
    /\ files \in [PkgVersions -> Packages]
    /\ rows \in RowTable
    /\ command \in CommandType
    /\ docs \in SUBSET BrDocs
    /\ content \in [Dirs -> SUBSET BrDocs]
    /\ importing \in [doc : BrDocs \cup {"none"}, at : {"none", "row", "index"}]
    /\ archive \in [state : {"none", "whole", "broken"}, data : Data]
    /\ before \in [data : Data, wal : BOOLEAN]
    /\ wal \in BOOLEAN
    /\ dropped \in BOOLEAN
    /\ misled \in SUBSET PkgVersions

\* Rows of domain_packages as the commands leave them: an active version is
\* recorded, and it is the only one.
RowsSound(table) ==
    \A v, w \in PkgVersions :
        table[v].active => table[v].sha # "none" /\ (table[w].active => v = w)

\* The active version of such rows has a directory, unless the rollback of its
\* activation deleted it.
RowsHaveFiles(table) ==
    \A v \in PkgVersions : table[v].active => files[v] # "none" \/ v \in misled

\* The version a command works on is not active while its directory or its row
\* goes, unless its activation was reported as failed, and it has both when it
\* is about to be activated.
CommandFits ==
    LET v == command.version IN
    /\ command.at \in {"record", "activate", "undo_row", "undo_files"}
         => (rows[v].active => v \in misled)
    /\ command.at \in {"unrecord", "erase"} => ~rows[v].active
    /\ command.at = "record" => command.content # "none" /\ files[v] # "none"
    /\ command.at = "activate" => rows[v].sha # "none" /\ files[v] # "none"

PackagesInv ==
    /\ RowsSound(rows) /\ RowsHaveFiles(rows)
    /\ RowsSound(archive.data.rows)
    /\ CommandFits
    /\ command.at \in {"move", "rollback"} =>
         /\ RowsSound(before.data.rows) /\ RowsHaveFiles(before.data.rows)
         /\ RowsHaveFiles(archive.data.rows)

\* A restored place was moved aside before, the log before the database.
JournalFits ==
    /\ \A p \in Dirs \cup {"database"} :
         Move("install", p) \in journal => Move("aside", p) \in journal
    /\ Move("install", "database") \in journal => Move("aside", "wal") \in journal
    /\ journal \subseteq Range(Moves)

\* What is in a place: what the archive has once it is installed, nothing while
\* it is moved aside, what was live otherwise.
Held(p, restored, none, old) ==
    IF Move("install", p) \in journal THEN restored
    ELSE IF Move("aside", p) \in journal THEN none
    ELSE old

Fits(p) ==
    CASE p = "database" ->
           /\ database = Held(p, "restored", "absent", "current")
           /\ rows = Held(p, archive.data.rows, NoData.rows, before.data.rows)
           /\ docs = Held(p, archive.data.docs, NoData.docs, before.data.docs)
      [] p = "wal" -> wal = Held(p, FALSE, FALSE, before.wal)
      [] OTHER -> content[p] = Held(p, archive.data.content[p], {}, before.data.content[p])

Places == Dirs \cup {"database", "wal"}

PlacesFit == \A p \in Places \ touched : Fits(p)

RestoreInv ==
    /\ command.at \in Restoring =>
         /\ command.op = "restore"
         /\ JournalFits
         /\ ~dropped => PlacesFit
    /\ command.at \notin Restoring => database = "current"
    /\ command.at \in {"move", "ok"} => ~dropped
    /\ command.at = "ok" => journal = Range(Moves)
    /\ command.at = "failed" => journal \in {{}, Range(Moves)}
    /\ importing.at # "none" => importing.doc \in BrDocs

BrInv == BrTypes /\ PackagesInv /\ RestoreInv

-----------------------------------------------------------------------------
(* Rows *)

\* The end of activate: the digests stay, one version is active.
LEMMA ActivatedRows ==
    ASSUME rows \in RowTable, NEW v \in PkgVersions, activate(v)
    PROVE  /\ rows' \in RowTable
           /\ \A w \in PkgVersions :
                rows'[w].sha = rows[w].sha /\ (rows'[w].active <=> w = v)
<1>1. ASSUME NEW w \in PkgVersions
      PROVE  /\ rows'[w] \in [sha : Packages, active : BOOLEAN]
             /\ rows'[w].sha = rows[w].sha /\ (rows'[w].active <=> w = v)
  <2> DEFINE b == (w = v)
  <2>1. rows'[w] = [rows[w] EXCEPT !.active = b]
    BY DEF activate
  <2>2. b \in BOOLEAN /\ (b <=> w = v)
    OBVIOUS
  <2>3. rows[w] \in [sha : Packages, active : BOOLEAN]
    BY DEF RowTable
  <2> HIDE DEF b
  <2>4. /\ rows'[w] \in [sha : Packages, active : BOOLEAN]
        /\ rows'[w].sha = rows[w].sha /\ rows'[w].active = b
    BY <2>1, <2>2, <2>3
  <2> QED  BY <2>2, <2>4
<1>2. rows' = [w \in PkgVersions |-> rows'[w]]
  BY DEF activate
<1> QED  BY <1>1, <1>2 DEF RowTable

\* upsert and the insertion after a failed removal: only the digest changes.
LEMMA RecordedRows ==
    ASSUME rows \in RowTable, NEW v \in PkgVersions, NEW c \in Packages,
           rows' = [rows EXCEPT ![v].sha = c]
    PROVE  /\ rows' \in RowTable
           /\ rows'[v].sha = c /\ rows'[v].active = rows[v].active
           /\ \A w \in PkgVersions : w # v => rows'[w] = rows[w]
<1> DEFINE r == [rows[v] EXCEPT !.sha = c]
<1>1. rows[v] \in [sha : Packages, active : BOOLEAN]
  BY DEF RowTable
<1>2. r \in [sha : Packages, active : BOOLEAN] /\ r.sha = c /\ r.active = rows[v].active
  BY <1>1
<1>3. rows' = [rows EXCEPT ![v] = r]
  OBVIOUS
<1> HIDE DEF r
<1> QED  BY <1>2, <1>3 DEF RowTable

\* The row is deleted.
LEMMA DeletedRows ==
    ASSUME rows \in RowTable, NEW v \in PkgVersions, rows' = [rows EXCEPT ![v] = NoRow]
    PROVE  /\ rows' \in RowTable
           /\ ~rows'[v].active
           /\ \A w \in PkgVersions : w # v => rows'[w] = rows[w]
<1>1. NoRow \in [sha : Packages, active : BOOLEAN] /\ ~NoRow.active
  BY DEF NoRow, Packages
<1> HIDE DEF NoRow
<1> QED  BY <1>1 DEF RowTable

\* A table that only lost active versions, or changed rows that are not active
\* or lost their directory before.
LEMMA RowsStayGood ==
    ASSUME NEW v \in PkgVersions, RowsSound(rows), RowsHaveFiles(rows), misled' = misled,
           rows'[v].active => rows[v].active /\ rows'[v].sha # "none" /\ v \in misled,
           \A w \in PkgVersions : w # v => rows'[w] = rows[w] /\ files'[w] = files[w]
    PROVE  RowsSound(rows)' /\ RowsHaveFiles(rows)'
<1>1. \A w \in PkgVersions : rows'[w].active => rows[w].active /\ rows'[w].sha # "none"
  BY DEF RowsSound
<1>2. RowsHaveFiles(rows)'
  BY DEF RowsHaveFiles
<1>3. RowsSound(rows)'
  BY <1>1 DEF RowsSound
<1> QED  BY <1>2, <1>3

LEMMA RowsActivated ==
    ASSUME rows \in RowTable, NEW v \in PkgVersions, activate(v), files' = files,
           rows[v].sha # "none", files[v] # "none"
    PROVE  RowsSound(rows)' /\ RowsHaveFiles(rows)'
BY ActivatedRows DEF RowsSound, RowsHaveFiles

-----------------------------------------------------------------------------
(* The commands of domain packages *)

\* What a step of such a command has to leave.
CommandResult ==
    /\ files' \in [PkgVersions -> Packages] /\ rows' \in RowTable
    /\ command' \in CommandType /\ misled' \in SUBSET PkgVersions
    /\ RowsSound(rows)' /\ RowsHaveFiles(rows)' /\ CommandFits'
    /\ command.at \notin Restoring /\ command'.at \notin Restoring

\* A step that ends the command, or takes it to a place without a condition.
LEMMA QuietCommand ==
    ASSUME BrInv, UNCHANGED <<files, rows, misled>>, command' \in CommandType,
           command.at \notin Restoring,
           command'.at \in {"none", "look", "stage", "verify", "snapshot", "write"}
    PROVE  CommandResult
<1>1. RowsSound(rows)' /\ RowsHaveFiles(rows)'
  BY DEF BrInv, PackagesInv, RowsSound, RowsHaveFiles
<1>2. CommandFits'
  BY DEF CommandFits
<1>3. command'.at \notin Restoring
  BY DEF Restoring
<1> QED  BY <1>1, <1>2, <1>3 DEF CommandResult, BrInv, BrTypes

LEMMA CommandShapes ==
    /\ Idle \in CommandType /\ Idle.at = "none"
    /\ Booting \in CommandType /\ Booting.at = "none"
<1>1. Bundled \in PkgVersions
  BY BundledAssumption
<1> QED  BY <1>1 DEF CommandType, CommandPlaces, Restoring, Idle, Booting, Packages

LEMMA CommandMoves ==
    ASSUME BrInv, NEW at \in CommandPlaces, command' = [command EXCEPT !.at = at]
    PROVE  /\ command' \in CommandType /\ command'.at = at
           /\ command'.version = command.version /\ command'.content = command.content
           /\ command'.op = command.op
BY DEF BrInv, BrTypes, CommandType

\* The row of the version the command is about, and its directory.
LEMMA CommandVersion ==
    ASSUME BrInv
    PROVE  /\ command.version \in PkgVersions /\ command.content \in Packages
           /\ rows[command.version] \in [sha : Packages, active : BOOLEAN]
           /\ files[command.version] \in Packages
BY DEF BrInv, BrTypes, CommandType, RowTable

LEMMA SteelSteps ==
    ASSUME BrInv, BootReady \/ InstallSteel \/ SteelRecorded \/ SteelUnrecorded
    PROVE  CommandResult
<1> USE CommandShapes
<1>1. CASE BootReady
  BY <1>1, QuietCommand DEF BootReady, Ended, Restoring
<1>2. CASE InstallSteel
  <2> DEFINE o == IF command = Booting THEN "boot" ELSE "steel"
  <2>1. command.at = "none" /\ command' = [op |-> o, version |-> Bundled,
            content |-> "bundled", at |-> "look"] /\ UNCHANGED <<files, rows, misled>>
    BY <1>2 DEF InstallSteel
  <2>2. o \in {"boot", "steel"}  OBVIOUS
  <2> HIDE DEF o
  <2>3. command' \in CommandType /\ command'.at = "look"
    BY <2>1, <2>2, BundledAssumption DEF CommandType, CommandPlaces, Packages, Contents
  <2> QED  BY <2>1, <2>3, QuietCommand DEF Restoring
<1>3. CASE SteelRecorded
  <2>1. command.at = "look" /\ command' = Idle /\ UNCHANGED <<files, misled>>
    BY <1>3 DEF SteelRecorded, Ended
  <2>2. CASE rows' = rows
    BY <2>1, <2>2, QuietCommand DEF Restoring
  <2>3. CASE activate(Bundled) /\ compute_package_digest(files[Bundled]) = "bundled"
             /\ rows[Bundled].sha = "bundled"
    <3>1. Bundled \in PkgVersions /\ rows \in RowTable /\ files[Bundled] # "none"
          /\ rows[Bundled].sha # "none"
      BY <2>3, BundledAssumption DEF BrInv, BrTypes, compute_package_digest
    <3>2. RowsSound(rows)' /\ RowsHaveFiles(rows)' /\ rows' \in RowTable
      BY <3>1, <2>1, <2>3, RowsActivated, ActivatedRows
    <3>3. CommandFits'
      BY <2>1 DEF CommandFits
    <3> QED  BY <2>1, <3>2, <3>3 DEF CommandResult, Restoring, BrInv, BrTypes
  <2> QED  BY <1>3, <2>2, <2>3 DEF SteelRecorded
<1>4. CASE SteelUnrecorded
  <2>1. command.at = "look" /\ command' = [command EXCEPT !.at = "stage"]
        /\ UNCHANGED <<files, rows, misled>>
    BY <1>4 DEF SteelUnrecorded
  <2>2. command' \in CommandType /\ command'.at = "stage"
    BY <2>1, CommandMoves DEF CommandPlaces
  <2> QED  BY <2>1, <2>2, QuietCommand DEF Restoring
<1> QED  BY <1>1, <1>2, <1>3, <1>4

LEMMA CopySteps ==
    ASSUME BrInv, copy_tree_bounded \/ extract_archive
    PROVE  CommandResult
<1>1. command.at = "stage" /\ UNCHANGED <<files, rows, misled>>
      /\ (command' = [command EXCEPT !.at = "verify"] \/ command' = Idle)
  BY DEF copy_tree_bounded, extract_archive, Copied, Ended
<1>2. command' \in CommandType /\ command'.at \in {"verify", "none"}
  BY <1>1, CommandMoves, CommandShapes DEF CommandPlaces
<1> QED  BY <1>1, <1>2, QuietCommand DEF Restoring

LEMMA StagingStep ==
    ASSUME BrInv, install_into_staging
    PROVE  CommandResult
<1> DEFINE v == command.version
<1>0. command.at = "verify" /\ UNCHANGED <<rows, misled>>
  BY DEF install_into_staging
<1>1. CASE command' = Idle /\ files' = files
  BY <1>0, <1>1, QuietCommand, CommandShapes DEF Restoring
<1>2. CASE /\ Accepted(v, command.content)
           /\ files' = [files EXCEPT ![v] = command.content]
           /\ command' = [command EXCEPT !.at = "record"]
  <2>1. command' \in CommandType /\ command'.at = "record" /\ command'.version = v
        /\ command'.content = command.content
    BY <1>2, CommandMoves DEF CommandPlaces
  <2>2. files[v] = "none" /\ command.content # "none"
    BY <1>2 DEF Accepted, load_package
  <2>3. v \in PkgVersions /\ command.content \in Packages
    BY CommandVersion
  <2>4. rows[v].active => v \in misled /\ rows[v].sha # "none"
    BY <2>2, <2>3 DEF BrInv, PackagesInv, RowsHaveFiles, RowsSound
  <2> HIDE DEF v
  <2>5. files' \in [PkgVersions -> Packages] /\ files'[v] = command.content
        /\ \A w \in PkgVersions : w # v => files'[w] = files[w]
    BY <2>3, <1>2 DEF BrInv, BrTypes
  <2>6. RowsSound(rows)' /\ RowsHaveFiles(rows)'
    BY <1>0, <2>3, <2>4, <2>5, RowsStayGood DEF BrInv, PackagesInv
  <2>7. CommandFits'
    BY <1>0, <2>1, <2>2, <2>4, <2>5 DEF CommandFits
  <2> QED  BY <1>0, <2>1, <2>5, <2>6, <2>7 DEF CommandResult, Restoring, BrInv, BrTypes
<1> QED  BY <1>1, <1>2 DEF install_into_staging, Ended

LEMMA RecordStep ==
    ASSUME BrInv, upsert
    PROVE  CommandResult
<1> DEFINE v == command.version
<1>0. command.at = "record" /\ UNCHANGED <<files, misled>>
  BY DEF upsert
<1>1. (rows[v].active => v \in misled) /\ command.content # "none" /\ files[v] # "none"
  BY <1>0 DEF BrInv, PackagesInv, CommandFits
<1>2. v \in PkgVersions /\ command.content \in Packages /\ rows \in RowTable
  BY CommandVersion DEF BrInv, BrTypes
<1>3. CASE /\ ~Recorded(v)
           /\ rows' = [rows EXCEPT ![v].sha = command.content]
           /\ \/ command' = Idle
              \/ \E at \in {"activate", "undo_files"} : command' = [command EXCEPT !.at = at]
  <2>0. ~rows[v].active
    BY <1>2, <1>3 DEF Recorded, BrInv, PackagesInv, RowsSound
  <2>1. rows' \in RowTable /\ rows'[v].sha = command.content
        /\ rows'[v].active = rows[v].active
        /\ \A w \in PkgVersions : w # v => rows'[w] = rows[w]
    BY <1>2, <1>3, RecordedRows
  <2>2. RowsSound(rows)' /\ RowsHaveFiles(rows)'
    BY <1>0, <1>1, <1>2, <2>0, <2>1, RowsStayGood DEF BrInv, PackagesInv
  <2>3. /\ command' \in CommandType /\ command'.at \in {"none", "activate", "undo_files"}
        /\ command'.at # "none" => command'.version = v
    BY <1>3, CommandMoves, CommandShapes DEF CommandPlaces
  <2> HIDE DEF v
  <2>4. CommandFits'
    BY <1>0, <1>1, <2>0, <2>1, <2>3 DEF CommandFits
  <2> QED  BY <1>0, <2>1, <2>2, <2>3, <2>4 DEF CommandResult, Restoring, BrInv, BrTypes
<1>4. CASE rows' = rows /\ command' = [command EXCEPT !.at = "undo_files"]
  <2>1. command' \in CommandType /\ command'.at = "undo_files" /\ command'.version = v
    BY <1>4, CommandMoves DEF CommandPlaces
  <2>2. RowsSound(rows)' /\ RowsHaveFiles(rows)'
    BY <1>0, <1>4 DEF BrInv, PackagesInv, RowsSound, RowsHaveFiles
  <2> HIDE DEF v
  <2>3. CommandFits'
    BY <1>0, <1>1, <1>4, <2>1 DEF CommandFits
  <2> QED  BY <1>0, <1>4, <2>1, <2>2, <2>3 DEF CommandResult, Restoring, BrInv, BrTypes
<1> QED  BY <1>3, <1>4 DEF upsert, Ended

LEMMA SteelActivateStep ==
    ASSUME BrInv, SteelActivate
    PROVE  CommandResult
<1> DEFINE v == command.version
<1>0. command.at = "activate" /\ files' = files
  BY DEF SteelActivate
<1>1. rows[v].sha # "none" /\ files[v] # "none" /\ (rows[v].active => v \in misled)
  BY <1>0 DEF BrInv, PackagesInv, CommandFits
<1>2. v \in PkgVersions /\ rows \in RowTable /\ misled \in SUBSET PkgVersions
  BY CommandVersion DEF BrInv, BrTypes
<1>3. CASE activate(v) /\ command' = Idle /\ misled' = misled
  <2>1. rows' \in RowTable /\ RowsSound(rows)' /\ RowsHaveFiles(rows)'
    BY <1>0, <1>1, <1>2, <1>3, RowsActivated, ActivatedRows
  <2>2. CommandFits'
    BY <1>3, CommandShapes DEF CommandFits
  <2> QED  BY <1>0, <1>2, <1>3, <2>1, <2>2, CommandShapes DEF CommandResult, Restoring, BrInv, BrTypes
<1>4. CASE /\ command' = [command EXCEPT !.at = "undo_row"]
           /\ \/ UNCHANGED <<rows, misled>>
              \/ activate(v) /\ misled' = misled \cup {v}
  <2>1. command' \in CommandType /\ command'.at = "undo_row" /\ command'.version = v
    BY <1>4, CommandMoves DEF CommandPlaces
  <2>2. rows' \in RowTable /\ RowsSound(rows)' /\ RowsHaveFiles(rows)'
    <3>1. CASE UNCHANGED <<rows, misled>>
      BY <1>0, <1>2, <3>1 DEF BrInv, PackagesInv, RowsSound, RowsHaveFiles
    <3>2. CASE activate(v)
      BY <1>0, <1>1, <1>2, <3>2, RowsActivated, ActivatedRows
    <3> QED  BY <1>4, <3>1, <3>2
  <2>3. misled' \in SUBSET PkgVersions /\ (rows'[v].active => v \in misled')
    BY <1>1, <1>2, <1>4
  <2> HIDE DEF v
  <2>4. CommandFits'
    BY <2>1, <2>3 DEF CommandFits
  <2> QED  BY <1>0, <2>1, <2>2, <2>3, <2>4 DEF CommandResult, Restoring, BrInv, BrTypes
<1> QED  BY <1>3, <1>4 DEF SteelActivate, Ended

LEMMA UndoSteps ==
    ASSUME BrInv, UndoRow \/ UndoFiles
    PROVE  CommandResult
<1> DEFINE v == command.version
<1>0. command.at \in {"undo_row", "undo_files"} /\ misled' = misled
  BY DEF UndoRow, UndoFiles
<1>1. v \in PkgVersions /\ rows \in RowTable /\ files \in [PkgVersions -> Packages]
      /\ misled \in SUBSET PkgVersions
  BY <1>0, CommandVersion DEF BrInv, BrTypes
<1>a. rows[v].active => v \in misled /\ rows[v].sha # "none"
  BY <1>0, <1>1 DEF BrInv, PackagesInv, CommandFits, RowsSound
<1>2. CASE UndoRow
  <2>1. command' \in CommandType /\ command'.at = "undo_files" /\ command'.version = v
    BY <1>2, CommandMoves DEF CommandPlaces, UndoRow
  <2>2. files' = files /\ (rows' = rows \/ rows' = [rows EXCEPT ![v] = NoRow])
    BY <1>2 DEF UndoRow
  <2>3. /\ rows' \in RowTable /\ (rows'[v] = rows[v] \/ ~rows'[v].active)
        /\ \A w \in PkgVersions : w # v => rows'[w] = rows[w]
    BY <1>1, <2>2, DeletedRows
  <2>4. RowsSound(rows)' /\ RowsHaveFiles(rows)'
    BY <1>0, <1>1, <1>a, <2>2, <2>3, RowsStayGood DEF BrInv, PackagesInv
  <2> HIDE DEF v
  <2>5. CommandFits'
    BY <1>0, <1>a, <2>1, <2>3 DEF CommandFits
  <2> QED  BY <1>0, <1>1, <2>1, <2>2, <2>3, <2>4, <2>5 DEF CommandResult, Restoring
<1>3. CASE UndoFiles
  <2>1. command' = Idle /\ rows' = rows
    BY <1>3 DEF UndoFiles, Ended
  <2>2. files' \in [PkgVersions -> Packages] /\ \A w \in PkgVersions : w # v => files'[w] = files[w]
    BY <1>1, <1>3 DEF UndoFiles, Packages, Contents
  <2>3. RowsSound(rows)' /\ RowsHaveFiles(rows)'
    BY <1>0, <1>1, <1>a, <2>1, <2>2, RowsStayGood DEF BrInv, PackagesInv
  <2>4. CommandFits'
    BY <2>1, CommandShapes DEF CommandFits
  <2> QED  BY <1>0, <1>1, <2>1, <2>2, <2>3, <2>4, CommandShapes DEF CommandResult, Restoring
<1> QED  BY <1>2, <1>3

LEMMA UserSteps ==
    ASSUME BrInv, NEW v \in PkgVersions,
           \/ \E c \in Contents : InstallPackage(v, c)
           \/ ActivatePackage(v) \/ RemovePackage(v)
    PROVE  CommandResult
<1>0. command = Idle /\ command.at = "none" /\ rows \in RowTable /\ misled' = misled
      /\ files \in [PkgVersions -> Packages] /\ misled \in SUBSET PkgVersions
  BY CommandShapes DEF InstallPackage, ActivatePackage, RemovePackage, BrInv, BrTypes
<1>1. ASSUME NEW c \in Contents, InstallPackage(v, c)
      PROVE  CommandResult
  <2>1. command' \in CommandType /\ command'.at = "stage" /\ UNCHANGED <<files, rows>>
    BY <1>1 DEF InstallPackage, CommandType, CommandPlaces, Packages
  <2> QED  BY <1>0, <2>1, QuietCommand DEF Restoring
<1>2. CASE ActivatePackage(v)
  <2>1. activate(v) /\ files' = files /\ command' = command
        /\ rows[v].sha # "none" /\ files[v] # "none"
    BY <1>2 DEF ActivatePackage, Recorded, load_package
  <2>2. rows' \in RowTable /\ RowsSound(rows)' /\ RowsHaveFiles(rows)'
    BY <1>0, <2>1, RowsActivated, ActivatedRows
  <2>3. CommandFits'
    BY <1>0, <2>1 DEF CommandFits
  <2> QED  BY <1>0, <2>1, <2>2, <2>3, CommandShapes DEF CommandResult, Restoring
<1>3. CASE RemovePackage(v)
  <2>1. /\ ~rows[v].active /\ files[v] # "none" /\ rows' = rows
        /\ command' = [op |-> "remove", version |-> v, content |-> files[v], at |-> "unrecord"]
        /\ files' = [files EXCEPT ![v] = "none"]
    BY <1>3 DEF RemovePackage
  <2>2. /\ files' \in [PkgVersions -> Packages]
        /\ \A w \in PkgVersions : w # v => files'[w] = files[w]
    BY <1>0, <2>1 DEF Packages
  <2>3. RowsSound(rows)' /\ RowsHaveFiles(rows)'
    BY <1>0, <2>1, <2>2, RowsStayGood DEF BrInv, PackagesInv
  <2>4. command' \in CommandType /\ command'.at = "unrecord" /\ command'.version = v
    BY <1>0, <2>1 DEF CommandType, CommandPlaces
  <2>5. CommandFits'
    BY <2>1, <2>4 DEF CommandFits
  <2> QED  BY <1>0, <2>1, <2>2, <2>3, <2>4, <2>5 DEF CommandResult, Restoring
<1> QED  BY <1>1, <1>2, <1>3

LEMMA RemoveSteps ==
    ASSUME BrInv, remove \/ EraseStaged
    PROVE  CommandResult
<1> DEFINE v == command.version
<1>0. command.at \in {"unrecord", "erase"} /\ misled' = misled
  BY DEF remove, EraseStaged
<1>1. /\ v \in PkgVersions /\ rows \in RowTable /\ files \in [PkgVersions -> Packages]
      /\ ~rows[v].active /\ command.content \in Packages /\ misled \in SUBSET PkgVersions
      /\ rows[v] \in [sha : Packages, active : BOOLEAN]
  BY <1>0, CommandVersion DEF BrInv, BrTypes, PackagesInv, CommandFits
<1>2. ASSUME rows' \in RowTable, files' \in [PkgVersions -> Packages], ~rows'[v].active,
             \A w \in PkgVersions : w # v => rows'[w] = rows[w] /\ files'[w] = files[w],
             command' \in CommandType, command'.at \in {"none", "erase"},
             command'.at = "erase" => command'.version = v
      PROVE  CommandResult
  <2>1. RowsSound(rows)' /\ RowsHaveFiles(rows)'
    BY <1>0, <1>1, <1>2, RowsStayGood DEF BrInv, PackagesInv
  <2> HIDE DEF v
  <2>2. CommandFits'
    BY <1>2 DEF CommandFits
  <2> QED  BY <1>0, <1>1, <1>2, <2>1, <2>2 DEF CommandResult, Restoring
<1>3. CASE remove
  <2>1. CASE rows' = [rows EXCEPT ![v] = NoRow] /\ files' = files
             /\ command' = [command EXCEPT !.at = "erase", !.content = rows[v].sha]
    <3>1. command' \in CommandType /\ command'.at = "erase" /\ command'.version = v
      BY <1>1, <2>1 DEF BrInv, BrTypes, CommandType, CommandPlaces
    <3> QED  BY <1>1, <1>2, <2>1, <3>1, DeletedRows
  <2>2. CASE rows' = rows /\ files' = [files EXCEPT ![v] = command.content] /\ command' = Idle
    BY <1>1, <1>2, <2>2, CommandShapes
  <2>3. CASE rows' = rows /\ files' = files /\ command' = Idle
    BY <1>1, <1>2, <2>3, CommandShapes
  <2> QED  BY <1>3, <2>1, <2>2, <2>3 DEF remove
<1>4. CASE EraseStaged
  <2>1. \/ rows' = rows
        \/ rows' = [rows EXCEPT ![v].sha = command.content]
    BY <1>4 DEF EraseStaged
  <2>2. \/ files' = files
        \/ files' = [files EXCEPT ![v] = "partial"]
    BY <1>4 DEF EraseStaged
  <2>3. command' = Idle
    BY <1>4 DEF EraseStaged
  <2>4. rows' \in RowTable /\ ~rows'[v].active /\ \A w \in PkgVersions : w # v => rows'[w] = rows[w]
    BY <1>1, <2>1, RecordedRows
  <2>5. files' \in [PkgVersions -> Packages] /\ \A w \in PkgVersions : w # v => files'[w] = files[w]
    BY <1>1, <2>2 DEF Packages, Contents
  <2> QED  BY <1>2, <2>3, <2>4, <2>5, CommandShapes
<1> QED  BY <1>3, <1>4

\* A step outside a restore that leaves the restored places alone.
LEMMA AroundKeeps ==
    ASSUME BrInv, CommandResult,
           docs' \in SUBSET BrDocs, content' \in [Dirs -> SUBSET BrDocs],
           importing' \in [doc : BrDocs \cup {"none"}, at : {"none", "row", "index"}],
           importing'.at # "none" => importing'.doc \in BrDocs,
           archive' \in [state : {"none", "whole", "broken"}, data : Data],
           RowsSound(archive.data.rows)',
           UNCHANGED <<database, wal, restoreVars>>
    PROVE  BrInv'
<1>1. BrTypes'
  BY DEF BrInv, BrTypes, CommandResult, restoreVars
<1>2. PackagesInv'
  BY DEF BrInv, PackagesInv, CommandResult, Restoring
<1>3. RestoreInv'
  BY DEF BrInv, RestoreInv, CommandResult, Restoring
<1> QED  BY <1>1, <1>2, <1>3 DEF BrInv

LEMMA CommandStepKeeps ==
    ASSUME BrInv, CommandStep,
           UNCHANGED <<docs, content, database, wal, importing, archive, restoreVars>>
    PROVE  BrInv'
<1>1. \A source \in PkgSources : source[1] \in PkgVersions /\ source[2] \in Contents
  BY BundledAssumption
<1>2. CommandResult
  BY <1>1, SteelSteps, CopySteps, StagingStep, RecordStep, SteelActivateStep, UndoSteps,
     UserSteps, RemoveSteps DEF CommandStep
<1>3. RowsSound(archive.data.rows)'
  BY DEF BrInv, PackagesInv, RowsSound
<1> QED  BY <1>2, <1>3, AroundKeeps DEF BrInv, BrTypes, RestoreInv

-----------------------------------------------------------------------------
(* Documents and backups *)

LEMMA SameCommand ==
    ASSUME BrInv, UNCHANGED <<files, rows, misled, command>>, command.at \notin Restoring
    PROVE  CommandResult
BY DEF BrInv, BrTypes, PackagesInv, CommandResult, CommandFits, RowsSound, RowsHaveFiles

LEMMA SameArchive ==
    ASSUME BrInv, archive' = archive
    PROVE  /\ RowsSound(archive.data.rows)'
           /\ archive' \in [state : {"none", "whole", "broken"}, data : Data]
BY DEF BrInv, BrTypes, PackagesInv, RowsSound

\* What a place holds, what the rollback keeps for it and the moves made with
\* it are left alone.
PlaceSame(q) ==
    CASE q = "database" -> UNCHANGED <<database, rows, docs>>
      [] q = "wal" -> UNCHANGED wal
      [] OTHER -> content'[q] = content[q]

BeforeSame(q) ==
    CASE q = "database" -> before'.data.rows = before.data.rows
                           /\ before'.data.docs = before.data.docs
      [] q = "wal" -> before'.wal = before.wal
      [] OTHER -> before'.data.content[q] = before.data.content[q]

JournalSame(q) ==
    \A k \in {"aside", "install"} : Move(k, q) \in journal' <=> Move(k, q) \in journal

LEMMA OtherPlace ==
    ASSUME NEW q \in Places, Fits(q), PlaceSame(q), BeforeSame(q), JournalSame(q),
           archive' = archive
    PROVE  Fits(q)'
<1>1. CASE q = "database"
  BY <1>1 DEF Fits, PlaceSame, BeforeSame, JournalSame, Held, NoData, Unrecorded
<1>2. CASE q = "wal"
  BY <1>2 DEF Fits, PlaceSame, BeforeSame, JournalSame, Held
<1>3. CASE q \in Dirs
  <2>1. q # "database" /\ q # "wal"
    BY <1>3 DEF Dirs
  <2> QED  BY <2>1 DEF Fits, PlaceSame, BeforeSame, JournalSame, Held
<1> QED  BY <1>1, <1>2, <1>3 DEF Places

\* A worker outside a restore disturbs nothing; inside one it gives up the
\* places it writes to.
LEMMA DocumentSteps ==
    ASSUME BrInv, (\E doc \in BrDocs : StoreObject(doc)) \/ StoreRow \/ StoreIndex
    PROVE  BrInv'
<1> DEFINE Importings == [doc : BrDocs \cup {"none"}, at : {"none", "row", "index"}]
           Written == IF \E doc \in BrDocs : StoreObject(doc) THEN {"objects"}
                      ELSE IF StoreRow THEN {"database", "wal"} ELSE {"indexes"}
           Typed == /\ docs' \in SUBSET BrDocs /\ content' \in [Dirs -> SUBSET BrDocs]
                    /\ importing' \in Importings /\ wal' \in BOOLEAN
                    /\ importing'.at # "none" => importing'.doc \in BrDocs
                    /\ database = "current" => database' = "current"
           Contained == /\ command.op = "restore" => touched' = touched \cup Written
                        /\ \A q \in Places \ Written : PlaceSame(q)
<1>0. /\ docs \in SUBSET BrDocs /\ content \in [Dirs -> SUBSET BrDocs]
      /\ importing \in Importings /\ wal \in BOOLEAN
      /\ importing.at # "none" => importing.doc \in BrDocs
  BY DEF BrInv, BrTypes, RestoreInv
<1>1. UNCHANGED <<files, rows, misled, command, archive, before, journal, dropped>>
  BY DEF StoreObject, StoreRow, StoreIndex, domainVars
<1>2. Typed
  <2>1. ASSUME NEW doc \in BrDocs, StoreObject(doc)
        PROVE  Typed
    BY <1>0, <2>1 DEF StoreObject, Dirs
  <2>2. CASE StoreRow
    <3>1. importing.doc \in BrDocs
      BY <1>0, <2>2 DEF StoreRow
    <3>2. importing' = [importing EXCEPT !.at = "index"] \/ importing' = NotImporting
      BY <2>2 DEF StoreRow
    <3>3. importing' \in Importings /\ (importing'.at # "none" => importing'.doc \in BrDocs)
      BY <1>0, <3>1, <3>2 DEF NotImporting
    <3> QED  BY <1>0, <2>2, <3>1, <3>3 DEF StoreRow
  <2>3. CASE StoreIndex
    BY <1>0, <2>3 DEF StoreIndex, Dirs, NotImporting
  <2> QED  BY <2>1, <2>2, <2>3
<1>3. BrTypes'
  BY <1>1, <1>2 DEF BrInv, BrTypes
<1>4. PackagesInv'
  BY <1>1 DEF BrInv, PackagesInv, CommandFits, RowsSound, RowsHaveFiles
<1>5. Contained
  <2>1. ASSUME NEW doc \in BrDocs, StoreObject(doc)
        PROVE  Contained
    BY <1>0, <1>1, <2>1 DEF StoreObject, Touches, PlaceSame, Places, Dirs
  <2>2. CASE StoreRow /\ ~\E doc \in BrDocs : StoreObject(doc)
    BY <1>0, <1>1, <2>2 DEF StoreRow, Touches, PlaceSame, Places, Dirs
  <2>3. CASE StoreIndex /\ ~StoreRow /\ ~\E doc \in BrDocs : StoreObject(doc)
    BY <1>0, <1>1, <2>3 DEF StoreIndex, Touches, PlaceSame, Places, Dirs
  <2> QED  BY <2>1, <2>2, <2>3
<1> HIDE DEF Written
<1>6. JournalFits' = JournalFits
  BY <1>1 DEF JournalFits
<1>7. command.op = "restore" /\ PlacesFit => PlacesFit'
  <2> SUFFICES ASSUME command.op = "restore", PlacesFit, NEW q \in Places, q \notin touched'
               PROVE  Fits(q)'
    BY DEF PlacesFit
  <2>1. q \notin Written /\ Fits(q) /\ PlaceSame(q)
    BY <1>5 DEF PlacesFit
  <2>2. BeforeSame(q) /\ JournalSame(q)
    BY <1>1 DEF BeforeSame, JournalSame
  <2> QED  BY <1>1, <2>1, <2>2, OtherPlace
<1>8. RestoreInv'
  BY <1>1, <1>2, <1>6, <1>7 DEF BrInv, RestoreInv
<1> QED  BY <1>3, <1>4, <1>8 DEF BrInv

LEMMA DirectoryNames == Range(CONTENT_DIRECTORIES) = Dirs
<1>1. DOMAIN CONTENT_DIRECTORIES = {1, 2}
  BY DEF CONTENT_DIRECTORIES
<1>2. CONTENT_DIRECTORIES[1] = "objects" /\ CONTENT_DIRECTORIES[2] = "indexes"
  BY DEF CONTENT_DIRECTORIES
<1> QED  BY <1>1, <1>2 DEF Range, Dirs

LEMMA NoDataShape ==
    /\ NoData \in Data /\ NoArchive \in [state : {"none", "whole", "broken"}, data : Data]
    /\ NothingLive \in [data : Data, wal : BOOLEAN]
    /\ \A v \in PkgVersions : ~NoData.rows[v].active
    /\ NoArchive.data = NoData
    /\ NoData.docs = {} /\ \A d \in Dirs : NoData.content[d] = {}
<1>1. EmptyContent \in [Dirs -> SUBSET BrDocs] /\ \A d \in Dirs : EmptyContent[d] = {}
  BY DirectoryNames DEF EmptyContent
<1>2. NoRow \in [sha : Packages, active : BOOLEAN] /\ ~NoRow.active
  BY DEF NoRow, Packages
<1>3. Unrecorded \in RowTable /\ \A v \in PkgVersions : ~Unrecorded[v].active
  <2> HIDE DEF NoRow
  <2> QED  BY <1>2 DEF Unrecorded, RowTable
<1>4. NoData \in Data /\ NoData.rows = Unrecorded /\ NoData.docs = {}
      /\ NoData.content = EmptyContent
  BY <1>1, <1>3 DEF NoData, Data
<1> QED  BY <1>1, <1>3, <1>4 DEF NoArchive, NothingLive

LEMMA BackupSteps ==
    ASSUME BrInv, collect_content_files \/ SnapshotDatabase \/ create_backup_archive
    PROVE  BrInv'
<1> DEFINE Archives == [state : {"none", "whole", "broken"}, data : Data]
<1>0. /\ UNCHANGED <<files, rows, misled, docs, content, database, wal, importing, restoreVars>>
      /\ command.at \in {"none", "snapshot", "write"}
  BY CommandShapes DEF collect_content_files, SnapshotDatabase, create_backup_archive,
     dataVars, Begin
<1>1. /\ docs' \in SUBSET BrDocs /\ content' \in [Dirs -> SUBSET BrDocs]
      /\ importing' \in [doc : BrDocs \cup {"none"}, at : {"none", "row", "index"}]
      /\ importing'.at # "none" => importing'.doc \in BrDocs
  BY <1>0 DEF BrInv, BrTypes, RestoreInv
<1>2. command' \in CommandType /\ command'.at \in {"none", "snapshot", "write"}
  <2>1. CASE command' = [Idle EXCEPT !.op = "backup", !.at = "snapshot"]
    BY <2>1, BundledAssumption DEF Idle, CommandType, CommandPlaces, Packages
  <2>2. CASE command' = [command EXCEPT !.at = "write"]
    BY <2>2, CommandMoves DEF CommandPlaces
  <2>3. CASE command' = Idle
    BY <2>3, CommandShapes
  <2> QED  BY <2>1, <2>2, <2>3 DEF collect_content_files, SnapshotDatabase,
              create_backup_archive, Begin, CommandTo
<1>3. CommandResult
  BY <1>0, <1>2, QuietCommand DEF Restoring
<1>4. archive \in Archives /\ archive.data \in Data
  BY DEF BrInv, BrTypes
<1>5. archive' \in Archives /\ RowsSound(archive'.data.rows)
  <2>1. CASE archive' = [archive EXCEPT !.data.content = content]
    <3> DEFINE d == [archive.data EXCEPT !.content = content]
    <3>1. d \in Data /\ d.rows = archive.data.rows
      BY <1>4 DEF BrInv, BrTypes, Data
    <3>2. archive' = [archive EXCEPT !.data = d]
      BY <2>1
    <3> HIDE DEF d
    <3>3. archive' \in Archives /\ archive'.data = d
      BY <1>4, <3>1, <3>2
    <3> QED  BY <3>1, <3>3 DEF BrInv, PackagesInv, RowsSound
  <2>2. CASE archive' = [archive EXCEPT !.data.rows = rows, !.data.docs = docs]
    <3> DEFINE d == [archive.data EXCEPT !.rows = rows, !.docs = docs]
    <3>1. d \in Data /\ d.rows = rows
      BY <1>4 DEF BrInv, BrTypes, Data
    <3>2. archive' = [archive EXCEPT !.data = d]
      BY <2>2, <1>4
    <3> HIDE DEF d
    <3>3. archive' \in Archives /\ archive'.data = d
      BY <1>4, <3>1, <3>2
    <3> QED  BY <3>1, <3>3 DEF BrInv, PackagesInv, RowsSound
  <2>3. CASE archive' = NoArchive
    BY <2>3, NoDataShape DEF RowsSound
  <2>4. ASSUME NEW s \in {"whole", "broken"}, archive' = [archive EXCEPT !.state = s]
        PROVE  archive' \in Archives /\ RowsSound(archive'.data.rows)
    <3>1. archive' \in Archives /\ archive'.data = archive.data
      BY <1>4, <2>4
    <3> QED  BY <3>1 DEF BrInv, PackagesInv
  <2> QED  BY <2>1, <2>2, <2>3, <2>4 DEF collect_content_files, SnapshotDatabase,
              create_backup_archive
<1>6. RowsSound(archive.data.rows)'
  BY <1>5 DEF RowsSound
<1> QED  BY <1>0, <1>1, <1>3, <1>5, <1>6, AroundKeeps

-----------------------------------------------------------------------------
(* The restore *)

LEMMA MoveShape ==
    ASSUME NEW k, NEW l, NEW p, NEW q
    PROVE  /\ Move(k, p).kind = k /\ Move(k, p).place = p
           /\ Move(k, p) = Move(l, q) <=> k = l /\ p = q
BY DEF Move

\* The moves of install_restored_files, by number.
LEMMA MoveNumbers ==
    /\ Len(Moves) = 7 /\ DOMAIN Moves = 1..7
    /\ Moves[1] = Move("aside", "wal") /\ Moves[2] = Move("aside", "database")
    /\ Moves[3] = Move("aside", "objects") /\ Moves[4] = Move("aside", "indexes")
    /\ Moves[5] = Move("install", "database") /\ Moves[6] = Move("install", "objects")
    /\ Moves[7] = Move("install", "indexes")
BY DEF Moves

LEMMA AllMoves ==
    /\ Range(Moves) = {Move("aside", p) : p \in Places}
                        \cup {Move("install", p) : p \in Dirs \cup {"database"}}
    /\ \A i \in 1..7 : Moves[i] \in Range(Moves)
<1>1. \A i \in 1..7 : i \in {1, 2, 3, 4, 5, 6, 7}
  OBVIOUS
<1>2. Range(Moves) = {Moves[1], Moves[2], Moves[3], Moves[4], Moves[5], Moves[6], Moves[7]}
  BY <1>1, MoveNumbers DEF Range
<1>3. {Move("aside", p) : p \in Places} = {Moves[1], Moves[2], Moves[3], Moves[4]}
  BY MoveNumbers DEF Places, Dirs
<1>4. {Move("install", p) : p \in Dirs \cup {"database"}} = {Moves[5], Moves[6], Moves[7]}
  BY MoveNumbers DEF Dirs
<1> QED  BY <1>1, <1>2, <1>3, <1>4

\* A place is installed after it was moved aside, the database after the log.
LEMMA MovesInOrder ==
    ASSUME NEW i \in 1..Len(Moves), Due(Moves, Range(Moves) \ journal, i)
    PROVE  /\ Moves[i] \in Range(Moves) \ journal
           /\ \A p \in Dirs \cup {"database"} :
                Moves[i] = Move("install", p) => Move("aside", p) \in journal
           /\ Moves[i] = Move("install", "database") => Move("aside", "wal") \in journal
<1>1. i \in 1..7 /\ Moves[i] \in Range(Moves) \ journal
  BY MoveNumbers DEF Due
<1>2. \A k \in 1..4 : i > 4 => Moves[k] \in journal
  <2> SUFFICES ASSUME NEW k \in 1..4, i > 4
               PROVE  Moves[k] \in journal
    OBVIOUS
  <2>1. k \in 1..(i - 1) /\ k \in 1..7  BY <1>1
  <2>2. Moves[k] \in Range(Moves)  BY <2>1, AllMoves
  <2> QED  BY <2>1, <2>2 DEF Due
<1>3. \A p \in Dirs \cup {"database"} : Moves[i] = Move("install", p) => i > 4
  <2> SUFFICES ASSUME NEW p \in Dirs \cup {"database"}, Moves[i] = Move("install", p), i <= 4
               PROVE  FALSE
    BY <1>1
  <2>1. i \in {1, 2, 3, 4}  BY <1>1
  <2>2. Moves[i].kind = "aside"  BY <2>1, MoveNumbers, MoveShape
  <2>3. Moves[i].kind = "install"  BY MoveShape
  <2> QED  BY <2>2, <2>3
<1>4. ASSUME i > 4
      PROVE  \A p \in Places : Move("aside", p) \in journal
  BY <1>2, <1>4, MoveNumbers DEF Places, Dirs
<1> QED  BY <1>1, <1>3, <1>4 DEF Places

LEMMA RollbackNumbers ==
    /\ Len(RollbackOrder) = 7
    /\ RollbackOrder[1] = Move("install", "objects")
    /\ RollbackOrder[2] = Move("install", "indexes")
    /\ RollbackOrder[3] = Move("install", "database")
    /\ RollbackOrder[4] = Move("aside", "indexes")
    /\ RollbackOrder[5] = Move("aside", "objects")
    /\ RollbackOrder[6] = Move("aside", "database")
    /\ RollbackOrder[7] = Move("aside", "wal")
BY DEF RollbackOrder

\* What was moved aside comes back after everything installed is out again.
LEMMA RollbackInOrder ==
    ASSUME NEW i \in 1..Len(RollbackOrder), Due(RollbackOrder, journal, i)
    PROVE  /\ RollbackOrder[i] \in journal
           /\ \A p \in Places : RollbackOrder[i] = Move("aside", p) =>
                \A q \in Dirs \cup {"database"} : Move("install", q) \notin journal
<1>1. i \in 1..7 /\ RollbackOrder[i] \in journal
  BY RollbackNumbers DEF Due
<1>2. \A k \in 1..3 : i > 3 => RollbackOrder[k] \notin journal
  BY <1>1 DEF Due
<1>3. \A p \in Places : RollbackOrder[i] = Move("aside", p) => i > 3
  <2> SUFFICES ASSUME NEW p \in Places, RollbackOrder[i] = Move("aside", p), i <= 3
               PROVE  FALSE
    BY <1>1
  <2>1. i \in {1, 2, 3}  BY <1>1
  <2>2. RollbackOrder[i].kind = "install"  BY <2>1, RollbackNumbers, MoveShape
  <2>3. RollbackOrder[i].kind = "aside"  BY MoveShape
  <2> QED  BY <2>2, <2>3
<1>4. ASSUME i > 3
      PROVE  \A q \in Dirs \cup {"database"} : Move("install", q) \notin journal
  BY <1>2, <1>4, RollbackNumbers DEF Dirs
<1> QED  BY <1>1, <1>3, <1>4

\* Filling or emptying a place leaves the other places alone.
LEMMA OnlyPlace ==
    ASSUME BrInv, NEW p \in Places, NEW file, NEW data, NEW log, PlaceHolds(p, file, data, log)
    PROVE  \A q \in Places \ {p} : PlaceSame(q)
<1> content \in [Dirs -> SUBSET BrDocs]
  BY DEF BrInv, BrTypes
<1>1. CASE p = "database"
  BY <1>1 DEF PlaceHolds, PlaceSame
<1>2. CASE p = "wal"
  BY <1>2 DEF PlaceHolds, PlaceSame
<1>3. CASE p \in Dirs
  BY <1>3 DEF PlaceHolds, PlaceSame, Places, Dirs
<1> QED  BY <1>1, <1>2, <1>3 DEF Places

\* A place is filled or emptied: the variables keep their types and the rows
\* are those of the archive, of what was live, or none.
LEMMA PlaceTypes ==
    ASSUME BrInv, command.at \in {"move", "rollback"}, UNCHANGED <<files, misled>>,
           NEW p \in Places, NEW file, NEW log \in BOOLEAN,
           NEW data \in {NoData, archive.data, before.data}, PlaceHolds(p, file, data, log)
    PROVE  /\ rows' \in RowTable /\ docs' \in SUBSET BrDocs
           /\ content' \in [Dirs -> SUBSET BrDocs] /\ wal' \in BOOLEAN
           /\ RowsSound(rows)' /\ RowsHaveFiles(rows)'
<1>1. data \in Data /\ data.rows \in RowTable /\ data.docs \in SUBSET BrDocs
      /\ data.content \in [Dirs -> SUBSET BrDocs]
  BY NoDataShape DEF BrInv, BrTypes, Data
<1>2. RowsSound(data.rows) /\ RowsHaveFiles(data.rows)
  <2>1. CASE data = NoData
    BY <2>1, NoDataShape DEF RowsSound, RowsHaveFiles
  <2>2. CASE data \in {archive.data, before.data}
    BY <2>2 DEF BrInv, PackagesInv
  <2> QED  BY <2>1, <2>2
<1>3. rows' \in {rows, data.rows} /\ docs' \in {docs, data.docs} /\ wal' \in {wal, log}
  BY DEF PlaceHolds
<1>4. content' = content \/ (p \in Dirs /\ content' = [content EXCEPT ![p] = data.content[p]])
  BY DEF PlaceHolds, Places
<1>5. content' \in [Dirs -> SUBSET BrDocs]
  BY <1>1, <1>4 DEF BrInv, BrTypes
<1>6. RowsSound(rows)' /\ RowsHaveFiles(rows)'
  BY <1>2, <1>3 DEF BrInv, PackagesInv, RowsSound, RowsHaveFiles
<1> QED  BY <1>1, <1>3, <1>5, <1>6 DEF BrInv, BrTypes

\* What is moved aside is kept for the rollback beside what it has already.
LEMMA AsideTypes ==
    ASSUME BrInv, command.at = "move", UNCHANGED <<files, misled>>, NEW p \in Places, SetAside(p)
    PROVE  /\ before' \in [data : Data, wal : BOOLEAN]
           /\ RowsSound(before.data.rows)' /\ RowsHaveFiles(before.data.rows)'
           /\ \A q \in Places \ {p} : BeforeSame(q)
<1> DEFINE D == before.data
<1>0. /\ before \in [data : Data, wal : BOOLEAN] /\ D \in Data
      /\ D.rows \in RowTable /\ D.docs \in SUBSET BrDocs /\ D.content \in [Dirs -> SUBSET BrDocs]
      /\ rows \in RowTable /\ docs \in SUBSET BrDocs /\ content \in [Dirs -> SUBSET BrDocs]
      /\ wal \in BOOLEAN
  BY DEF BrInv, BrTypes, Data
<1>1. /\ RowsSound(rows) /\ RowsHaveFiles(rows)
      /\ RowsSound(D.rows) /\ RowsHaveFiles(D.rows)
  BY DEF BrInv, PackagesInv
<1>2. CASE p = "wal"
  <2>1. before' = [before EXCEPT !.wal = wal]
    BY <1>2 DEF SetAside
  <2>2. before' \in [data : Data, wal : BOOLEAN] /\ before'.data = D
    BY <1>0, <2>1
  <2> QED  BY <1>1, <1>2, <2>2 DEF RowsSound, RowsHaveFiles, BeforeSame
<1>3. ASSUME NEW E \in Data, before' = [before EXCEPT !.data = E], E.rows \in {D.rows, rows}
      PROVE  /\ before' \in [data : Data, wal : BOOLEAN] /\ before'.data = E
             /\ before'.wal = before.wal
             /\ RowsSound(before.data.rows)' /\ RowsHaveFiles(before.data.rows)'
  <2>1. before' \in [data : Data, wal : BOOLEAN] /\ before'.data = E /\ before'.wal = before.wal
    BY <1>0, <1>3
  <2> QED  BY <1>1, <1>3, <2>1 DEF RowsSound, RowsHaveFiles
<1>4. CASE p = "database"
  <2> DEFINE E == [D EXCEPT !.rows = rows, !.docs = docs]
  <2>1. before' = [before EXCEPT !.data = E]
    BY <1>0, <1>4 DEF SetAside
  <2>2. E \in Data /\ E.rows = rows /\ E.content = D.content
    BY <1>0 DEF Data
  <2> HIDE DEF E
  <2>3. before'.data = E /\ before'.wal = before.wal
    BY <1>3, <2>1, <2>2
  <2>4. \A q \in Places \ {p} : BeforeSame(q)
    BY <1>4, <2>2, <2>3 DEF BeforeSame, Places
  <2> QED  BY <1>3, <2>1, <2>2, <2>4
<1>5. CASE p \in Dirs
  <2> DEFINE c == [D.content EXCEPT ![p] = content[p]]
             E == [D EXCEPT !.content = c]
  <2>1. before' = [before EXCEPT !.data = E]
    BY <1>0, <1>5 DEF SetAside, Dirs
  <2>2. c \in [Dirs -> SUBSET BrDocs] /\ \A q \in Dirs \ {p} : c[q] = D.content[q]
    BY <1>0, <1>5
  <2> HIDE DEF c
  <2>3. E \in Data /\ E.rows = D.rows /\ E.docs = D.docs /\ E.content = c
    BY <1>0, <2>2 DEF Data
  <2> HIDE DEF E
  <2>4. before'.data = E /\ before'.wal = before.wal
    BY <1>3, <2>1, <2>3
  <2>5. \A q \in Places \ {p} : BeforeSame(q)
    BY <2>2, <2>3, <2>4 DEF BeforeSame, Places
  <2> QED  BY <1>3, <2>1, <2>3, <2>5
<1> QED  BY <1>2, <1>4, <1>5 DEF Places

\* One place is filled, emptied or put back, and the journal says so.
LEMMA PlaceFits ==
    ASSUME BrInv, archive' = archive, NEW p \in Places,
           \/ /\ Move("install", p) \in journal'
              /\ PlaceHolds(p, "restored", archive.data, FALSE)
           \/ /\ Move("install", p) \notin journal' /\ Move("aside", p) \in journal'
              /\ PlaceHolds(p, "absent", NoData, FALSE)
           \/ /\ Move("install", p) \notin journal' /\ Move("aside", p) \notin journal'
              /\ before' = before /\ PlaceHolds(p, "current", before.data, before.wal)
    PROVE  Fits(p)'
<1>0. content \in [Dirs -> SUBSET BrDocs] /\ NoData.docs = {}
      /\ \A d \in Dirs : NoData.content[d] = {}
  BY NoDataShape DEF BrInv, BrTypes
<1>1. CASE p = "database"
  BY <1>1 DEF Fits, PlaceHolds, Held, NoData, Unrecorded
<1>2. CASE p = "wal"
  BY <1>2 DEF Fits, PlaceHolds, Held
<1>3. CASE p \in Dirs
  <2>1. p # "database" /\ p # "wal"
    BY <1>3 DEF Dirs
  <2> QED  BY <1>0, <1>3, <2>1 DEF Fits, PlaceHolds, Held
<1> QED  BY <1>1, <1>2, <1>3 DEF Places

\* One move, made or taken back, leaves every place no worker has written to
\* with what the journal says.
LEMMA PlaceStep ==
    ASSUME PlacesFit, archive' = archive, touched' = touched, NEW p \in Places,
           \A q \in Places \ {p} : PlaceSame(q) /\ BeforeSame(q) /\ JournalSame(q),
           p \in touched \/ Fits(p)'
    PROVE  PlacesFit'
<1> SUFFICES ASSUME NEW q \in Places, q \notin touched
             PROVE  Fits(q)'
  BY DEF PlacesFit
<1>1. CASE q = p
  BY <1>1
<1>2. CASE q # p
  BY <1>2, OtherPlace DEF PlacesFit
<1> QED  BY <1>1, <1>2

LEMMA RestoreBeginKeeps ==
    ASSUME BrInv, RestoreBegin
    PROVE  BrInv'
<1>0. /\ command = Idle /\ command.at = "none"
      /\ command' = [Idle EXCEPT !.op = "restore", !.at = "move"]
      /\ UNCHANGED <<files, rows, misled, docs, content, database, importing, archive>>
      /\ wal' \in BOOLEAN /\ journal' = {} /\ dropped' = FALSE
      /\ before' = [data |-> Live, wal |-> wal']
  BY CommandShapes DEF RestoreBegin, Begin
<1>1. command' \in CommandType /\ command'.op = "restore" /\ command'.at = "move"
  BY <1>0, BundledAssumption DEF Idle, CommandType, CommandPlaces, Packages, Restoring
<1>2. Live \in Data /\ Live.rows = rows /\ Live.docs = docs /\ Live.content = content
  BY DEF Live, Data, BrInv, BrTypes
<1>3. before' \in [data : Data, wal : BOOLEAN] /\ before'.data = Live /\ before'.wal = wal'
  <2> HIDE DEF Live
  <2> QED  BY <1>0, <1>2
<1>4. BrTypes'
  BY <1>0, <1>1, <1>3 DEF BrInv, BrTypes
<1>5. RowsHaveFiles(archive.data.rows)
  BY DEF RestoreBegin, validate_staged_domain_packages, verify_installed_package,
     load_package, BrInv, PackagesInv, RowsSound, RowsHaveFiles
<1>6. PackagesInv'
  <2>1. CommandFits'
    BY <1>1 DEF CommandFits
  <2>2. before'.data.rows = rows
    BY <1>2, <1>3
  <2>3. RowsSound(before.data.rows)' /\ RowsHaveFiles(before.data.rows)'
    BY <1>0, <2>2 DEF BrInv, PackagesInv, RowsSound, RowsHaveFiles
  <2> QED  BY <1>0, <1>5, <2>1, <2>3 DEF BrInv, PackagesInv, RowsSound, RowsHaveFiles
<1>7. RestoreInv'
  <2>1. database' = "current"
    BY <1>0 DEF BrInv, RestoreInv, Restoring
  <2>2. PlacesFit'
    BY <1>0, <1>2, <1>3, <2>1 DEF PlacesFit, Fits, Held
  <2>3. JournalFits'
    BY <1>0 DEF JournalFits
  <2> QED  BY <1>0, <1>1, <2>2, <2>3 DEF BrInv, RestoreInv, Restoring
<1> QED  BY <1>4, <1>6, <1>7 DEF BrInv

LEMMA RestoreRefusedKeeps ==
    ASSUME BrInv, RestoreRefused
    PROVE  BrInv'
<1>1. /\ command.at = "none" /\ command' = Booting
      /\ UNCHANGED <<files, rows, misled, docs, content, database, wal, importing, archive,
                     restoreVars>>
  BY CommandShapes DEF RestoreRefused, dataVars
<1>2. CommandResult
  BY <1>1, QuietCommand, CommandShapes DEF Restoring
<1> QED  BY <1>1, <1>2, AroundKeeps, SameArchive DEF BrInv, BrTypes, RestoreInv

\* The command stays in the restore; files are not touched.
LEMMA InRestoreKeeps ==
    ASSUME BrInv, command.at \in {"move", "rollback"},
           command' = command
             \/ (\E at \in Restoring : command' = [command EXCEPT !.at = at]),
           rows' \in RowTable, docs' \in SUBSET BrDocs,
           content' \in [Dirs -> SUBSET BrDocs], wal' \in BOOLEAN, dropped' \in BOOLEAN,
           before' \in [data : Data, wal : BOOLEAN],
           RowsSound(rows)', RowsHaveFiles(rows)',
           RowsSound(before.data.rows)', RowsHaveFiles(before.data.rows)',
           UNCHANGED <<files, misled, importing, archive>>
    PROVE  /\ BrTypes' /\ PackagesInv'
           /\ command'.op = "restore" /\ command'.at \in Restoring
           /\ importing'.at # "none" => importing'.doc \in BrDocs
<1>1. command' \in CommandType /\ command'.at \in Restoring /\ command'.op = command.op
  BY CommandMoves DEF CommandPlaces, BrInv, BrTypes, Restoring
<1>2. BrTypes'
  BY <1>1 DEF BrInv, BrTypes
<1>3. CommandFits'
  BY <1>1 DEF CommandFits, Restoring
<1>4. PackagesInv'
  BY <1>3 DEF BrInv, PackagesInv, RowsSound, RowsHaveFiles
<1> QED  BY <1>1, <1>2, <1>4 DEF BrInv, RestoreInv, Restoring

\* The rows set aside stay good when nothing moves.
LEMMA SameBefore ==
    ASSUME BrInv, command.at \in {"move", "rollback"}, UNCHANGED <<files, misled, before>>
    PROVE  /\ before' \in [data : Data, wal : BOOLEAN]
           /\ RowsSound(before.data.rows)' /\ RowsHaveFiles(before.data.rows)'
BY DEF BrInv, BrTypes, PackagesInv, RowsSound, RowsHaveFiles

LEMMA SameRows ==
    ASSUME BrInv, UNCHANGED <<files, misled, dataVars>>
    PROVE  /\ rows' \in RowTable /\ docs' \in SUBSET BrDocs
           /\ content' \in [Dirs -> SUBSET BrDocs] /\ wal' \in BOOLEAN
           /\ RowsSound(rows)' /\ RowsHaveFiles(rows)'
           /\ \A q \in Places : PlaceSame(q)
BY DEF BrInv, BrTypes, PackagesInv, RowsSound, RowsHaveFiles, dataVars, PlaceSame

\* Nothing moves: the places fit as before.
LEMMA SamePlaces ==
    ASSUME BrInv, PlacesFit, JournalFits, UNCHANGED <<dataVars, archive, before, journal, touched>>
    PROVE  PlacesFit' /\ JournalFits'
<1>1. \A q \in Places : PlaceSame(q) /\ BeforeSame(q) /\ JournalSame(q)
  BY DEF dataVars, PlaceSame, BeforeSame, JournalSame
<1>2. PlacesFit'
  BY <1>1, OtherPlace DEF PlacesFit
<1> QED  BY <1>2 DEF JournalFits

LEMMA MovePlaces ==
    ASSUME NEW m \in Range(Moves)
    PROVE  /\ m = Move(m.kind, m.place) /\ m.place \in Places
           /\ m.kind \in {"aside", "install"}
           /\ m.kind = "install" => m.place \in Dirs \cup {"database"}
           /\ m.place = "wal" => Move("install", m.place) \notin Range(Moves)
<1>1. /\ m = Move(m.kind, m.place) /\ m.place \in Places
      /\ m.kind \in {"aside", "install"}
      /\ m.kind = "install" => m.place \in Dirs \cup {"database"}
  BY AllMoves, MoveShape DEF Places
<1>2. Move("install", "wal") \notin Range(Moves)
  <2> SUFFICES ASSUME Move("install", "wal") \in Range(Moves)
               PROVE  FALSE
    OBVIOUS
  <2>1. \/ \E p \in Places : Move("install", "wal") = Move("aside", p)
        \/ \E p \in Dirs \cup {"database"} : Move("install", "wal") = Move("install", p)
    BY AllMoves
  <2> QED  BY <2>1, MoveShape DEF Dirs
<1> QED  BY <1>1, <1>2

\* A place that was moved aside and not installed since is empty, unless a
\* worker has written to it.
LEMMA AsideIsEmpty ==
    ASSUME PlacesFit, NEW p \in Places \ touched,
           Move("aside", p) \in journal, Move("install", p) \notin journal
    PROVE  /\ p \in Dirs => content[p] = {}
           /\ p = "wal" => wal = FALSE
<1>1. Fits(p)
  BY DEF PlacesFit
<1> QED  BY <1>1 DEF Fits, Held, Dirs

LEMMA InstallKeeps ==
    ASSUME BrInv, install_restored_files
    PROVE  BrInv'
<1>0. /\ command.at = "move" /\ UNCHANGED <<files, misled, importing, archive, dropped, touched>>
      /\ JournalFits /\ PlacesFit /\ ~dropped /\ dropped' \in BOOLEAN
      /\ command.at \in {"move", "rollback"}
  BY DEF install_restored_files, BrInv, BrTypes, RestoreInv, Restoring
<1>1. ASSUME NEW i \in 1..Len(Moves), Due(Moves, Range(Moves) \ journal, i),
             MoveFiles(Moves[i]), journal' = journal \union {Moves[i]}, command' = command
      PROVE  BrInv'
  <2> DEFINE m == Moves[i]
             p == m.place
  <2>1. m \in Range(Moves) \ journal /\ p \in Places /\ m.kind \in {"aside", "install"}
        /\ m = Move(m.kind, p) /\ (m.kind = "install" => p \in Dirs \cup {"database"})
        /\ (p = "wal" => Move("install", p) \notin Range(Moves))
    BY <1>1, MovesInOrder, MovePlaces
  <2>2. \/ m.kind = "aside" /\ PlaceHolds(p, "absent", NoData, FALSE) /\ SetAside(p)
        \/ Skipped(m) /\ m.kind = "install" /\ UNCHANGED <<dataVars, before>>
        \/ m.kind = "install" /\ PlaceHolds(p, "restored", archive.data, FALSE)
           /\ before' = before
    BY <1>1 DEF MoveFiles, Empties, Skipped
  <2>5. \A k, q : Move(k, q) \in journal' <=>
            (Move(k, q) \in journal \/ (k = m.kind /\ q = p))
    BY <1>1, <2>1, MoveShape
  <2>6. /\ \A q \in Dirs \cup {"database"} : m = Move("install", q) => Move("aside", q) \in journal
        /\ m = Move("install", "database") => Move("aside", "wal") \in journal
    BY <1>1, MovesInOrder
  <2>0. Skipped(m) => p \in Dirs /\ archive.data.content[p] = {}
    BY DirectoryNames DEF Skipped
  <2> HIDE DEF m, p
  <2>3. /\ rows' \in RowTable /\ docs' \in SUBSET BrDocs
        /\ content' \in [Dirs -> SUBSET BrDocs] /\ wal' \in BOOLEAN
        /\ RowsSound(rows)' /\ RowsHaveFiles(rows)'
        /\ \A q \in Places \ {p} : PlaceSame(q)
    BY <1>0, <2>1, <2>2, PlaceTypes, OnlyPlace, SameRows
  <2>4. /\ before' \in [data : Data, wal : BOOLEAN]
        /\ RowsSound(before.data.rows)' /\ RowsHaveFiles(before.data.rows)'
        /\ \A q \in Places \ {p} : BeforeSame(q)
    <3>1. CASE SetAside(p)
      BY <1>0, <2>1, <3>1, AsideTypes
    <3>2. CASE before' = before
      BY <1>0, <3>2, SameBefore DEF BeforeSame
    <3> QED  BY <2>2, <3>1, <3>2
  <2>7. JournalFits'
    <3>1. journal' \subseteq Range(Moves)
      BY <1>0, <1>1, <2>1 DEF JournalFits, m
    <3>2. ASSUME NEW q \in Dirs \cup {"database"}, Move("install", q) \in journal'
          PROVE  Move("aside", q) \in journal'
      <4>1. Move("install", q) \in journal \/ m = Move("install", q)
        BY <2>1, <2>5, <3>2
      <4>2. Move("aside", q) \in journal
        BY <4>1, <2>6, <1>0 DEF JournalFits
      <4> QED  BY <4>2, <2>5
    <3>3. ASSUME Move("install", "database") \in journal'
          PROVE  Move("aside", "wal") \in journal'
      <4>1. Move("install", "database") \in journal \/ m = Move("install", "database")
        BY <2>1, <2>5, <3>3
      <4>2. Move("aside", "wal") \in journal
        BY <4>1, <2>6, <1>0 DEF JournalFits
      <4> QED  BY <4>2, <2>5
    <3> QED  BY <3>1, <3>2, <3>3 DEF JournalFits
  <2>8. p \in touched \/ Fits(p)'
    <3>1. CASE m.kind = "aside" /\ PlaceHolds(p, "absent", NoData, FALSE)
      <4>1. Move("aside", p) \in journal'  BY <2>5, <3>1
      <4>2. Move("install", p) \notin journal
        BY <1>0, <2>1, <3>1 DEF JournalFits, Places
      <4>3. Move("install", p) \notin journal'  BY <4>2, <2>5, <3>1
      <4> QED  BY <1>0, <2>1, <3>1, <4>1, <4>3, PlaceFits
    <3>2. CASE m.kind = "install" /\ PlaceHolds(p, "restored", archive.data, FALSE)
      <4>1. Move("install", p) \in journal'  BY <2>5, <3>2
      <4> QED  BY <1>0, <2>1, <3>2, <4>1, PlaceFits
    <3>3. ASSUME Skipped(m), m.kind = "install", UNCHANGED <<dataVars, before>>, p \notin touched
          PROVE  Fits(p)'
      <4>1. Move("aside", p) \in journal /\ Move("install", p) \notin journal
        BY <2>1, <2>6, <3>3
      <4>2. p \in Dirs /\ content[p] = {} /\ archive.data.content[p] = {}
        BY <2>0, <2>1, <3>3, <1>0, <4>1, AsideIsEmpty
      <4>3. content'[p] = archive'.data.content[p]
        BY <4>2, <3>3, <1>0 DEF dataVars
      <4>4. p # "database" /\ p # "wal" /\ Move("install", p) \in journal'
        BY <2>5, <3>3, <4>2 DEF Dirs
      <4> QED  BY <4>3, <4>4 DEF Fits, Held
    <3> QED  BY <2>2, <3>1, <3>2, <3>3
  <2>9. PlacesFit'
    <3>1. \A q \in Places \ {p} : JournalSame(q)
      BY <2>5 DEF JournalSame
    <3> QED  BY <1>0, <2>1, <2>3, <2>4, <2>8, <3>1, PlaceStep
  <2>10. /\ BrTypes' /\ PackagesInv' /\ command'.op = "restore"
         /\ importing'.at # "none" => importing'.doc \in BrDocs
    BY <1>0, <1>1, <2>3, <2>4, InRestoreKeeps
  <2>11. RestoreInv'
    BY <1>0, <1>1, <2>10, <2>7, <2>9 DEF RestoreInv, Restoring
  <2> QED  BY <2>10, <2>11 DEF BrInv
<1>2. ASSUME NEW at \in Restoring, command' = [command EXCEPT !.at = at],
             UNCHANGED <<dataVars, before, journal>>,
             at = "rollback" \/ (at \in {"ok", "failed"} /\ journal = Range(Moves))
      PROVE  BrInv'
  <2>3. /\ BrTypes' /\ PackagesInv' /\ command'.op = "restore"
        /\ importing'.at # "none" => importing'.doc \in BrDocs
    BY <1>0, <1>2, InRestoreKeeps, SameRows, SameBefore
  <2>4. command'.at = at
    BY <1>2, CommandMoves DEF CommandPlaces
  <2>5. JournalFits' /\ PlacesFit'
    BY <1>0, <1>2, SamePlaces
  <2>6. RestoreInv'
    BY <1>0, <1>2, <2>3, <2>4, <2>5 DEF RestoreInv, Restoring
  <2> QED  BY <2>3, <2>6 DEF BrInv
<1> QED  BY <1>1, <1>2 DEF install_restored_files, CommandTo, Restoring

LEMMA RollbackKeeps ==
    ASSUME BrInv, RollbackStep
    PROVE  BrInv'
<1>0. /\ command.at = "rollback"
      /\ UNCHANGED <<files, misled, importing, archive, before, touched>>
      /\ JournalFits /\ (~dropped => PlacesFit) /\ dropped \in BOOLEAN
      /\ command.at \in {"move", "rollback"}
  BY DEF RollbackStep, BrInv, BrTypes, RestoreInv, Restoring
<1>1. ASSUME journal = {}, command' = [command EXCEPT !.at = "failed"],
             UNCHANGED <<dataVars, journal, dropped>>
      PROVE  BrInv'
  <2>3. /\ BrTypes' /\ PackagesInv' /\ command'.op = "restore"
        /\ importing'.at # "none" => importing'.doc \in BrDocs
    BY <1>0, <1>1, InRestoreKeeps, SameRows, SameBefore DEF Restoring
  <2>4. command'.at = "failed"
    BY <1>1, CommandMoves DEF CommandPlaces, Restoring
  <2>5. JournalFits' /\ (~dropped' => PlacesFit')
    BY <1>0, <1>1, SamePlaces DEF JournalFits
  <2>6. RestoreInv'
    BY <1>0, <1>1, <2>3, <2>4, <2>5 DEF RestoreInv, Restoring
  <2> QED  BY <2>3, <2>6 DEF BrInv
<1>2. ASSUME NEW i \in 1..Len(RollbackOrder), Due(RollbackOrder, journal, i),
             journal' = journal \ {RollbackOrder[i]}, command' = command,
             \/ TakeBack(RollbackOrder[i]) /\ dropped' = dropped
             \/ ~PutBackPossible(RollbackOrder[i]) /\ dropped' = dropped /\ UNCHANGED dataVars
             \/ dropped' = TRUE /\ UNCHANGED dataVars
      PROVE  BrInv'
  <2> DEFINE m == RollbackOrder[i]
             p == m.place
  <2>1. m \in journal /\ p \in Places /\ m.kind \in {"aside", "install"}
        /\ m = Move(m.kind, p) /\ (m.kind = "install" => p \in Dirs \cup {"database"})
        /\ (p = "wal" => Move("install", p) \notin journal)
    BY <1>0, <1>2, RollbackInOrder, MovePlaces DEF JournalFits
  <2>2. m.kind = "aside" =>
          \A q \in Dirs \cup {"database"} : Move("install", q) \notin journal
    BY <1>2, <2>1, RollbackInOrder
  <2>3. \A k, q : Move(k, q) \in journal' <=>
            (Move(k, q) \in journal /\ ~(k = m.kind /\ q = p))
    BY <1>2, <2>1, MoveShape
  <2>4. TakeBack(m) =>
          \/ Skipped(m) /\ m.kind = "install" /\ UNCHANGED dataVars
          \/ m.kind = "install" /\ PlaceHolds(p, "absent", NoData, FALSE)
          \/ m.kind = "aside" /\ PlaceHolds(p, "current", before.data, before.wal \/ wal)
    BY DEF TakeBack, Empties, Skipped
  <2>5. (before.wal \/ wal) \in BOOLEAN
    BY DEF BrInv, BrTypes
  <2>6. \/ TakeBack(m) /\ dropped' = dropped
        \/ ~PutBackPossible(m) /\ dropped' = dropped /\ UNCHANGED dataVars
        \/ dropped' = TRUE /\ UNCHANGED dataVars
    BY <1>2
  <2>0. /\ Skipped(m) => p \in Dirs /\ archive.data.content[p] = {}
        /\ ~PutBackPossible(m) => m.kind = "aside" /\ p \in Dirs /\ content[p] # {}
    BY DirectoryNames DEF Skipped, PutBackPossible, Free
  <2> HIDE DEF m, p
  <2>7. /\ rows' \in RowTable /\ docs' \in SUBSET BrDocs
        /\ content' \in [Dirs -> SUBSET BrDocs] /\ wal' \in BOOLEAN
        /\ RowsSound(rows)' /\ RowsHaveFiles(rows)' /\ dropped' \in BOOLEAN
        /\ \A q \in Places \ {p} : PlaceSame(q)
    <3>1. CASE TakeBack(m)
      BY <1>0, <2>1, <2>4, <2>5, <2>6, <3>1, PlaceTypes, OnlyPlace, SameRows
    <3>2. CASE UNCHANGED dataVars
      BY <1>0, <2>6, <3>2, SameRows
    <3> QED  BY <2>6, <3>1, <3>2
  <2>8. /\ BrTypes' /\ PackagesInv' /\ command'.op = "restore"
        /\ importing'.at # "none" => importing'.doc \in BrDocs
    BY <1>0, <1>2, <2>7, InRestoreKeeps, SameBefore
  <2>9. JournalFits'
    <3>1. journal' \subseteq Range(Moves)
      BY <1>0, <1>2 DEF JournalFits
    <3>2. ASSUME NEW q \in Dirs \cup {"database"}, Move("install", q) \in journal'
          PROVE  Move("aside", q) \in journal'
                   /\ (q = "database" => Move("aside", "wal") \in journal')
      <4>1. Move("install", q) \in journal  BY <2>3, <3>2
      <4>2. m.kind # "aside"  BY <2>2, <4>1
      <4>3. Move("aside", q) \in journal /\ (q = "database" => Move("aside", "wal") \in journal)
        BY <4>1, <1>0 DEF JournalFits
      <4> QED  BY <4>2, <4>3, <2>3
    <3> QED  BY <3>1, <3>2 DEF JournalFits
  <2>10. ASSUME ~dropped'
         PROVE  PlacesFit'
    <3>1. PlacesFit /\ (TakeBack(m) \/ (~PutBackPossible(m) /\ UNCHANGED dataVars))
      BY <2>6, <2>10, <1>0
    <3>2. \A q \in Places \ {p} : PlaceSame(q) /\ BeforeSame(q) /\ JournalSame(q)
      BY <1>0, <2>3, <2>7 DEF BeforeSame, JournalSame
    <3>3. m.kind = "aside" => Move("install", p) \notin journal
      BY <2>1, <2>2 DEF Places
    <3>4. CASE m.kind = "install" /\ PlaceHolds(p, "absent", NoData, FALSE)
      <4>1. Move("install", p) \notin journal'  BY <2>3, <3>4
      <4>2. Move("aside", p) \in journal
        BY <1>0, <2>1, <3>4 DEF JournalFits
      <4>3. Move("aside", p) \in journal'  BY <4>2, <2>3, <3>4
      <4>4. Fits(p)'
        BY <1>0, <2>1, <3>4, <4>1, <4>3, PlaceFits
      <4> QED  BY <1>0, <2>1, <3>1, <3>2, <4>4, PlaceStep
    <3>5. CASE Skipped(m) /\ m.kind = "install" /\ UNCHANGED dataVars
      <4>1. Move("install", p) \in journal /\ p \in Dirs /\ archive.data.content[p] = {}
            /\ p # "database" /\ p # "wal"
        BY <2>0, <2>1, <3>5 DEF Dirs
      <4>2. Move("install", p) \notin journal' /\ Move("aside", p) \in journal'
        BY <1>0, <2>3, <3>5, <4>1 DEF JournalFits
      <4>3. p \notin touched => content[p] = {}
        BY <2>1, <3>1, <4>1 DEF PlacesFit, Fits, Held
      <4>4. p \in touched \/ Fits(p)'
        BY <3>5, <4>1, <4>2, <4>3 DEF Fits, Held, dataVars
      <4> QED  BY <1>0, <2>1, <3>1, <3>2, <4>4, PlaceStep
    <3>6. CASE m.kind = "aside" /\ PlaceHolds(p, "current", before.data, before.wal \/ wal)
      <4>1. Move("aside", p) \notin journal' /\ Move("install", p) \notin journal'
        BY <2>3, <3>3, <3>6
      <4>2. ASSUME p \notin touched
            PROVE  Fits(p)'
        <5>1. p = "wal" => wal = FALSE
          BY <2>1, <3>1, <3>3, <3>6, <4>2, AsideIsEmpty
        <5>2. PlaceHolds(p, "current", before.data, before.wal)
          <6>1. CASE p = "wal"
            <7>1. (before.wal \/ wal) = before.wal
              BY <5>1, <6>1 DEF BrInv, BrTypes
            <7> QED  BY <3>6, <7>1
          <6>2. CASE p # "wal"
            BY <3>6, <6>2 DEF PlaceHolds
          <6> QED  BY <6>1, <6>2
        <5> QED  BY <1>0, <2>1, <4>1, <5>2, PlaceFits
      <4> QED  BY <1>0, <2>1, <3>1, <3>2, <4>2, PlaceStep
    <3>7. CASE ~PutBackPossible(m) /\ UNCHANGED dataVars
      <4>1. p \in touched
        BY <2>0, <2>1, <3>1, <3>3, <3>7, AsideIsEmpty
      <4> QED  BY <1>0, <2>1, <3>1, <3>2, <4>1, PlaceStep
    <3> QED  BY <2>4, <3>1, <3>4, <3>5, <3>6, <3>7
  <2>11. RestoreInv'
    BY <1>0, <1>2, <2>8, <2>9, <2>10 DEF RestoreInv, Restoring
  <2> QED  BY <2>8, <2>11 DEF BrInv
<1> QED  BY <1>1, <1>2 DEF RollbackStep, CommandTo

LEMMA EndsKeep ==
    ASSUME BrInv, RestoreEnd \/ BrCrash
    PROVE  BrInv'
<1>0. /\ command' = Booting /\ database' = "current" /\ wal' = FALSE
      /\ before' = NothingLive /\ dropped' = FALSE /\ importing' \in {importing, NotImporting}
      /\ UNCHANGED <<files, rows, misled, docs, content>>
  BY DEF RestoreEnd, BrCrash
<1>1. command' \in CommandType /\ command'.at = "none"
  BY <1>0, CommandShapes
<1>2. /\ archive' \in [state : {"none", "whole", "broken"}, data : Data]
      /\ archive'.data = archive.data
  <2>0. archive \in [state : {"none", "whole", "broken"}, data : Data]
    BY DEF BrInv, BrTypes
  <2>1. CASE archive' = archive
    BY <2>0, <2>1
  <2>2. ASSUME NEW s \in {"none", "broken"}, archive' = [archive EXCEPT !.state = s]
        PROVE  /\ archive' \in [state : {"none", "whole", "broken"}, data : Data]
               /\ archive'.data = archive.data
    BY <2>0, <2>2
  <2>3. archive' = archive \/ archive' = [archive EXCEPT !.state = "broken"]
        \/ archive' = [archive EXCEPT !.state = "none"]
    BY DEF RestoreEnd, BrCrash
  <2> QED  BY <2>1, <2>2, <2>3
<1>3. BrTypes'
  <2>1. before' \in [data : Data, wal : BOOLEAN]
    BY <1>0, NoDataShape
  <2>2. importing' \in [doc : BrDocs \cup {"none"}, at : {"none", "row", "index"}]
    BY <1>0 DEF BrInv, BrTypes, NotImporting
  <2> QED  BY <1>0, <1>1, <1>2, <2>1, <2>2 DEF BrInv, BrTypes
<1>4. PackagesInv'
  <2>1. CommandFits'
    BY <1>1 DEF CommandFits
  <2> QED  BY <1>0, <1>1, <1>2, <2>1 DEF BrInv, PackagesInv, RowsSound, RowsHaveFiles
<1>5. RestoreInv'
  BY <1>0, <1>1 DEF BrInv, RestoreInv, Restoring, NotImporting
<1> QED  BY <1>3, <1>4, <1>5 DEF BrInv

LEMMA BrStarts ==
    ASSUME BrInit
    PROVE  BrInv
<1>1. NoRow \in [sha : Packages, active : BOOLEAN] /\ ~NoRow.active
  BY DEF NoRow, Packages
<1>2. /\ rows = NoData.rows /\ command = Booting /\ docs = {} /\ content = NoData.content
      /\ archive = NoArchive /\ before = NothingLive /\ importing = NotImporting
      /\ database = "current" /\ wal = FALSE /\ dropped = FALSE
      /\ files = [v \in PkgVersions |-> "none"] /\ misled = {}
  BY DEF BrInit, DpInit, NoData
<1>3. BrTypes
  BY <1>2, NoDataShape, CommandShapes DEF BrTypes, NotImporting, Packages, Data
<1>4. PackagesInv
  <2>1. CommandFits
    BY <1>2, CommandShapes DEF CommandFits
  <2> QED  BY <1>2, <2>1, NoDataShape, CommandShapes DEF PackagesInv, RowsSound, RowsHaveFiles
<1>5. RestoreInv
  BY <1>2, CommandShapes DEF RestoreInv, Restoring, NotImporting
<1> QED  BY <1>3, <1>4, <1>5 DEF BrInv

\* Packages, backups and restores together, for any versions, sources and
\* number of failures: the rows of domain_packages fit the directories at every
\* step of a command, and while a restore moves files each place holds what the
\* moves made so far say (install_restored_files of storage/backup.rs).
THEOREM RestoreInvariant == BrSpec => []BrInv
<1>1. BrInit => BrInv
  BY BrStarts
<1>2. BrInv /\ [BrNext]_brVars => BrInv'
  <2> SUFFICES ASSUME BrInv, [BrNext]_brVars
               PROVE  BrInv'
    OBVIOUS
  <2>1. CASE BrNext
    BY <2>1, CommandStepKeeps, DocumentSteps, BackupSteps, RestoreBeginKeeps,
       RestoreRefusedKeeps, InstallKeeps, RollbackKeeps, EndsKeep DEF BrNext
  <2>2. CASE UNCHANGED brVars
    <3>1. UNCHANGED <<files, rows, command, misled, docs, content, database, wal, importing,
                      archive, before, journal, dropped, touched, dataVars>>
      BY <2>2 DEF brVars, domainVars, restoreVars, dataVars
    <3>2. BrTypes'
      BY <3>1 DEF BrInv, BrTypes
    <3>3. PackagesInv'
      BY <3>1 DEF BrInv, PackagesInv, CommandFits, RowsSound, RowsHaveFiles
    <3>4. (JournalFits => JournalFits') /\ (JournalFits /\ PlacesFit => PlacesFit')
      BY <2>2, <3>1, SamePlaces DEF JournalFits
    <3>5. RestoreInv'
      BY <3>1, <3>4 DEF BrInv, RestoreInv
    <3> QED  BY <3>2, <3>3, <3>5 DEF BrInv
  <2> QED  BY <2>1, <2>2
<1> QED  BY <1>1, <1>2, PTL DEF BrSpec

\* The active version of a domain package is unique and its directory is there,
\* whatever step of an installation, a removal or a restore fails or is the
\* last one before the process ends, except for a version whose activation was
\* committed and reported as failed (install_package of app/bundled_domain.rs).
THEOREM ActivePackageIsInstalled == BrSpec => []ActiveDomainHasFiles
<1>1. BrInv => ActiveDomainHasFiles
  BY DEF BrInv, PackagesInv, RowsSound, RowsHaveFiles, ActiveDomainHasFiles
<1> QED  BY <1>1, RestoreInvariant, PTL

\* A restore replaces all of the data or none of it, for every failure of a
\* move and every write of a worker that outlived the shutdown: in the places no
\* worker wrote to, install_restored_files either leaves the archive's data or
\* takes all of its moves back, and the old log never lies beside the restored
\* database, unless the rollback met an error, which the code drops.
THEOREM RestoreReplacesAll == BrSpec => []RestoreIsWhole
<1>1. BrInv => RestoreIsWhole
  <2> SUFFICES ASSUME BrInv
               PROVE  RestoreIsWhole
    OBVIOUS
  <2>1. /\ Untouched \subseteq Dirs \cup {"database"}
        /\ Untouched \subseteq Places \ touched
    BY DirectoryNames DEF Untouched, Places
  <2>2. ASSUME NEW p \in Untouched, Fits(p), Move("install", p) \in journal
        PROVE  PlaceIs(p, archive.data)
    BY <2>1, <2>2 DEF Fits, Held, PlaceIs, Dirs
  <2>3. ASSUME NEW p \in Untouched, Fits(p), journal = {}
        PROVE  PlaceIs(p, before.data)
    BY <2>1, <2>3 DEF Fits, Held, PlaceIs, Dirs
  <2>4. ASSUME PlacesFit, journal = Range(Moves)
        PROVE  \A p \in Untouched : PlaceIs(p, archive.data)
    <3>1. \A p \in Dirs \cup {"database"} : Move("install", p) \in journal
      BY <2>4, AllMoves
    <3> QED  BY <2>1, <2>2, <2>4, <3>1 DEF PlacesFit
  <2>5. ASSUME PlacesFit, journal = {}
        PROVE  \A p \in Untouched : PlaceIs(p, before.data)
    BY <2>1, <2>3, <2>5 DEF PlacesFit
  <2>6. command.at = "ok" => \A p \in Untouched : PlaceIs(p, archive.data)
    BY <2>4 DEF BrInv, RestoreInv, Restoring
  <2>7. command.at = "failed" /\ ~dropped =>
          \E data \in {before.data, archive.data} : \A p \in Untouched : PlaceIs(p, data)
    BY <2>4, <2>5 DEF BrInv, RestoreInv, Restoring
  <2>8. ASSUME wal, ~dropped, database = "restored", touched \intersect {"database", "wal"} = {}
        PROVE  FALSE
    <3>1. command.at \in Restoring /\ PlacesFit /\ JournalFits
      BY <2>8 DEF BrInv, RestoreInv
    <3>2. Fits("database") /\ Fits("wal")
      BY <2>8, <3>1 DEF PlacesFit, Places
    <3>3. Move("install", "database") \in journal
      BY <2>8, <3>2 DEF Fits, Held
    <3>4. Move("aside", "wal") \in journal
      BY <3>1, <3>3 DEF JournalFits
    <3>5. wal = FALSE
      BY <3>2, <3>4 DEF Fits, Held
    <3> QED  BY <2>8, <3>5
  <2> QED  BY <2>6, <2>7, <2>8 DEF RestoreIsWhole
<1> QED  BY <1>1, RestoreInvariant, PTL

=============================================================================
