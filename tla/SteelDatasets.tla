---------------------------- MODULE SteelDatasets ----------------------------
(***************************************************************************)
(* Steel datasets (app/steel_commands, storage/repositories/steel.rs,      *)
(* steel/datasets.rs): a spreadsheet on the user's disk, and a row that    *)
(* remembers its hash, its columns and what they mean.  The row is keyed   *)
(* by the hash; the file stays where it is and the user may change it at   *)
(* any time, so every command hashes it again before it reads the table.   *)
(*                                                                         *)
(* The window's commands hold the mutex around the database connection;    *)
(* the Agent's tools open a connection of their own and read a row and its *)
(* columns in two statements.                                              *)
(***************************************************************************)
EXTENDS Naturals, Sequences, TLC

CONSTANTS
  Tables,      \* what a source may hold: the header names and its data
  DsPaths,     \* files of the user
  CleanPath,   \* the file a cleaned table is written to
  DsFields,    \* canonical fields
  DsMappings,  \* mappings asked for: by ordinal, a field and whether it has a unit
  DsCallers,   \* concurrent commands: "agent" or a window's command
  DsMaxEdits   \* changes of a source by the user

NoField == "no field"
ASSUME MappingsAssumption ==
  DsMappings \subseteq Seq([field : DsFields \cup {NoField}, unit : BOOLEAN])
ASSUME CleanPathAssumption == CleanPath \notin DsPaths

VARIABLES
  disk,     \* path -> table, or NoTable
  dataset,  \* hash (a table) -> row of steel_datasets with its columns, or NoRow
  dsCall,   \* caller -> the command it is executing, or its answer
  dsEdits

dsVars == <<disk, dataset, dsCall, dsEdits>>

NoTable == [heads |-> <<>>, data |-> 0]
NoDataset == [state |-> "none"]
Resting == [at |-> "idle"]

DsInit ==
  /\ disk \in [DsPaths \cup {CleanPath} -> Tables \cup {NoTable}]
  /\ disk[CleanPath] = NoTable
  /\ dataset = [t \in Tables |-> NoDataset]
  /\ dsCall = [c \in DsCallers |-> Resting]
  /\ dsEdits = 0

IsSaved(t) == dataset[t] # NoDataset
IsAgent(c) == c = "agent"
\* with_conn_mut: no other command of the window is inside its closure.
MutexFree == \A c \in DsCallers : ~IsAgent(c) => dsCall[c].at # "table"

EditSource(p, t) ==
  /\ dsEdits < DsMaxEdits /\ dsEdits' = dsEdits + 1
  /\ disk' = [disk EXCEPT ![p] = t]
  /\ UNCHANGED <<dataset, dsCall>>

(***************************************************************************)
(* Columns and their meaning                                               *)
(***************************************************************************)

\* A header that occurred before is marked as a duplicate.
DuplicateHead(t, i) == \E j \in 1..(i - 1) : t.heads[j] = t.heads[i]

\* An ordinal outside the table, a field mapped twice or a unit without a field
\* refuse the whole request.
normalize_mappings(t, maps) ==
  /\ Len(maps) <= Len(t.heads)
  /\ \A i \in DOMAIN maps : maps[i].unit => maps[i].field # NoField
  /\ \A i, j \in DOMAIN maps :
        i # j /\ maps[i].field # NoField => maps[i].field # maps[j].field

MapOf(maps, i) == IF i \in DOMAIN maps THEN maps[i] ELSE [field |-> NoField, unit |-> FALSE]

PreviewColumns(t, maps) ==
  [i \in 1..Len(t.heads) |->
     [name |-> t.heads[i], duplicate |-> DuplicateHead(t, i),
      field |-> MapOf(maps, i).field, unit |-> MapOf(maps, i).unit]]

(***************************************************************************)
(* save_steel_dataset: the preview and the hash are two reads of the file, *)
(* both before the mutex is taken                                          *)
(***************************************************************************)

Proceed(c, what) == dsCall' = [dsCall EXCEPT ![c] = what]
Refuse(c) == Proceed(c, Resting)

PreviewSource(c, p, maps) ==
  /\ ~IsAgent(c) /\ dsCall[c].at \in {"idle", "answered"} /\ disk[p] # NoTable
  /\ Proceed(c, [at |-> "hash", path |-> p, seen |-> disk[p], maps |-> maps])
  /\ UNCHANGED <<disk, dataset, dsEdits>>

HashSource(c) ==
  /\ dsCall[c].at = "hash"
  /\ IF disk[dsCall[c].path] = NoTable THEN Refuse(c)
     ELSE Proceed(c, [dsCall[c] EXCEPT !.at = "write"] @@ [hash |-> disk[dsCall[c].path]])
  /\ UNCHANGED <<disk, dataset, dsEdits>>

\* Mutant: the row of a source saved before keeps its state.
UpsertKeepsState(call) ==
  [dataset EXCEPT ![call.hash] =
     [path |-> call.path, columns |-> PreviewColumns(call.seen, call.maps),
      state |-> IF @ = NoDataset THEN "draft" ELSE @.state]]

\* The row of this hash is replaced, columns included, and is a draft again.
Upsert(call) ==
  [dataset EXCEPT ![call.hash] =
     [path |-> call.path, columns |-> PreviewColumns(call.seen, call.maps), state |-> "draft"]]

save_preview(c) ==
  /\ dsCall[c].at = "write" /\ MutexFree
  /\ dataset' = IF normalize_mappings(dsCall[c].seen, dsCall[c].maps) THEN Upsert(dsCall[c]) ELSE dataset
  /\ Refuse(c)
  /\ UNCHANGED <<disk, dsEdits>>

\* Activation: the source is unchanged, no column is a duplicate, at least one has a
\* field, and every unit has one.
Activatable(columns) ==
  /\ \A i \in DOMAIN columns : ~columns[i].duplicate
  /\ \A i \in DOMAIN columns : columns[i].unit => columns[i].field # NoField
  /\ \E i \in DOMAIN columns : columns[i].field # NoField

activate_dataset(t) ==
  /\ IsSaved(t) /\ MutexFree
  /\ disk[dataset[t].path] = t
  /\ Activatable(dataset[t].columns)
  /\ dataset' = [dataset EXCEPT ![t].state = "ready"]
  /\ UNCHANGED <<disk, dsCall, dsEdits>>

(***************************************************************************)
(* Commands that read the table                                            *)
(***************************************************************************)

\* repository::get reads the row, then its columns.
ReadRow(c, t, op) ==
  /\ dsCall[c].at \in {"idle", "answered"} /\ IsSaved(t)
  /\ IF IsAgent(c) THEN op \in {"train", "match"} ELSE MutexFree /\ op \in {"train", "analyze", "clean"}
  /\ op = "train" => dataset[t].state = "ready"
  /\ LET read == [op |-> op, path |-> dataset[t].path, hash |-> t]
     IN  IF IsAgent(c) THEN Proceed(c, [at |-> "columns"] @@ read)
         ELSE IF disk[dataset[t].path] # t THEN Refuse(c)
         ELSE Proceed(c, [at |-> "table", columns |-> dataset[t].columns] @@ read)
  /\ UNCHANGED <<disk, dataset, dsEdits>>

\* The Agent's training then hashes the source; match_coil and query_production_data
\* never do.
list_columns(c) ==
  /\ dsCall[c].at = "columns"
  /\ IF dsCall[c].op = "train" /\ disk[dsCall[c].path] # dsCall[c].hash THEN Refuse(c)
     ELSE Proceed(c, [dsCall[c] EXCEPT !.at = "table"] @@ [columns |-> dataset[dsCall[c].hash].columns])
  /\ UNCHANGED <<disk, dataset, dsEdits>>

\* clean_dataset keeps the headers and may drop, fill and clip rows.
CleanTable(t) == {u \in Tables : u.heads = t.heads}

\* build_linear_regression_payload
Trainable(table, columns) ==
  /\ Len(table.heads) = Len(columns)
  /\ \E target, feature \in DOMAIN columns :
        target # feature /\ ~columns[target].duplicate /\ ~columns[feature].duplicate

\* The cleaned table goes to a file of its own and is saved like any other source, with
\* the mapping of the dataset it came from.
clean_steel_dataset(c, table) ==
  \E u \in CleanTable(table) :
    /\ disk' = [disk EXCEPT ![CleanPath] = u]
    /\ Proceed(c, [at |-> "hash", path |-> CleanPath, seen |-> u,
                   maps |-> [i \in DOMAIN dsCall[c].columns |->
                               [field |-> dsCall[c].columns[i].field, unit |-> dsCall[c].columns[i].unit]]])

\* The table is read after the hash, and may be another one by then: the answer then
\* gives the values of other columns the names of this mapping.
read_dataset_table(c) ==
  LET call == dsCall[c]
      table == disk[call.path]
      readable == table # NoTable /\ (call.op = "train" => Trainable(table, call.columns))
  IN  /\ call.at = "table" /\ call.op # "match"
      /\ \/ ~readable /\ Refuse(c) /\ UNCHANGED disk
         \/ readable /\ call.op # "clean" /\ Proceed(c, [at |-> "answered"]) /\ UNCHANGED disk
         \/ readable /\ call.op = "clean" /\ clean_steel_dataset(c, table)
      /\ UNCHANGED <<dataset, dsEdits>>

\* match_coil and query_production_data answer from whatever the file holds now.
match_coil(c) ==
  /\ dsCall[c].at = "table" /\ dsCall[c].op = "match"
  /\ IF disk[dsCall[c].path] = NoTable THEN Refuse(c) ELSE Proceed(c, [at |-> "answered"])
  /\ UNCHANGED <<disk, dataset, dsEdits>>

-----------------------------------------------------------------------------
DsNext ==
  \/ \E p \in DsPaths, t \in Tables \cup {NoTable} : EditSource(p, t)
  \/ \E c \in DsCallers, p \in DsPaths, maps \in DsMappings : PreviewSource(c, p, maps)
  \/ \E t \in Tables : activate_dataset(t)
  \/ \E c \in DsCallers :
       \/ HashSource(c) \/ save_preview(c) \/ list_columns(c) \/ read_dataset_table(c)
       \/ match_coil(c)
       \/ \E t \in Tables, op \in {"train", "match", "analyze", "clean"} : ReadRow(c, t, op)

DsSpec == DsInit /\ [][DsNext]_dsVars

(***************************************************************************)
(* Properties                                                              *)
(***************************************************************************)

\* A dataset that training accepts has a mapping that was activated as it stands: no
\* duplicate column, at least one canonical field, each of them once, and no unit
\* without one, however often the same source was saved, cleaned and activated
\* (save_preview, activate, clean_steel_dataset).
ReadyIsUsable ==
  \A t \in Tables : IsSaved(t) /\ dataset[t].state = "ready" =>
    LET columns == dataset[t].columns
    IN  /\ Activatable(columns)
        /\ \A i, j \in DOMAIN columns :
             i # j /\ columns[i].field # NoField => columns[i].field # columns[j].field

=============================================================================
