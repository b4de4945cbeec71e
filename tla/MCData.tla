------------------------------- MODULE MCData -------------------------------
(***************************************************************************)
(* Instances of the modules of local data, computation, retrieval, the     *)
(* Wiki and backups for TLC.  As in MCServices, `part' is the one that     *)
(* moves in a behaviour.                                                   *)
(***************************************************************************)
EXTENDS SteelDatasets, SteelCompute, LocalIndex, KnowledgeSearch, KnowledgeWiki,
        BackupRestore

VARIABLE part

MCTables == {[heads |-> <<"x", "y">>, data |-> 1], [heads |-> <<"x", "x">>, data |-> 1]}
As(field, unit) == [field |-> field, unit |-> unit]
MCMappings ==
    {<<As("f", TRUE), As("g", FALSE)>>, <<As("f", TRUE), As("f", TRUE)>>,
     <<As(NoField, FALSE), As(NoField, TRUE)>>, <<>>}

MCSlugs == {"p1", "p2"}
MCWikiTexts == {{"p1"}, {"p2"}}

SearchAtRest ==
    sePrefs = [strict |-> FALSE, threshold |-> FALSE] /\ seProfile = "none"

\* A crash or an I/O error meets rebuilds that take turns.
IxBound == overlapped' => ixFaults' = 0

MCPkgSources ==
    {<<"1.0.0", "other">>, <<"2.0.0", "other">>, <<"2.0.0", "invalid">>,
     <<"2.0.0", "undeclared">>, <<"2.0.0", "forged">>}

\* The commands of packages and the tasks that store documents have no state in
\* common: they take turns, and documents meet one version of the package.
TakeTurns ==
    /\ command'.op \in {"install", "remove", "steel"} \/ misled' # {}
         => importing' = NotImporting
    /\ content'["objects"] # {} => \A v \in PkgVersions \ {Bundled} : files'[v] = "none"

Parts == {"dataset", "compute", "index", "search", "wiki", "backup"}

MCInit ==
    /\ part \in Parts
    /\ DsInit /\ ScInit /\ IxInit /\ SeInit /\ WikiInit /\ BrInit
    /\ part # "dataset" => disk = [p \in DsPaths \cup {CleanPath} |-> NoTable]
    /\ part # "search" => SearchAtRest

\* All but the moving part stay as they are.
Still(moving) ==
    /\ moving # "dataset" => UNCHANGED dsVars
    /\ moving # "compute" => UNCHANGED scVars
    /\ moving # "index" => UNCHANGED ixVars
    /\ moving # "search" => UNCHANGED seVars
    /\ moving # "wiki" => UNCHANGED wikiVars
    /\ moving # "backup" => UNCHANGED brVars

MCNext ==
    /\ UNCHANGED part /\ Still(part)
    /\ \/ part = "dataset" /\ DsNext
       \/ part = "compute" /\ ScNext
       \/ part = "index" /\ IxNext /\ IxBound
       \/ part = "search" /\ SeNext
       \/ part = "wiki" /\ WikiNext
       \/ part = "backup" /\ BrNext /\ TakeTurns

mcVars ==
    <<part, dsVars, scVars, ixVars, seVars, wikiVars, brVars>>

MCSpec == MCInit /\ [][MCNext]_mcVars
=============================================================================
