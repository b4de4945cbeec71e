---------------------------- MODULE MCKnowledge ----------------------------
(***************************************************************************)
(* Instances of the knowledge modules for TLC.  The modules share no       *)
(* state, so one run checks them side by side: `part' is the one that      *)
(* moves in a behaviour, the others stay in one initial state.             *)
(***************************************************************************)
EXTENDS PgIngestion, KnowledgeConnection, MinerUPipeline, LocalKnowledge, TLC

CONSTANTS b1, b2, b3, s1, s2

VARIABLE part

MCPgBases == {b1, b2, b3}
MCPgShas == {s1, s2}

\* Knowledge bases and contents are interchangeable.
Interchangeable == Permutations(MCPgBases) \cup Permutations(MCPgShas)

\* Two jobs share two tasks; three tasks, and tasks that lose writes, belong to
\* one job and its retries.
PgBound ==
    tasks'[PgMaxTasks] # Idle \/ pgused'.lost > 0 => jobs'[PgMaxJobs].state = "none"

MCInit ==
    /\ part \in {"pg", "connection", "mineru", "local"}
    /\ PgInit /\ ConnInit /\ MuInit /\ LkInit
    /\ part # "pg" => base = [b \in PgBases |-> "private"]
    /\ part # "mineru" => mode = "remote"

MCNext ==
    /\ UNCHANGED part
    /\ \/ /\ part = "pg" /\ PgNext /\ PgBound
          /\ UNCHANGED <<connVars, muVars, lkVars>>
       \/ /\ part = "connection" /\ ConnNext
          /\ UNCHANGED <<pgVars, muVars, lkVars>>
       \/ /\ part = "mineru" /\ MuNext
          /\ UNCHANGED <<pgVars, connVars, lkVars>>
       \/ /\ part = "local" /\ LkNext
          /\ UNCHANGED <<pgVars, connVars, muVars>>

MCSpec == MCInit /\ [][MCNext]_<<part, pgVars, connVars, muVars, lkVars>>
=============================================================================
