-------------------------- MODULE KnowledgeProofs --------------------------
(***************************************************************************)
(* The knowledge bases, for every number of configurations, bases,         *)
(* documents, jobs, tasks, commands and failures: one section for each     *)
(* component's inductive invariant and the properties that follow from it. *)
(***************************************************************************)
EXTENDS KnowledgeConnection, PgIngestion, LocalKnowledge, WellFoundedInduction, TLAPS

-----------------------------------------------------------------------------
(***************************************************************************)
(* The connection: StoredPairFits. What stands in the four places depends  *)
(* on how far the command has come; Halfway says it for every step, as     *)
(* long as the failures the property excludes have not happened.           *)
(***************************************************************************)

Steps == {"idle", "backup config", "backup password", "set password", "set config",
          "clear config backup", "clear and connect", "drop password backup",
          "drop password and connect", "restore config", "restore password"}

FaultKinds == {"setting", "secret", "exit", "configure"}

Places == Configs \cup {Unset}

ConnTypeOK ==
    /\ config \in Places /\ configBackup \in Places
    /\ password \in Places /\ passwordBackup \in Places
    /\ connCommand \in [at : Steps, new : Places, first : BOOLEAN, saved : Places]
    /\ connFaults \in [FaultKinds -> Nat]

\* The failures StoredPairFits allows.
Mild == connFaults["secret"] = 0 /\ connFaults["exit"] = 0 /\ connFaults["setting"] <= 1

At(steps) == connCommand.at \in steps

Halfway ==
    /\ At({"idle", "backup config", "backup password", "set password", "clear config backup",
           "clear and connect", "drop password backup", "drop password and connect"})
          => config = password
    /\ At({"idle", "backup config", "set password", "set config", "clear config backup",
           "clear and connect", "restore config"}) => configBackup = passwordBackup
    /\ At({"backup password"}) =>
          IF passwordBackup = Unset THEN configBackup = config ELSE configBackup = passwordBackup
    /\ At({"set config"}) => password = connCommand.new
    /\ At({"restore config"}) /\ connFaults["setting"] = 0 => config = password
    /\ At({"restore password"}) => config = connCommand.saved
    /\ At({"drop password backup", "drop password and connect", "restore password"})
          => configBackup = Unset

\* A failure is counted under its own kind.
LEMMA FaultCounted ==
    ASSUME NEW kind \in FaultKinds, NEW limit, connFaults \in [FaultKinds -> Nat],
           ConnFault(kind, limit)
    PROVE  /\ connFaults' \in [FaultKinds -> Nat]
           /\ connFaults'[kind] = connFaults[kind] + 1
           /\ \A k \in FaultKinds \ {kind} : connFaults'[k] = connFaults[k]
  BY DEF ConnFault

\* A failure of the secret store, or an exit, is one the property excludes.
LEMMA GraveFault ==
    ASSUME NEW kind \in {"secret", "exit"}, NEW limit, connFaults \in [FaultKinds -> Nat],
           ConnFault(kind, limit)
    PROVE  ~Mild'
<1>1. kind \in FaultKinds BY DEF FaultKinds
<1>2. connFaults'[kind] = connFaults[kind] + 1 BY <1>1, FaultCounted
<1>3. connFaults[kind] \in Nat BY <1>1
<1> QED BY <1>2, <1>3 DEF Mild

\* The one tolerated failure of a settings write comes after none.
LEMMA MildFault ==
    ASSUME NEW limit, connFaults \in [FaultKinds -> Nat], ConnFault("setting", limit), Mild'
    PROVE  connFaults["setting"] = 0 /\ connFaults'["setting"] # 0 /\ Mild
<1>1. FaultKinds = {"setting", "secret", "exit", "configure"} BY DEF FaultKinds
<1>2. /\ connFaults'["setting"] = connFaults["setting"] + 1
      /\ connFaults'["secret"] = connFaults["secret"]
      /\ connFaults'["exit"] = connFaults["exit"]
  BY <1>1, FaultCounted
<1>3. connFaults["setting"] \in Nat BY <1>1
<1> QED BY <1>2, <1>3 DEF Mild

\* Every variable keeps its type, whatever fails on the way.
THEOREM ConnTypeCorrect == ConnSpec => []ConnTypeOK
<1>1. ConnInit => ConnTypeOK
  BY DEF ConnInit, ConnTypeOK, FaultKinds, Places, Steps, NoConnCommand
<1>2. ConnTypeOK /\ [ConnNext]_connVars => ConnTypeOK'
  <2> SUFFICES ASSUME ConnTypeOK, [ConnNext]_connVars PROVE ConnTypeOK'
    OBVIOUS
  <2> USE DEF ConnTypeOK, Places, Steps, NoConnCommand, ConnGoto, ConnReturn
  <2>0. FaultKinds = {"setting", "secret", "exit", "configure"}
    BY DEF FaultKinds
  <2>1. ASSUME NEW c \in Configs, Configure(c) PROVE ConnTypeOK'
    BY <2>1, <2>0, FaultCounted DEF Configure
  <2>2. CASE BackupConfig BY <2>2 DEF BackupConfig
  <2>3. CASE BackupPassword BY <2>3 DEF BackupPassword
  <2>4. CASE SetPassword BY <2>4 DEF SetPassword
  <2>5. CASE SetConfig
    <3>1. CASE connCommand.first BY <2>5, <3>1 DEF SetConfig
    <3>2. CASE ~connCommand.first
      <4>1. connCommand' = NoConnCommand BY <2>5, <3>2, Zenon DEF SetConfig, ConnReturn
      <4>2. /\ config' = connCommand.new /\ connCommand.at = "set config"
            /\ UNCHANGED <<configBackup, password, passwordBackup, connFaults>>
        BY <2>5, Zenon DEF SetConfig
      <4> QED BY <4>1, <4>2
    <3> QED BY <3>1, <3>2
  <2>6. CASE SetConfigFails BY <2>6, <2>0, FaultCounted DEF SetConfigFails
  <2>7. CASE ClearConfigBackup BY <2>7 DEF ClearConfigBackup
  <2>8. CASE DropPasswordBackup BY <2>8 DEF DropPasswordBackup
  <2>9. CASE RestoreConfig BY <2>9 DEF RestoreConfig
  <2>10. CASE RestorePassword BY <2>10 DEF RestorePassword
  <2>11. ASSUME NEW works \in BOOLEAN, InitializeConnection(works) PROVE ConnTypeOK'
    BY <2>11 DEF InitializeConnection
  <2>12. CASE AutoInitialize BY <2>12 DEF AutoInitialize
  <2>13. CASE DisconnectPool BY <2>13 DEF DisconnectPool
  <2>14. CASE SecretFails BY <2>14, <2>0, FaultCounted DEF SecretFails
  <2>15. CASE SettingFails BY <2>15, <2>0, FaultCounted DEF SettingFails
  <2>16. CASE ConnExit BY <2>16, <2>0, FaultCounted DEF ConnExit
  <2>17. CASE UNCHANGED connVars BY <2>17 DEF connVars
  <2> QED
    BY <2>1, <2>2, <2>3, <2>4, <2>5, <2>6, <2>7, <2>8, <2>9, <2>10, <2>11, <2>12,
       <2>13, <2>14, <2>15, <2>16, <2>17 DEF ConnNext
<1> QED
  BY <1>1, <1>2, PTL DEF ConnSpec

\* While only the tolerated failures have happened, the four places hold what
\* the current step of the command expects of them.
THEOREM ConnHalfway == ConnSpec => [](Mild => Halfway)
<1>1. ConnInit => (Mild => Halfway)
  BY DEF ConnInit, Halfway, At, NoConnCommand
<1>2. ConnTypeOK /\ (Mild => Halfway) /\ [ConnNext]_connVars => (Mild => Halfway)'
  <2> SUFFICES ASSUME ConnTypeOK, Mild => Halfway, [ConnNext]_connVars, Mild' PROVE Halfway'
    OBVIOUS
  <2> USE DEF ConnTypeOK, Mild, Halfway, At, NoConnCommand, ConnGoto, ConnReturn
  <2>0. FaultKinds = {"setting", "secret", "exit", "configure"}
    BY DEF FaultKinds
  <2>1. ASSUME NEW c \in Configs, Configure(c) PROVE Halfway'
    BY <2>1, <2>0, FaultCounted DEF Configure
  <2>2. CASE BackupConfig BY <2>2 DEF BackupConfig
  <2>3. CASE BackupPassword BY <2>3 DEF BackupPassword
  <2>4. CASE SetPassword BY <2>4 DEF SetPassword
  <2>5. CASE SetConfig
    <3>1. CASE connCommand.first BY <2>5, <3>1 DEF SetConfig
    <3>2. CASE ~connCommand.first
      <4>1. connCommand' = NoConnCommand BY <2>5, <3>2, Zenon DEF SetConfig, ConnReturn
      <4>2. /\ config' = connCommand.new /\ connCommand.at = "set config"
            /\ UNCHANGED <<configBackup, password, passwordBackup, connFaults>>
        BY <2>5, Zenon DEF SetConfig
      <4> QED BY <4>1, <4>2
    <3> QED BY <3>1, <3>2
  <2>6. CASE SetConfigFails
    <3>1. ConnFault("setting", MaxSettingFaults) BY <2>6 DEF SetConfigFails
    <3>2. connFaults["setting"] = 0 /\ connFaults'["setting"] # 0 /\ Mild
      BY ONLY <3>1, MildFault, ConnTypeOK, Mild' DEF ConnTypeOK
    <3>3. Halfway BY <3>2
    <3> QED BY <2>6, <3>2, <3>3 DEF SetConfigFails
  <2>7. CASE ClearConfigBackup BY <2>7 DEF ClearConfigBackup
  <2>8. CASE DropPasswordBackup BY <2>8 DEF DropPasswordBackup
  <2>9. CASE RestoreConfig BY <2>9 DEF RestoreConfig
  <2>10. CASE RestorePassword BY <2>10 DEF RestorePassword
  <2>11. ASSUME NEW works \in BOOLEAN, InitializeConnection(works) PROVE Halfway'
    BY <2>11 DEF InitializeConnection
  <2>12. CASE AutoInitialize BY <2>12 DEF AutoInitialize
  <2>13. CASE DisconnectPool BY <2>13 DEF DisconnectPool
  <2>14. CASE SecretFails
    <3>1. ConnFault("secret", MaxSecretFaults) BY <2>14 DEF SecretFails
    <3> QED BY ONLY <3>1, GraveFault, ConnTypeOK, Mild' DEF ConnTypeOK
  <2>15. CASE SettingFails
    <3>1. ConnFault("setting", MaxSettingFaults) BY <2>15 DEF SettingFails
    <3>2. connFaults["setting"] = 0 /\ connFaults'["setting"] # 0 /\ Mild
      BY ONLY <3>1, MildFault, ConnTypeOK, Mild' DEF ConnTypeOK
    <3>3. Halfway BY <3>2
    <3> QED BY <2>15, <3>2, <3>3 DEF SettingFails
  <2>16. CASE ConnExit
    <3>1. ConnFault("exit", MaxExits) BY <2>16 DEF ConnExit
    <3> QED BY ONLY <3>1, GraveFault, ConnTypeOK, Mild' DEF ConnTypeOK
  <2>17. CASE UNCHANGED connVars BY <2>17 DEF connVars
  <2> QED
    BY <2>1, <2>2, <2>3, <2>4, <2>5, <2>6, <2>7, <2>8, <2>9, <2>10, <2>11, <2>12,
       <2>13, <2>14, <2>15, <2>16, <2>17 DEF ConnNext
<1> QED
  BY <1>1, <1>2, ConnTypeCorrect, PTL DEF ConnSpec

\* A stored configuration has its own password whenever no command is under
\* way, unless one of the failures the rollback cannot answer has happened.
THEOREM StoredPairAlwaysFits == ConnSpec => []StoredPairFits
<1>1. (Mild => Halfway) => StoredPairFits
  BY DEF Mild, Halfway, At, StoredPairFits, NoConnCommand
<1> QED
  BY <1>1, ConnHalfway, PTL

-----------------------------------------------------------------------------
(***************************************************************************)
(* PostgreSQL imports: ActiveVersionIsCurrent and ActiveJobIsAttended. A   *)
(* commit rewrites the row and the versions of one document together, and  *)
(* a document that is deleted in between is never visible again. A job is  *)
(* attended by a task that will yet write its state, or by one that failed *)
(* to twice: one that has returned writes no more, and one that recorded   *)
(* its failure owes no second record, so the induction counts neither.     *)
(***************************************************************************)

BaseIds == PgBases \cup {"none"}
Contents == PgShas \cup {"none"}
DocRefs == DocIds \cup {0}
JobStates == ActiveStates \cup {"none", "completed", "failed", "cancelled", "quarantined"}

Paths == [origin : {"none", "file"}, name : PgFiles \cup {"none"}]
           \cup [origin : {"store"}, name : PgShas]

DocRow == [exists : BOOLEAN, live : BOOLEAN, base : BaseIds, path : Paths, sha : Contents]
JobRow == [state : JobStates, base : BaseIds, doc : DocRefs, attempts : Nat]
TaskRow == [at : {"none", "spawned", "uploading", "parsing", "chunking", "indexing", "located",
                  "written", "embedding", "embedded", "returned", "erring", "waiting", "done",
                  "refused"},
            job : JobIds \cup {0}, retry : BOOLEAN, ok : BOOLEAN, path : Paths, sha : Contents,
            target : [kind : {"none", "duplicate", "reactivate", "update", "insert"},
                      doc : DocRefs],
            attempt : {"none", "running", "failed", "completed", "retrying", "quarantined"},
            lost : Nat]

\* The documents with their versions: a visible one has its content active.
DocsInv ==
  /\ docs \in [DocIds -> DocRow]
  /\ versions \in [DocIds -> [PgShas -> {"none", "active", "inactive"}]]
  /\ \A d \in DocIds : docs[d].live => docs[d].sha \in PgShas
  /\ ActiveVersionIsCurrent

\* An import reads a file there is, and has a content once it has read it.
TaskSound(x) ==
  /\ IF x.at = "none" THEN x.lost = 0 ELSE x.job \in JobIds
  /\ x.at \in {"spawned", "uploading"} => x.path.origin # "none"
  /\ x.at \in {"parsing", "chunking", "indexing", "located"} => x.sha \in PgShas

TasksInv ==
  /\ jobs \in [JobIds -> JobRow]
  /\ tasks \in [TaskIds -> TaskRow]
  /\ \A t \in TaskIds : TaskSound(tasks[t])
  /\ guards \in SUBSET TaskIds
  /\ \A t \in guards : tasks[t].at # "none"

Working == {"spawned", "uploading", "parsing", "chunking", "indexing", "located",
            "written", "embedding", "embedded", "waiting"}

\* A task that is at work, that has failed and owes its job more records than
\* it has lost, or that lost two of them.  One that has returned may write
\* nothing more, so it does not count: whoever made the job active since is
\* another one.
Cares(x, guarded) ==
  \/ x.at \in Working \/ x.at = "refused" \/ x.lost >= 2
  \/ x.at = "erring" /\ (guarded \/ x.lost >= 1)
  \/ x.at = "done" /\ guarded /\ x.lost >= 1

Attends(t, j) == tasks[t].job = j /\ Cares(tasks[t], t \in guards)

Attended ==
  pgpool = "up" => \A j \in JobIds : jobs[j].state \in ActiveStates =>
                      \E t \in TaskIds : Attends(t, j)

PgInv == DocsInv /\ TasksInv /\ Attended

-----------------------------------------------------------------------------
\* Every nonempty set of natural numbers has a least element.
LEMMA LeastExists ==
  ASSUME NEW S \in SUBSET Nat, S # {}
  PROVE  Least(S) \in S
<1>1. PICK m \in S : \A n \in S : <<n, m>> \notin OpToRel(<, Nat)
  BY NatLessThanWellFounded, WFMin, Zenon
<1>2. \A n \in S : ~(n < m) BY <1>1 DEF OpToRel
<1>3. \E i \in S : \A k \in S : i <= k BY <1>2
<1> QED BY <1>3 DEF Least

LEMMA FreshTask ==
  ASSUME FreshTasks # {}
  PROVE  Least(FreshTasks) \in TaskIds /\ tasks[Least(FreshTasks)].at = "none"
<1>1. FreshTasks \in SUBSET Nat
  BY PgBoundsAssumption DEF FreshTasks, TaskIds
<1>2. Least(FreshTasks) \in FreshTasks
  BY <1>1, LeastExists
<1> QED BY <1>2 DEF FreshTasks

LEMMA FreshJob ==
  ASSUME FreshJobs # {}
  PROVE  Least(FreshJobs) \in JobIds
<1>1. FreshJobs \in SUBSET Nat
  BY PgBoundsAssumption DEF FreshJobs, JobIds
<1>2. Least(FreshJobs) \in FreshJobs
  BY <1>1, LeastExists
<1> QED BY <1>2 DEF FreshJobs

LEMMA FreshDoc ==
  ASSUME FreshDocs # {}
  PROVE  Least(FreshDocs) \in DocIds
<1>1. FreshDocs \in SUBSET Nat
  BY PgBoundsAssumption DEF FreshDocs, DocIds
<1>2. Least(FreshDocs) \in FreshDocs
  BY <1>1, LeastExists
<1> QED BY <1>2 DEF FreshDocs

LEMMA DocsUndisturbed == DocsInv /\ UNCHANGED <<docs, versions>> => DocsInv'
  BY DEF DocsInv, ActiveVersionIsCurrent

LEMMA TasksUndisturbed ==
  TasksInv /\ Attended /\ UNCHANGED <<jobs, tasks, guards>> /\ (pgpool' = pgpool \/ pgpool' = "none")
    => TasksInv' /\ Attended'
  BY DEF TasksInv, Attended, Attends

\* One task goes on.  Its job is the only one it writes, and a task that will
\* write no more leaves its job in a state that waits for nobody.
LEMMA TaskGoesOn ==
  ASSUME TasksInv, Attended, NEW t \in TaskIds, NEW x \in TaskRow, TaskSound(x),
         tasks' = [tasks EXCEPT ![t] = x], x.job = tasks[t].job, x.at # "none",
         jobs' \in [JobIds -> JobRow],
         \A j \in JobIds \ {x.job} : jobs'[j].state = jobs[j].state,
         guards' \in SUBSET TaskIds, guards \ {t} \subseteq guards', guards' \subseteq guards \cup {t},
         \/ x.job \in JobIds => jobs'[x.job].state \notin ActiveStates
         \/ Cares(x, t \in guards')
         \/ pgpool = "none"
         \/ jobs' = jobs /\ ~Cares(tasks[t], t \in guards),
         pgpool' = pgpool
  PROVE  TasksInv' /\ Attended'
<1>1. tasks' \in [TaskIds -> TaskRow] /\ tasks'[t] = x /\ \A u \in TaskIds \ {t} : tasks'[u] = tasks[u]
  BY DEF TasksInv
<1>2. \A u \in TaskIds : TaskSound(tasks'[u])
  BY <1>1 DEF TasksInv
<1>3. \A u \in guards' : tasks'[u].at # "none"
  BY <1>1 DEF TasksInv
<1>4. TasksInv'
  BY <1>1, <1>2, <1>3 DEF TasksInv, TaskSound
<1>5. ASSUME pgpool' = "up", NEW j \in JobIds, jobs'[j].state \in ActiveStates
      PROVE  \E u \in TaskIds : Attends(u, j)'
  <2>1. CASE j = x.job /\ Cares(x, t \in guards')
    BY <1>1, <2>1 DEF Attends
  <2>2. CASE jobs'[j].state = jobs[j].state /\ (j # x.job \/ ~Cares(tasks[t], t \in guards))
    <3>1. PICK u \in TaskIds : Attends(u, j)
      BY <1>5, <2>2 DEF Attended
    <3>2. u # t
      BY <2>2, <3>1 DEF Attends
    <3>3. tasks'[u] = tasks[u] /\ (u \in guards' <=> u \in guards)
      BY <1>1, <3>2
    <3> QED BY <3>1, <3>3 DEF Attends, Cares
  <2> QED BY <1>5, <2>1, <2>2
<1>6. Attended'
  BY <1>5 DEF Attended
<1> QED BY <1>4, <1>6

\* The two ways a step writes a job.
LEMMA JobWritten ==
  ASSUME TasksInv, NEW j, NEW s \in JobStates, SetJob(j, s)
  PROVE  /\ jobs' \in [JobIds -> JobRow]
         /\ \A k \in JobIds \ {j} : jobs'[k].state = jobs[k].state
         /\ j \in JobIds => jobs'[j].state = s
  BY DEF TasksInv, SetJob, JobRow

LEMMA JobFinished ==
  ASSUME TasksInv, NEW t \in TaskIds, NEW d \in DocRefs, NEW step, FinishJob(t, d, step)
  PROVE  /\ jobs' \in [JobIds -> JobRow]
         /\ \A k \in JobIds \ {tasks[t].job} : jobs'[k].state = jobs[k].state
         /\ tasks[t].job \in JobIds => jobs'[tasks[t].job].state = "completed"
<1> DEFINE j == tasks[t].job
<1>1. jobs' = [jobs EXCEPT ![j].state = "completed", ![j].doc = d]
  BY DEF FinishJob
<1>2. j \in JobIds => [jobs[j] EXCEPT !.state = "completed", !.doc = d] \in JobRow
                      /\ [jobs[j] EXCEPT !.state = "completed", !.doc = d].state = "completed"
  BY DEF TasksInv, JobRow, JobStates
<1>3. jobs' = [jobs EXCEPT ![j] = [jobs[j] EXCEPT !.state = "completed", !.doc = d]]
  BY <1>1 DEF TasksInv
<1> QED BY <1>2, <1>3 DEF TasksInv

\* What a record of a failure, or of the outcome, writes to the task.
LEMMA FailureRecorded ==
  ASSUME TasksInv, Attended, NEW t \in TaskIds, tasks[t].at # "none",
         NEW step \in {"erring", "done", tasks[t].at}, RecordFailure(t, step),
         guards' \in SUBSET TaskIds, guards \ {t} \subseteq guards', guards' \subseteq guards \cup {t},
         pgpool' = pgpool
  PROVE  TasksInv' /\ Attended'
<1>0. tasks[t] \in TaskRow /\ TaskSound(tasks[t]) BY DEF TasksInv
<1> DEFINE x == [tasks[t] EXCEPT !.at = step, !.attempt = "failed", !.lost = 0]
<1>1. /\ x \in TaskRow /\ x.at = step /\ x.job = tasks[t].job /\ x.path = tasks[t].path
      /\ x.sha = tasks[t].sha
  BY <1>0 DEF TaskRow
<1>2. tasks' = [tasks EXCEPT ![t] = x]
  BY DEF RecordFailure, TasksInv
<1> HIDE DEF x
<1>3. TaskSound(x) BY <1>0, <1>1 DEF TaskSound
<1>4. "failed" \in JobStates /\ "failed" \notin ActiveStates BY DEF JobStates, ActiveStates
<1>5. /\ jobs' \in [JobIds -> JobRow]
      /\ \A k \in JobIds \ {x.job} : jobs'[k].state = jobs[k].state
      /\ x.job \in JobIds => jobs'[x.job].state \notin ActiveStates
  BY <1>1, <1>4, JobWritten DEF RecordFailure
<1>6. x.at # "none" BY <1>1
<1> QED BY <1>1, <1>2, <1>3, <1>5, <1>6, TaskGoesOn

\* A step of a task that leaves the documents alone, other than a failure.
LEMMA AdvanceKeeps ==
  ASSUME PgInv, NEW t \in TaskIds, Advance(t)
  PROVE  PgInv'
<1>0. tasks[t] \in TaskRow /\ TaskSound(tasks[t]) /\ tasks \in [TaskIds -> TaskRow] BY DEF PgInv, TasksInv
<1> DEFINE p == tasks[t].at
<1>1. p \in {"spawned", "uploading", "parsing", "chunking"} BY DEF Advance, NextStage
<1>2. PICK q \in {"uploading", "parsing", "chunking", "indexing"} : q = NextStage[p]
  BY <1>1 DEF NextStage
<1>3. PICK s \in IF p = "uploading" THEN Ingested(tasks[t].path) ELSE {tasks[t].sha} :
         tasks' = [tasks EXCEPT ![t].at = q, ![t].sha = s]
  BY <1>2 DEF Advance
<1>4. p = "uploading" => s \in PgShas
  <2>1. p = "uploading" => tasks[t].path \in Paths /\ tasks[t].path.origin # "none"
    BY <1>0 DEF TaskSound, TaskRow
  <2> QED BY <1>3, <2>1 DEF Ingested, Paths
<1>5. s \in Contents /\ (q \in {"parsing", "chunking", "indexing"} => s \in PgShas)
  BY <1>0, <1>1, <1>2, <1>3, <1>4 DEF TaskSound, TaskRow, Contents, NextStage
<1> DEFINE x == [tasks[t] EXCEPT !.at = q, !.sha = s]
<1>6. x \in TaskRow /\ x.at = q /\ x.sha = s /\ x.job = tasks[t].job /\ x.path = tasks[t].path
  BY <1>0, <1>5 DEF TaskRow
<1>7. tasks' = [tasks EXCEPT ![t] = x] BY <1>0, <1>3
<1> HIDE DEF x
<1>8. TaskSound(x) BY <1>0, <1>1, <1>2, <1>5, <1>6 DEF TaskSound, NextStage
<1>9. q \in JobStates BY DEF JobStates, ActiveStates
<1>10. SetJob(tasks[t].job, q) /\ UNCHANGED <<docs, versions, guards, pgpool>> BY <1>2 DEF Advance
<1>11. /\ jobs' \in [JobIds -> JobRow]
       /\ \A k \in JobIds \ {x.job} : jobs'[k].state = jobs[k].state
  BY <1>6, <1>9, <1>10, JobWritten DEF PgInv
<1>12. x.at # "none" /\ Cares(x, t \in guards') BY <1>6 DEF Cares, Working
<1>13. TasksInv' /\ Attended'
  BY <1>6, <1>7, <1>8, <1>10, <1>11, <1>12, TaskGoesOn DEF PgInv, TasksInv
<1> QED BY <1>10, <1>13, DocsUndisturbed DEF PgInv

LEMMA LocateKeeps ==
  ASSUME PgInv, NEW t \in TaskIds, Locate(t)
  PROVE  PgInv'
<1>0. tasks[t] \in TaskRow /\ TaskSound(tasks[t]) /\ tasks \in [TaskIds -> TaskRow]
  BY DEF PgInv, TasksInv
<1>1. PICK y \in Target(t) : tasks' = [tasks EXCEPT ![t].at = "located", ![t].target = y]
  BY DEF Locate
<1>2. y \in [kind : {"none", "duplicate", "reactivate", "update", "insert"}, doc : DocRefs]
  BY <1>1 DEF Target, DocRefs
<1> DEFINE x == [tasks[t] EXCEPT !.at = "located", !.target = y]
<1>3. x \in TaskRow /\ x.at = "located" /\ x.sha = tasks[t].sha /\ x.job = tasks[t].job
  BY <1>0, <1>2 DEF TaskRow
<1>4. tasks' = [tasks EXCEPT ![t] = x] BY <1>0, <1>1
<1> HIDE DEF x
<1>5. TaskSound(x) BY <1>0, <1>3 DEF TaskSound, Locate
<1>6. UNCHANGED <<docs, versions, jobs, guards, pgpool>> BY DEF Locate
<1>c. Cares(x, t \in guards') BY <1>3 DEF Cares, Working
<1>7. TasksInv' /\ Attended'
  BY <1>3, <1>4, <1>5, <1>6, <1>c, TaskGoesOn DEF PgInv, TasksInv
<1> QED BY <1>6, <1>7, DocsUndisturbed DEF PgInv

\* The commit of an indexing transaction, as far as jobs and tasks go.
LEMMA FinishKeeps ==
  ASSUME TasksInv, Attended, NEW t \in TaskIds, NEW d \in DocRefs,
         NEW step \in {"returned", "written"}, FinishJob(t, d, step), tasks[t].at # "none",
         UNCHANGED <<guards, pgpool>>
  PROVE  TasksInv' /\ Attended'
<1>0. tasks[t] \in TaskRow /\ TaskSound(tasks[t]) /\ tasks \in [TaskIds -> TaskRow]
  BY DEF TasksInv
<1>1. PICK y \in [kind : {"none", "duplicate", "reactivate", "update", "insert"}, doc : DocRefs] :
         y = [tasks[t].target EXCEPT !.doc = d]
  BY <1>0 DEF TaskRow
<1> DEFINE x == [tasks[t] EXCEPT !.at = step, !.attempt = "completed", !.target = y]
<1>2. x \in TaskRow /\ x.at = step /\ x.job = tasks[t].job
  BY <1>0 DEF TaskRow
<1>3. tasks' = [tasks EXCEPT ![t].at = step, ![t].attempt = "completed", ![t].target.doc = d]
  BY DEF FinishJob
<1>4. tasks' = [tasks EXCEPT ![t] = x] BY <1>0, <1>1, <1>3
<1> HIDE DEF x
<1>5. TaskSound(x) BY <1>0, <1>2 DEF TaskSound
<1>6. /\ jobs' \in [JobIds -> JobRow]
      /\ \A k \in JobIds \ {x.job} : jobs'[k].state = jobs[k].state
      /\ x.job \in JobIds => jobs'[x.job].state \notin ActiveStates
  BY <1>2, JobFinished DEF ActiveStates
<1>7. x.at # "none" BY <1>2
<1> QED BY <1>2, <1>4, <1>5, <1>6, <1>7, TaskGoesOn DEF TasksInv

\* The version of content s becomes the only active one of its document.
LEMMA Activated ==
  ASSUME versions \in [DocIds -> [PgShas -> {"none", "active", "inactive"}]],
         NEW d, NEW s \in PgShas, Activate(d, s)
  PROVE  /\ versions' \in [DocIds -> [PgShas -> {"none", "active", "inactive"}]]
         /\ \A e \in DocIds \ {d} : versions'[e] = versions[e]
         /\ d \in DocIds => {z \in PgShas : versions'[d][z] = "active"} = {s}
<1> DEFINE f == [x \in PgShas |-> IF x = s THEN "active"
                          ELSE IF versions[d][x] = "active" THEN "inactive" ELSE versions[d][x]]
<1>1. versions' = [versions EXCEPT ![d] = f] BY DEF Activate
<1>2. d \in DocIds => f \in [PgShas -> {"none", "active", "inactive"}]
  OBVIOUS
<1>3. {z \in PgShas : f[z] = "active"} = {s}
  OBVIOUS
<1> HIDE DEF f
<1> QED BY <1>1, <1>2, <1>3

LEMMA RewriteKeeps ==
  ASSUME DocsInv, NEW d, NEW s \in PgShas, Rewrite(d, s), Activate(d, s)
  PROVE  DocsInv'
<1>1. /\ docs \in [DocIds -> DocRow]
      /\ versions \in [DocIds -> [PgShas -> {"none", "active", "inactive"}]]
  BY DEF DocsInv
<1>2. /\ versions' \in [DocIds -> [PgShas -> {"none", "active", "inactive"}]]
      /\ \A e \in DocIds \ {d} : versions'[e] = versions[e]
      /\ d \in DocIds => {z \in PgShas : versions'[d][z] = "active"} = {s}
  BY <1>1, Activated
<1>3. PICK c : c = IF docs[d].live THEN s ELSE docs[d].sha OBVIOUS
<1>4. docs' = [docs EXCEPT ![d].sha = c] BY <1>3 DEF Rewrite
<1>5. d \in DocIds => c \in Contents BY <1>1, <1>3 DEF DocRow, Contents
<1>6. /\ docs' \in [DocIds -> DocRow]
      /\ \A e \in DocIds : docs'[e].live = docs[e].live
      /\ \A e \in DocIds \ {d} : docs'[e] = docs[e]
      /\ d \in DocIds => docs'[d].sha = c
  BY <1>1, <1>4, <1>5 DEF DocRow
<1>7. ASSUME NEW e \in DocIds, docs'[e].live
      PROVE  docs'[e].sha \in PgShas /\ {z \in PgShas : versions'[e][z] = "active"} = {docs'[e].sha}
  <2>1. CASE e = d
    <3>1. docs'[d].sha = s BY <1>3, <1>6, <1>7, <2>1
    <3> QED BY <1>2, <2>1, <3>1
  <2>2. CASE e # d
    BY <1>2, <1>6, <1>7, <2>2 DEF DocsInv, ActiveVersionIsCurrent
  <2> QED BY <2>1, <2>2
<1> QED BY <1>2, <1>6, <1>7 DEF DocsInv, ActiveVersionIsCurrent

\* The commits of an import.
LEMMA CommitKeeps ==
  ASSUME PgInv, NEW t \in TaskIds,
         CommitDuplicate(t) \/ CommitReactivate(t) \/ CommitUpdate(t) \/ CommitInsert(t)
  PROVE  PgInv'
<1>0. tasks[t] \in TaskRow /\ TaskSound(tasks[t]) BY DEF PgInv, TasksInv
<1> DEFINE s == tasks[t].sha
           d == tasks[t].target.doc
<1>1. tasks[t].at = "located" /\ s \in PgShas /\ d \in DocRefs /\ UNCHANGED <<guards, pgpool>>
  BY <1>0 DEF CommitDuplicate, CommitReactivate, CommitUpdate, CommitInsert, TaskSound, TaskRow
<1>2. CASE CommitDuplicate(t)
  <2>1. FinishJob(t, d, "returned") /\ UNCHANGED <<docs, versions>> BY <1>2 DEF CommitDuplicate
  <2> QED BY <1>1, <2>1, FinishKeeps, DocsUndisturbed DEF PgInv
<1>3. CASE CommitReactivate(t)
  <2>1. FinishJob(t, d, "returned") /\ Rewrite(d, s) /\ Activate(d, s) BY <1>3 DEF CommitReactivate
  <2>2. DocsInv' BY <1>1, <2>1, RewriteKeeps DEF PgInv
  <2> QED BY <1>1, <2>1, <2>2, FinishKeeps DEF PgInv
<1>4. CASE CommitUpdate(t)
  <2>1. FinishJob(t, d, "written") /\ Rewrite(d, s) /\ Activate(d, s) BY <1>4 DEF CommitUpdate
  <2>2. DocsInv' BY <1>1, <2>1, RewriteKeeps DEF PgInv
  <2> QED BY <1>1, <2>1, <2>2, FinishKeeps DEF PgInv
<1>5. CASE CommitInsert(t)
  <2> DEFINE b == jobs[tasks[t].job].base
  <2>1. PICK e : e = Least(FreshDocs) OBVIOUS
  <2>2. /\ FreshDocs # {}
        /\ docs' = [docs EXCEPT ![e] = [exists |-> TRUE, live |-> TRUE, base |-> b,
                                        path |-> tasks[t].path, sha |-> s]]
        /\ Activate(e, s) /\ FinishJob(t, e, "written")
    BY <1>5, <2>1 DEF CommitInsert
  <2>3. e \in DocIds /\ e \in DocRefs BY <2>1, <2>2, FreshDoc DEF DocRefs
  <2>4. /\ docs \in [DocIds -> DocRow]
        /\ versions \in [DocIds -> [PgShas -> {"none", "active", "inactive"}]]
    BY DEF PgInv, DocsInv
  <2>5. /\ versions' \in [DocIds -> [PgShas -> {"none", "active", "inactive"}]]
        /\ \A z \in DocIds \ {e} : versions'[z] = versions[z]
        /\ {z \in PgShas : versions'[e][z] = "active"} = {s}
    BY <1>1, <2>2, <2>3, <2>4, Activated
  <2>6. tasks[t].job \in JobIds /\ b \in BaseIds
    BY <1>0, <1>1 DEF TaskSound, PgInv, TasksInv, JobRow
  <2> DEFINE new == [exists |-> TRUE, live |-> TRUE, base |-> b, path |-> tasks[t].path, sha |-> s]
  <2>7. new \in DocRow /\ new.live /\ new.sha = s
    BY <1>0, <1>1, <2>6 DEF DocRow, TaskRow, Contents
  <2>8. docs' = [docs EXCEPT ![e] = new] BY <2>2
  <2> HIDE DEF new
  <2>9. docs' \in [DocIds -> DocRow] BY <2>4, <2>7, <2>8
  <2>10. ASSUME NEW z \in DocIds, docs'[z].live
         PROVE  docs'[z].sha \in PgShas /\ {v \in PgShas : versions'[z][v] = "active"} = {docs'[z].sha}
    <3>1. CASE z = e BY <1>1, <2>3, <2>4, <2>5, <2>7, <2>8, <3>1
    <3>2. CASE z # e
      <4>1. docs'[z] = docs[z] /\ versions'[z] = versions[z] BY <2>4, <2>5, <2>8, <3>2
      <4> QED BY <2>10, <4>1 DEF PgInv, DocsInv, ActiveVersionIsCurrent
    <3> QED BY <3>1, <3>2
  <2>11. DocsInv' BY <2>5, <2>9, <2>10 DEF DocsInv, ActiveVersionIsCurrent
  <2> QED BY <1>1, <2>2, <2>3, <2>11, FinishKeeps DEF PgInv
<1> QED BY <1>2, <1>3, <1>4, <1>5

\* A task whose next state is x and whose job is set to s.
LEMMA StageKeeps ==
  ASSUME PgInv, NEW t \in TaskIds, tasks[t].at # "none", NEW a, NEW s \in JobStates,
         a \in {"embedding", "returned"},
         tasks' = [tasks EXCEPT ![t].at = a], SetJob(tasks[t].job, s),
         s \notin ActiveStates \/ a = "embedding",
         UNCHANGED <<docs, versions, guards, pgpool>>
  PROVE  PgInv'
<1>0. tasks[t] \in TaskRow /\ TaskSound(tasks[t]) /\ tasks \in [TaskIds -> TaskRow]
  BY DEF PgInv, TasksInv
<1> DEFINE x == [tasks[t] EXCEPT !.at = a]
<1>1. x \in TaskRow /\ x.at = a /\ x.job = tasks[t].job BY <1>0 DEF TaskRow
<1>2. tasks' = [tasks EXCEPT ![t] = x] BY <1>0
<1> HIDE DEF x
<1>3. TaskSound(x) BY <1>0, <1>1 DEF TaskSound
<1>4. /\ jobs' \in [JobIds -> JobRow]
      /\ \A k \in JobIds \ {x.job} : jobs'[k].state = jobs[k].state
      /\ x.job \in JobIds => jobs'[x.job].state = s
  BY <1>1, JobWritten DEF PgInv
<1>c. a = "embedding" => Cares(x, t \in guards') BY <1>1 DEF Cares, Working
<1>5. TasksInv' /\ Attended'
  BY <1>1, <1>2, <1>3, <1>4, <1>c, TaskGoesOn DEF PgInv, TasksInv
<1> QED BY <1>5, DocsUndisturbed DEF PgInv

\* A task goes on and leaves its job as it is.
LEMMA MoveKeeps ==
  ASSUME PgInv, NEW t \in TaskIds, tasks[t].at # "none", NEW a,
         \/ a = "erring" /\ t \in guards'
         \/ a \in {"embedded", "refused"}
         \/ a = "done" /\ tasks[t].at = "returned"
         \/ a = "spawned" /\ tasks[t].path.origin # "none",
         tasks' = [tasks EXCEPT ![t].at = a], guards' = guards \/ guards' = guards \cup {t},
         UNCHANGED <<docs, versions, jobs, pgpool>>
  PROVE  PgInv'
<1>0. tasks[t] \in TaskRow /\ TaskSound(tasks[t]) /\ tasks \in [TaskIds -> TaskRow]
  BY DEF PgInv, TasksInv
<1> DEFINE x == [tasks[t] EXCEPT !.at = a]
<1>1. /\ x \in TaskRow /\ x.at = a /\ x.job = tasks[t].job /\ x.path = tasks[t].path
      /\ x.lost = tasks[t].lost
  BY <1>0 DEF TaskRow
<1>2. tasks' = [tasks EXCEPT ![t] = x] BY <1>0
<1> HIDE DEF x
<1>3. TaskSound(x) /\ x.at # "none" BY <1>0, <1>1 DEF TaskSound
<1>c. Cares(x, t \in guards') \/ ~Cares(tasks[t], t \in guards)
  BY <1>1 DEF Cares, Working
<1>4. TasksInv' /\ Attended'
  BY <1>1, <1>2, <1>3, <1>c, TaskGoesOn DEF PgInv, TasksInv
<1> QED BY <1>4, DocsUndisturbed DEF PgInv

\* A task loses n records: it still owes one, or it has lost two, or it had
\* nothing to write before.
LEMMA LossKeeps ==
  ASSUME PgInv, NEW t \in TaskIds, tasks[t].at # "none", NEW n \in {1, 2}, NEW step,
         Loses(t, step, n), UNCHANGED <<docs, versions, pgpool>>,
         \/ step \in {"erring", "refused"} /\ guards' = guards
         \/ step = "done" /\ tasks[t].at \in {"erring", "returned"} /\ guards' = guards
         \/ step = tasks[t].at /\ t \in guards /\ guards' = guards \ {t}
  PROVE  PgInv'
<1>0. /\ tasks[t] \in TaskRow /\ TaskSound(tasks[t]) /\ tasks \in [TaskIds -> TaskRow]
      /\ tasks[t].lost \in Nat /\ guards \in SUBSET TaskIds
  BY DEF PgInv, TasksInv, TaskRow
<1>l. PICK m \in Nat : m = tasks[t].lost + n BY <1>0
<1>a. step \in {"erring", "refused", "done", tasks[t].at} /\ step # "none" OBVIOUS
<1> DEFINE x == [tasks[t] EXCEPT !.at = step, !.lost = m]
<1>1. /\ x \in TaskRow /\ x.at = step /\ x.job = tasks[t].job /\ x.path = tasks[t].path
      /\ x.sha = tasks[t].sha /\ x.lost = m
  BY <1>0, <1>a DEF TaskRow
<1>2. tasks' = [tasks EXCEPT ![t] = x] /\ jobs' = jobs BY <1>0, <1>l DEF Loses
<1> HIDE DEF x
<1>3. TaskSound(x) /\ x.at # "none" BY <1>0, <1>1, <1>a DEF TaskSound
<1>b. /\ m >= 1 /\ (tasks[t].lost >= 1 => m >= 2) /\ (tasks[t].lost >= 2 => m >= 2)
  BY <1>0, <1>l
<1>c. Cares(x, t \in guards') \/ ~Cares(tasks[t], t \in guards)
  <2>1. CASE step \in {"erring", "refused"} BY <1>1, <1>b, <2>1 DEF Cares, Working
  <2>2. CASE step = "done" /\ tasks[t].at \in {"erring", "returned"} /\ guards' = guards
    BY <1>1, <1>b, <2>2 DEF Cares, Working
  <2>3. CASE step = tasks[t].at /\ t \in guards /\ guards' = guards \ {t}
    BY <1>1, <1>b, <2>3 DEF Cares, Working
  <2> QED BY <2>1, <2>2, <2>3
<1>d. jobs' \in [JobIds -> JobRow] /\ \A j \in JobIds \ {x.job} : jobs'[j].state = jobs[j].state
  BY <1>2 DEF PgInv, TasksInv
<1>4. TasksInv' /\ Attended'
  BY <1>0, <1>1, <1>2, <1>3, <1>c, <1>d, TaskGoesOn DEF PgInv
<1> QED BY <1>4, DocsUndisturbed DEF PgInv

\* Every step of an import keeps the invariant.
LEMMA TaskStepKeeps ==
  ASSUME PgInv, PgTaskStep
  PROVE  PgInv'
<1>1. PICK t \in TaskIds :
        \/ Advance(t) \/ WorkFails(t) \/ ReadFails(t) \/ StageFails(t) \/ Locate(t)
        \/ CommitDuplicate(t) \/ CommitReactivate(t) \/ CommitUpdate(t) \/ CommitInsert(t)
        \/ IndexingFails(t) \/ GuardRecords(t) \/ AfterCommit(t)
        \/ Embed(t) \/ EmbedRefused(t) \/ SealManifest(t) \/ SealFails(t)
        \/ CloseTask(t) \/ SpawnRetry(t)
  BY DEF PgTaskStep
<1>2. TasksInv /\ Attended /\ guards \in SUBSET TaskIds BY DEF PgInv, TasksInv
<1>f. ASSUME NEW step \in {"erring", "done", tasks[t].at}, tasks[t].at # "none", RecordFailure(t, step),
             guards' = guards \/ guards' = guards \ {t}, UNCHANGED <<docs, versions, pgpool>>
      PROVE  PgInv'
  BY <1>2, <1>f, FailureRecorded, DocsUndisturbed DEF PgInv
<1>s. /\ "completed" \in JobStates /\ "completed" \notin ActiveStates /\ "embedding" \in JobStates
      /\ "failed" \in JobStates
  BY DEF JobStates, ActiveStates
<1>3. CASE Advance(t) BY <1>3, AdvanceKeeps
<1>4. CASE WorkFails(t) \/ ReadFails(t) \/ StageFails(t) \/ SealFails(t)
  <2>1. tasks[t].at # "none" /\ UNCHANGED <<docs, versions, guards, pgpool>>
    BY <1>4 DEF WorkFails, ReadFails, StageFails, SealFails, NextStage
  <2>2. RecordFailure(t, "erring") \/ Loses(t, "erring", 1) \/ Loses(t, "erring", 2)
    BY <1>4 DEF WorkFails, ReadFails, StageFails, SealFails
  <2> QED BY <1>f, <2>1, <2>2, LossKeeps
<1>5. CASE Locate(t) BY <1>5, LocateKeeps
<1>6. CASE CommitDuplicate(t) \/ CommitReactivate(t) \/ CommitUpdate(t) \/ CommitInsert(t)
  BY <1>6, CommitKeeps
<1>7. CASE IndexingFails(t)
  <2>1. /\ tasks[t].at # "none" /\ guards' = guards \cup {t}
        /\ tasks' = [tasks EXCEPT ![t].at = "erring"] /\ UNCHANGED <<docs, versions, jobs, pgpool>>
    BY <1>7 DEF IndexingFails
  <2> QED BY <2>1, MoveKeeps
<1>8. CASE GuardRecords(t)
  <2>1. tasks[t].at # "none" BY <1>8 DEF GuardRecords, PgInv, TasksInv
  <2>2. /\ t \in guards /\ guards' = guards \ {t} /\ UNCHANGED <<docs, versions, pgpool>>
        /\ RecordFailure(t, tasks[t].at) \/ Loses(t, tasks[t].at, 1)
    BY <1>8 DEF GuardRecords, Record
  <2>3. CASE RecordFailure(t, tasks[t].at) BY <1>f, <2>1, <2>2, <2>3
  <2>4. CASE Loses(t, tasks[t].at, 1) BY <2>1, <2>2, <2>4, LossKeeps
  <2> QED BY <2>2, <2>3, <2>4
<1>9. CASE AfterCommit(t)
  <2>1. tasks[t].at # "none" /\ UNCHANGED <<docs, versions, guards, pgpool>>
    BY <1>9 DEF AfterCommit
  <2>2. CASE PgEmbeds
    <3>1. SetJob(tasks[t].job, "embedding") /\ tasks' = [tasks EXCEPT ![t].at = "embedding"]
      BY <1>9, <2>2 DEF AfterCommit
    <3> QED BY <1>s, <2>1, <3>1, StageKeeps
  <2>3. CASE ~PgEmbeds
    <3>1. SetJob(tasks[t].job, "completed") /\ tasks' = [tasks EXCEPT ![t].at = "returned"]
      BY <1>9, <2>3 DEF AfterCommit
    <3> QED BY <1>s, <2>1, <3>1, StageKeeps
  <2> QED BY <2>2, <2>3
<1>10. CASE Embed(t)
  <2>1. /\ tasks[t].at # "none" /\ guards' = guards
        /\ tasks' = [tasks EXCEPT ![t].at = "embedded"] /\ UNCHANGED <<docs, versions, jobs, pgpool>>
    BY <1>10 DEF Embed
  <2> QED BY <2>1, MoveKeeps
<1>11. CASE EmbedRefused(t)
  <2>1. /\ tasks[t].at # "none" /\ UNCHANGED <<docs, versions, guards, pgpool>>
        /\ RecordFailure(t, "erring") \/ Loses(t, "erring", 1)
    BY <1>11 DEF EmbedRefused, Record
  <2> QED BY <1>f, <2>1, LossKeeps
<1>12. CASE SealManifest(t)
  <2>1. /\ tasks[t].at # "none" /\ UNCHANGED <<docs, versions, guards, pgpool>>
        /\ SetJob(tasks[t].job, "completed") /\ tasks' = [tasks EXCEPT ![t].at = "returned"]
    BY <1>12 DEF SealManifest
  <2> QED BY <1>s, <2>1, StageKeeps
<1>13. CASE CloseTask(t)
  <2>1. tasks[t].at # "none" /\ UNCHANGED <<docs, versions, guards, pgpool>>
    BY <1>13 DEF CloseTask
  <2>2. CASE RecordFailure(t, "done") BY <1>f, <2>1, <2>2
  <2>3. CASE /\ SetJob(tasks[t].job, "completed")
             /\ tasks' = [tasks EXCEPT ![t].at = "done", ![t].attempt = "completed"]
    <3>0. tasks[t] \in TaskRow /\ TaskSound(tasks[t]) /\ tasks \in [TaskIds -> TaskRow]
      BY <1>2 DEF TasksInv
    <3> DEFINE x == [tasks[t] EXCEPT !.at = "done", !.attempt = "completed"]
    <3>1. x \in TaskRow /\ x.at = "done" /\ x.job = tasks[t].job BY <3>0 DEF TaskRow
    <3>2. tasks' = [tasks EXCEPT ![t] = x] BY <2>3, <3>0
    <3> HIDE DEF x
    <3>3. TaskSound(x) BY <2>1, <3>0, <3>1 DEF TaskSound
    <3>4. /\ jobs' \in [JobIds -> JobRow]
          /\ \A k \in JobIds \ {x.job} : jobs'[k].state = jobs[k].state
          /\ x.job \in JobIds => jobs'[x.job].state \notin ActiveStates
      BY <1>2, <1>s, <2>3, <3>1, JobWritten
    <3>5. TasksInv' /\ Attended' BY <1>2, <2>1, <3>1, <3>2, <3>3, <3>4, TaskGoesOn
    <3> QED BY <2>1, <3>5, DocsUndisturbed DEF PgInv
  <2>4. CASE tasks[t].at = "returned" /\ tasks' = [tasks EXCEPT ![t].at = "done"] /\ UNCHANGED jobs
    BY <2>1, <2>4, MoveKeeps
  <2>5. CASE Loses(t, "done", 1) /\ tasks[t].at \in {"erring", "returned"}
    BY <2>1, <2>5, LossKeeps
  <2> QED BY <1>13, <2>2, <2>3, <2>4, <2>5 DEF CloseTask, Record
<1>14. CASE SpawnRetry(t)
  <2>1. tasks[t].at # "none" /\ UNCHANGED <<docs, versions, guards, pgpool>>
    BY <1>14 DEF SpawnRetry
  <2>2. CASE RecordFailure(t, "done") BY <1>f, <2>1, <2>2
  <2>3. CASE tasks' = [tasks EXCEPT ![t].at = "refused"] /\ UNCHANGED jobs
    BY <2>1, <2>3, MoveKeeps
  <2>5. CASE Loses(t, "refused", 1) BY <2>1, <2>5, LossKeeps
  <2>4. CASE tasks[t].path.origin # "none" /\ tasks' = [tasks EXCEPT ![t].at = "spawned"] /\ UNCHANGED jobs
    BY <2>1, <2>4, MoveKeeps
  <2> QED BY <1>14, <2>2, <2>3, <2>4, <2>5 DEF SpawnRetry
<1> QED
  BY <1>1, <1>3, <1>4, <1>5, <1>6, <1>7, <1>8, <1>9, <1>10, <1>11, <1>12, <1>13, <1>14

-----------------------------------------------------------------------------
\* A new task, for a job that is new or retried.
LEMMA TaskStarts ==
  ASSUME TasksInv, Attended, FreshTasks # {}, NEW t, t = Least(FreshTasks), NEW x \in TaskRow,
         TaskSound(x), x.at # "none", tasks' = [tasks EXCEPT ![t] = x],
         jobs' \in [JobIds -> JobRow],
         \A k \in JobIds \ {x.job} : jobs'[k].state = jobs[k].state,
         x.at \in Working \/ jobs'[x.job].state \notin ActiveStates,
         UNCHANGED <<guards, pgpool>>
  PROVE  TasksInv' /\ Attended'
<1>1. t \in TaskIds /\ tasks[t].at = "none" /\ t \notin guards
  BY FreshTask DEF TasksInv
<1>2. tasks' \in [TaskIds -> TaskRow] /\ tasks'[t] = x /\ \A u \in TaskIds \ {t} : tasks'[u] = tasks[u]
  BY <1>1 DEF TasksInv
<1>3. \A u \in TaskIds : TaskSound(tasks'[u]) BY <1>2 DEF TasksInv
<1>4. TasksInv' BY <1>1, <1>2, <1>3 DEF TasksInv, TaskSound
<1>5. ASSUME pgpool' = "up", NEW j \in JobIds, jobs'[j].state \in ActiveStates
      PROVE  \E u \in TaskIds : Attends(u, j)'
  <2>1. CASE j = x.job BY <1>1, <1>2, <1>5, <2>1 DEF Attends, Cares
  <2>2. CASE j # x.job
    <3>1. PICK u \in TaskIds : Attends(u, j) BY <1>5, <2>2 DEF Attended
    <3>2. tasks[t].lost = 0 BY <1>1 DEF TasksInv, TaskSound
    <3>3. u # t BY <1>1, <3>1, <3>2 DEF Attends, Cares, Working
    <3> QED BY <1>2, <3>1, <3>3 DEF Attends, Cares
  <2> QED BY <2>1, <2>2
<1>6. Attended' BY <1>5 DEF Attended
<1> QED BY <1>4, <1>6

LEMMA QueueKeeps ==
  ASSUME PgInv, NEW b \in BaseIds, NEW p \in Paths, p.origin # "none", CreateImportJob(b, p),
         UNCHANGED <<docs, versions, guards, pgpool>>
  PROVE  PgInv'
<1>1. PICK j, t : j = Least(FreshJobs) /\ t = Least(FreshTasks) OBVIOUS
<1>2. /\ FreshJobs # {} /\ FreshTasks # {}
      /\ jobs' = [jobs EXCEPT ![j] = [state |-> "queued", base |-> b, doc |-> 0, attempts |-> 1]]
      /\ tasks' = [tasks EXCEPT ![t] = [Idle EXCEPT !.at = "spawned",
                      !.job = j, !.path = p, !.attempt = "running"]]
  BY <1>1 DEF CreateImportJob
<1>3. j \in JobIds BY <1>1, <1>2, FreshJob
<1>4. [state |-> "queued", base |-> b, doc |-> 0, attempts |-> 1] \in JobRow
  BY DEF JobRow, JobStates, ActiveStates, DocRefs
<1>5. jobs' \in [JobIds -> JobRow] /\ \A k \in JobIds \ {j} : jobs'[k].state = jobs[k].state
  BY <1>2, <1>4 DEF PgInv, TasksInv
<1> DEFINE x == [Idle EXCEPT !.at = "spawned", !.job = j, !.path = p, !.attempt = "running"]
<1>6. x \in TaskRow /\ x.at = "spawned" /\ x.job = j /\ x.path = p /\ x.at \in Working
  BY <1>3 DEF Idle, NoTarget, TaskRow, Contents, DocRefs, Working
<1>7. tasks' = [tasks EXCEPT ![t] = x] BY <1>2
<1> HIDE DEF x
<1>8. TaskSound(x) BY <1>3, <1>6 DEF TaskSound
<1>9. TasksInv' /\ Attended'
  BY <1>1, <1>2, <1>5, <1>6, <1>7, <1>8, TaskStarts DEF PgInv
<1> QED BY <1>9, DocsUndisturbed DEF PgInv

LEMMA RetryKeeps ==
  ASSUME PgInv, NEW j \in JobIds, RetryJob(j)
  PROVE  PgInv'
<1>0. jobs[j] \in JobRow /\ jobs[j].doc \in DocRefs /\ jobs[j].attempts \in Nat
      /\ jobs \in [JobIds -> JobRow] /\ docs \in [DocIds -> DocRow]
  BY DEF PgInv, TasksInv, DocsInv, JobRow
<1>1. PICK t : t = Least(FreshTasks) OBVIOUS
<1>2. PICK n : n = jobs[j].attempts + 1 OBVIOUS
<1>3. PICK s \in {"quarantined", "retrying"} : s = IF n >= 3 THEN "quarantined" ELSE "retrying"
  OBVIOUS
<1>4. PICK a \in {"done", "waiting"} : a = IF n >= 3 THEN "done" ELSE "waiting"
  OBVIOUS
<1>5. PICK p \in Paths :
        p = IF jobs[j].doc # 0 /\ docs[jobs[j].doc].live THEN docs[jobs[j].doc].path ELSE Idle.path
  <2>1. Idle.path \in Paths BY DEF Idle, Paths
  <2>2. jobs[j].doc # 0 => docs[jobs[j].doc].path \in Paths BY <1>0 DEF DocRefs, DocRow
  <2> QED BY <2>1, <2>2
<1>6. PICK yes \in BOOLEAN : yes = TRUE OBVIOUS
<1>7. /\ FreshTasks # {} /\ UNCHANGED <<docs, versions, guards, pgpool>>
      /\ jobs' = [jobs EXCEPT ![j].attempts = n, ![j].state = s]
  BY <1>1, <1>2, <1>3 DEF RetryJob
<1>8. jobs' = [jobs EXCEPT ![j] = [jobs[j] EXCEPT !.attempts = n, !.state = s]]
  BY <1>0, <1>7
<1>9. /\ [jobs[j] EXCEPT !.attempts = n, !.state = s] \in JobRow
      /\ [jobs[j] EXCEPT !.attempts = n, !.state = s].state = s
  <2>1. n \in Nat /\ s \in JobStates BY <1>0, <1>2, <1>3 DEF JobStates, ActiveStates
  <2> QED BY <1>0, <2>1 DEF JobRow
<1>10. /\ jobs' \in [JobIds -> JobRow] /\ jobs'[j].state = s
       /\ \A k \in JobIds \ {j} : jobs'[k].state = jobs[k].state
  BY <1>0, <1>8, <1>9
<1> DEFINE x == [Idle EXCEPT !.job = j, !.retry = yes, !.at = a, !.path = p, !.attempt = s]
<1>11. tasks' = [tasks EXCEPT ![t] = [Idle EXCEPT !.job = j, !.retry = TRUE,
                         !.at = IF n >= 3 THEN "done" ELSE "waiting",
                         !.path = IF jobs[j].doc # 0 /\ docs[jobs[j].doc].live
                                  THEN docs[jobs[j].doc].path ELSE @,
                         !.attempt = jobs'[j].state]]
  BY <1>1, <1>2 DEF RetryJob
<1>12. tasks' = [tasks EXCEPT ![t] = x]
  BY <1>4, <1>5, <1>6, <1>10, <1>11 DEF Idle
<1>13. x \in TaskRow /\ x.at = a /\ x.job = j
  BY <1>3, <1>4, <1>5, <1>6 DEF Idle, NoTarget, TaskRow, Contents, DocRefs
<1> HIDE DEF x
<1>14. TaskSound(x) BY <1>13 DEF TaskSound
<1>15. a \in Working \/ s \notin ActiveStates BY <1>3, <1>4 DEF ActiveStates, Working
<1>w. x.at # "none" /\ (x.at \in Working \/ jobs'[x.job].state \notin ActiveStates)
  BY <1>4, <1>10, <1>13, <1>15
<1>16. TasksInv' /\ Attended'
  BY <1>1, <1>7, <1>10, <1>12, <1>13, <1>14, <1>w, TaskStarts DEF PgInv
<1> QED BY <1>7, <1>16, DocsUndisturbed DEF PgInv

\* Documents that are moved or deleted keep their content and their versions.
LEMMA CatalogueKeeps ==
  ASSUME DocsInv, versions' = versions, docs' \in [DocIds -> DocRow],
         \A d \in DocIds : docs'[d].sha = docs[d].sha /\ (docs'[d].live => docs[d].live)
  PROVE  DocsInv'
  BY DEF DocsInv, ActiveVersionIsCurrent

LEMMA MoveAllKeeps ==
  ASSUME DocsInv, NEW S, NEW b \in BaseIds, MoveAll(S, b), versions' = versions
  PROVE  DocsInv'
<1>1. docs' = [d \in DocIds |-> IF d \in S THEN [docs[d] EXCEPT !.base = b] ELSE docs[d]]
  BY DEF MoveAll
<1>2. ASSUME NEW d \in DocIds
      PROVE  /\ docs'[d] \in DocRow /\ docs'[d].sha = docs[d].sha /\ docs'[d].live = docs[d].live
  BY <1>1 DEF DocsInv, DocRow
<1> QED BY <1>1, <1>2, CatalogueKeeps

\* Every command of the user, a restart included, keeps the invariant.
LEMMA CommandKeeps ==
  ASSUME PgInv, PgCommandStep
  PROVE  PgInv'
<1>0. /\ docs \in [DocIds -> DocRow] /\ jobs \in [JobIds -> JobRow] /\ tasks \in [TaskIds -> TaskRow]
  BY DEF PgInv, DocsInv, TasksInv
<1>1. ASSUME NEW b \in PgBases, NEW f \in PgFiles, QueueImport(b, f) PROVE PgInv'
  <2>1. FilePath(f) \in Paths /\ FilePath(f).origin # "none" BY DEF FilePath, Paths
  <2> QED BY <1>1, <2>1, QueueKeeps DEF QueueImport, BaseIds
<1>2. ASSUME NEW d \in DocIds, QueueReparse(d) PROVE PgInv'
  <2>1. docs[d].sha \in PgShas /\ docs[d].base \in BaseIds
    BY <1>0, <1>2 DEF QueueReparse, PgInv, DocsInv, DocRow
  <2>2. StoredPath(docs[d].sha) \in Paths /\ StoredPath(docs[d].sha).origin # "none"
    BY <2>1 DEF StoredPath, Paths
  <2> QED BY <1>2, <2>1, <2>2, QueueKeeps DEF QueueReparse
<1>3. ASSUME NEW d \in DocIds, DeleteDocument(d) PROVE PgInv'
  <2>1. docs' = [docs EXCEPT ![d].live = FALSE] /\ UNCHANGED <<versions, jobs, tasks, guards, pgpool>>
    BY <1>3 DEF DeleteDocument
  <2>2. /\ docs' \in [DocIds -> DocRow]
        /\ \A e \in DocIds : docs'[e].sha = docs[e].sha /\ (docs'[e].live => docs[e].live)
    BY <1>0, <2>1 DEF DocRow
  <2> QED BY <2>1, <2>2, CatalogueKeeps, TasksUndisturbed DEF PgInv
<1>4. ASSUME NEW d \in DocIds, NEW b \in PgBases, MoveDocument(d, b) PROVE PgInv'
  BY <1>4, MoveAllKeeps, TasksUndisturbed DEF MoveDocument, PgInv, BaseIds
<1>5. ASSUME NEW j \in JobIds, RetryJob(j) PROVE PgInv' BY <1>5, RetryKeeps
<1>6. ASSUME NEW j \in JobIds, CancelJob(j) PROVE PgInv'
  <2>1. SetJob(j, "cancelled") /\ UNCHANGED <<docs, versions, tasks, guards, pgpool>>
    BY <1>6 DEF CancelJob
  <2>2. "cancelled" \in JobStates /\ "cancelled" \notin ActiveStates BY DEF JobStates, ActiveStates
  <2>3. /\ jobs' \in [JobIds -> JobRow] /\ jobs'[j].state \notin ActiveStates
        /\ \A k \in JobIds \ {j} : jobs'[k].state = jobs[k].state
    BY <2>1, <2>2, JobWritten DEF PgInv
  <2>4. TasksInv' BY <2>1, <2>3 DEF PgInv, TasksInv
  <2>5. Attended' BY <2>1, <2>3 DEF PgInv, Attended, Attends
  <2> QED BY <2>1, <2>4, <2>5, DocsUndisturbed DEF PgInv
<1>7. ASSUME NEW s \in PgBases, NEW t \in PgBases, NEW d \in PgBases, MergeBases(s, t, d) PROVE PgInv'
  <2>1. PICK S : MoveAll(S, d) BY <1>7 DEF MergeBases
  <2>2. DocsInv' BY <1>7, <2>1, MoveAllKeeps DEF MergeBases, PgInv, BaseIds
  <2> QED BY <1>7, <2>2, TasksUndisturbed DEF MergeBases, PgInv
<1>8. ASSUME NEW b \in PgBases, CreateBase(b) PROVE PgInv'
  BY <1>8, DocsUndisturbed, TasksUndisturbed DEF CreateBase, PgInv
<1>9. ASSUME NEW b \in PgBases, DeleteBase(b) PROVE PgInv'
  <2>1. /\ docs' = [d \in DocIds |-> IF docs[d].base = b
                                 THEN [docs[d] EXCEPT !.live = FALSE] ELSE docs[d]]
        /\ UNCHANGED <<versions, jobs, tasks, guards, pgpool>>
    BY <1>9 DEF DeleteBase
  <2>2. ASSUME NEW d \in DocIds
        PROVE  docs'[d] \in DocRow /\ docs'[d].sha = docs[d].sha /\ (docs'[d].live => docs[d].live)
    BY <1>0, <2>1 DEF DocRow
  <2> QED BY <2>1, <2>2, CatalogueKeeps, TasksUndisturbed DEF PgInv
<1>10. CASE Disconnect
  BY <1>10, DocsUndisturbed, TasksUndisturbed DEF Disconnect, PgInv
<1>11. CASE Exit
  <2>1. /\ tasks' = [t \in TaskIds |-> IF tasks[t].at = "none" THEN tasks[t]
                                   ELSE [tasks[t] EXCEPT !.at = "done"]]
        /\ pgpool' = "none" /\ guards' = {} /\ UNCHANGED <<docs, versions, jobs>>
    BY <1>11 DEF Exit
  <2>2. ASSUME NEW t \in TaskIds PROVE tasks'[t] \in TaskRow /\ TaskSound(tasks'[t])
    BY <1>0, <2>1 DEF TaskRow, TaskSound, PgInv, TasksInv
  <2>3. TasksInv' BY <2>1, <2>2 DEF PgInv, TasksInv, TaskSound
  <2>4. Attended' BY <2>1 DEF Attended
  <2> QED BY <2>1, <2>3, <2>4, DocsUndisturbed DEF PgInv
<1>12. CASE Initialize
  <2>1. /\ jobs' = [j \in JobIds |-> IF jobs[j].state \in ActiveStates
                                 THEN [jobs[j] EXCEPT !.state = "failed"] ELSE jobs[j]]
        /\ tasks' = [t \in TaskIds |->
              IF /\ tasks[t].job # 0 /\ tasks[t].attempt \in {"running", "retrying"}
                 /\ jobs[tasks[t].job].state \in ActiveStates
              THEN [tasks[t] EXCEPT !.attempt = "failed", !.lost = 0]
              ELSE [tasks[t] EXCEPT !.lost = 0]]
        /\ UNCHANGED <<docs, versions, guards>>
    BY <1>12 DEF Initialize
  <2>2. ASSUME NEW j \in JobIds PROVE jobs'[j] \in JobRow /\ jobs'[j].state \notin ActiveStates
    BY <1>0, <2>1 DEF JobRow, JobStates, ActiveStates
  <2>3. ASSUME NEW t \in TaskIds
        PROVE  /\ tasks'[t] \in TaskRow /\ tasks'[t].at = tasks[t].at /\ tasks'[t].job = tasks[t].job
               /\ tasks'[t].path = tasks[t].path /\ tasks'[t].sha = tasks[t].sha
               /\ tasks'[t].lost = 0
    BY <1>0, <2>1 DEF TaskRow
  <2>4. \A t \in TaskIds : TaskSound(tasks'[t])
    BY <2>3 DEF TaskSound, PgInv, TasksInv
  <2>5. TasksInv'
    <3>1. jobs' \in [JobIds -> JobRow] BY <2>1, <2>2
    <3>2. tasks' \in [TaskIds -> TaskRow] BY <2>1, <2>3
    <3>3. guards' \in SUBSET TaskIds /\ \A t \in guards' : tasks'[t].at # "none"
      BY <2>1, <2>3 DEF PgInv, TasksInv
    <3> QED BY <2>4, <3>1, <3>2, <3>3 DEF TasksInv, TaskSound
  <2>6. Attended' BY <2>2 DEF Attended
  <2> QED BY <2>1, <2>5, <2>6, DocsUndisturbed DEF PgInv
<1> QED
  BY <1>1, <1>2, <1>3, <1>4, <1>5, <1>6, <1>7, <1>8, <1>9, <1>10, <1>11, <1>12 DEF PgCommandStep

\* The inductive invariant of the PostgreSQL imports: rows of the right shape,
\* the visible content active, and somebody at work for every active job.
THEOREM PgInvariant == PgSpec => []PgInv
<1>1. PgInit => PgInv
  <2> SUFFICES ASSUME PgInit PROVE PgInv OBVIOUS
  <2>1. Idle \in TaskRow /\ Idle.at = "none" /\ Idle.lost = 0
    BY DEF Idle, NoTarget, TaskRow, Paths, Contents, DocRefs
  <2>2. [exists |-> FALSE, live |-> FALSE, base |-> "none", path |-> Idle.path, sha |-> "none"] \in DocRow
    BY DEF DocRow, BaseIds, Paths, Contents, Idle
  <2>3. DocsInv BY <2>2 DEF PgInit, DocsInv, ActiveVersionIsCurrent
  <2>4. [state |-> "none", base |-> "none", doc |-> 0, attempts |-> 0] \in JobRow /\ "none" \notin ActiveStates
    BY DEF JobRow, JobStates, BaseIds, DocRefs, ActiveStates
  <2>5. TasksInv BY <2>1, <2>4 DEF PgInit, TasksInv, TaskSound
  <2>6. Attended BY <2>4 DEF PgInit, Attended
  <2> QED BY <2>3, <2>5, <2>6 DEF PgInv
<1>2. PgInv /\ [PgNext]_pgVars => PgInv'
  <2> SUFFICES ASSUME PgInv, [PgNext]_pgVars PROVE PgInv' OBVIOUS
  <2>1. CASE UNCHANGED pgVars
    BY <2>1, DocsUndisturbed, TasksUndisturbed DEF pgVars, PgInv
  <2> QED BY <2>1, TaskStepKeeps, CommandKeeps DEF PgNext
<1> QED
  BY <1>1, <1>2, PTL DEF PgSpec

\* A visible document has exactly one active version and it is the one its row
\* names, however the indexing transactions of any number of imports, retries
\* and reparses interleave.
THEOREM ActiveVersionsAreCurrent == PgSpec => []ActiveVersionIsCurrent
<1>1. PgInv => ActiveVersionIsCurrent
  BY DEF PgInv, DocsInv
<1> QED
  BY <1>1, PgInvariant, PTL

\* While a pool is held, a job shown as active has a task, a retry about to be
\* spawned or a guard's record still to come, unless two storage operations of
\* its task failed or the user was told that the retry did: any one failed write
\* of a stage, an outcome or a failure is made good by another.
THEOREM ActiveJobsAreAttended == PgSpec => []ActiveJobIsAttended
<1>1. PgInv => ActiveJobIsAttended
  BY DEF PgInv, Attended, Attends, Cares, Working, ActiveJobIsAttended, InFlight, GaveUp
<1> QED
  BY <1>1, PgInvariant, PTL

-----------------------------------------------------------------------------
(***************************************************************************)
(* Local knowledge bases: EvidenceIsCurrent. Activation is for good, and   *)
(* what a query collects at any of its statements was active in its bases  *)
(* after the query began.                                                  *)
(***************************************************************************)

LocalRow == [stage : LkStages \cup {"none", "deleted"}, base : LkBases \cup {"none"},
             task : {"none", "open", "ended"}]

QueryRow == [at : {"idle", "embed", "snapshot", "open", "filter", "search", "dense", "fetch",
                   "rerank", "fts", "locate", "persist"},
             bases : SUBSET LkBases, gone : SUBSET LkDocs, snapshot : SUBSET LkDocs,
             allowed : SUBSET LkDocs, lexical : SUBSET LkDocs, hits : SUBSET LkDocs]

\* A document a query over the bases may cite.
Citable(d, bases, gone) ==
  /\ d \notin gone /\ localDocs[d].base \in bases
  /\ localDocs[d].stage \in {"active", "deleted"}

\* What a query may come to cite has been active since it began.
QuerySound(q) ==
  /\ \A d \in q.gone : localDocs[d].stage = "deleted"
  /\ \A d \in q.allowed \cup q.lexical \cup q.hits : Citable(d, q.bases, q.gone)

LkInv ==
  /\ localDocs \in [LkDocs -> LocalRow]
  /\ lquery \in QueryRow /\ QuerySound(lquery)
  /\ audits.evidence \in SUBSET LkDocs
  /\ EvidenceIsCurrent

\* Activation is for good: an active document stays in its base until it is
\* deleted, and a deleted one does not come back.
DocsSettle ==
  \A d \in LkDocs :
    /\ localDocs[d].stage = "deleted" => localDocs'[d].stage = "deleted"
    /\ localDocs[d].stage \in {"active", "deleted"} =>
         localDocs'[d].stage \in {"active", "deleted"} /\ localDocs'[d].base = localDocs[d].base

LEMMA CatalogueStep ==
  ASSUME LkInv, localDocs' \in [LkDocs -> LocalRow], DocsSettle, Catalog
  PROVE  LkInv'
<1>1. lquery' = lquery /\ audits' = audits BY DEF Catalog
<1>2. /\ lquery.gone \in SUBSET LkDocs /\ lquery.allowed \in SUBSET LkDocs
      /\ lquery.lexical \in SUBSET LkDocs /\ lquery.hits \in SUBSET LkDocs
  BY DEF LkInv, QueryRow
<1>3. QuerySound(lquery)' BY <1>1, <1>2 DEF LkInv, QuerySound, Citable, DocsSettle
<1>4. EvidenceIsCurrent' BY <1>1 DEF LkInv, EvidenceIsCurrent, DocsSettle
<1> QED BY <1>1, <1>3, <1>4 DEF LkInv

\* One document changes.
LEMMA DocumentStep ==
  ASSUME LkInv, Catalog, NEW d \in LkDocs, NEW x \in LocalRow, localDocs' = [localDocs EXCEPT ![d] = x],
         localDocs[d].stage = "deleted" => x.stage = "deleted",
         localDocs[d].stage \in {"active", "deleted"} =>
           x.stage \in {"active", "deleted"} /\ x.base = localDocs[d].base
  PROVE  LkInv'
<1>1. localDocs' \in [LkDocs -> LocalRow] /\ DocsSettle
  BY DEF LkInv, DocsSettle
<1> QED BY <1>1, CatalogueStep

\* A step of the query alone.
LEMMA QueryStep ==
  ASSUME LkInv, NEW q \in QueryRow, QuerySound(q), QueryBecomes(q)
  PROVE  LkInv'
  BY DEF LkInv, QueryBecomes, QuerySound, Citable, EvidenceIsCurrent

\* What the full text search or the filter finds at any moment is citable.
LEMMA ActiveIsCitable ==
  ASSUME LkInv, NEW d \in ActiveIn(lquery.bases)
  PROVE  d \in LkDocs /\ Citable(d, lquery.bases, lquery.gone)
<1>1. d \in LkDocs /\ localDocs[d].stage = "active" /\ localDocs[d].base \in lquery.bases
  BY DEF ActiveIn, InBases
<1>2. d \notin lquery.gone BY <1>1 DEF LkInv, QuerySound
<1> QED BY <1>1, <1>2 DEF Citable

LEMMA IdleQuery == NoQuery \in QueryRow /\ QuerySound(NoQuery)
  BY DEF NoQuery, QueryRow, QuerySound

\* Imports, deletions and merges keep what a query relies on.
LEMMA CommandsKeep ==
  ASSUME LkInv,
         \/ \E b \in LkBases : CreateKnowledgeBase(b) \/ queue_document_import(b) \/ DeleteKnowledgeBase(b)
         \/ \E d \in LkDocs :
              \/ StoreContent(d) \/ FinalizeRows(d) \/ ActivateDocument(d)
              \/ EndImport(d) \/ RetryImport(d) \/ DeleteLocalDocument(d)
         \/ \E s, t, n \in LkBases : MergeKnowledgeBases(s, t, n)
  PROVE  LkInv'
<1>0. localDocs \in [LkDocs -> LocalRow] BY DEF LkInv
<1>1. ASSUME NEW b \in LkBases, CreateKnowledgeBase(b) PROVE LkInv'
  BY <1>0, <1>1, CatalogueStep DEF CreateKnowledgeBase, DocsSettle
<1>2. ASSUME NEW b \in LkBases, queue_document_import(b) PROVE LkInv'
  <2>1. PICK d \in FreshLocalDocs(1) :
           localDocs' = [localDocs EXCEPT ![d] = [stage |-> "pending", base |-> b, task |-> "open"]]
    BY <1>2 DEF queue_document_import
  <2>2. d \in LkDocs /\ localDocs[d].stage = "none" BY DEF FreshLocalDocs, NoDoc
  <2>3. [stage |-> "pending", base |-> b, task |-> "open"] \in LocalRow BY DEF LocalRow, LkStages
  <2> QED BY <1>2, <2>1, <2>2, <2>3, DocumentStep DEF queue_document_import
<1>3. ASSUME NEW b \in LkBases, DeleteKnowledgeBase(b) PROVE LkInv'
  <2>1. localDocs' = [d \in LkDocs |-> IF d \in InBases({b})
                                 THEN [localDocs[d] EXCEPT !.stage = "deleted"]
                                 ELSE localDocs[d]]
    BY <1>3 DEF DeleteKnowledgeBase
  <2>2. ASSUME NEW d \in LkDocs
        PROVE  localDocs'[d] \in LocalRow /\ localDocs'[d].base = localDocs[d].base
               /\ (localDocs'[d].stage = "deleted" \/ localDocs'[d].stage = localDocs[d].stage)
    BY <1>0, <2>1 DEF LocalRow
  <2>3. localDocs' \in [LkDocs -> LocalRow] /\ DocsSettle
    BY <2>1, <2>2 DEF DocsSettle
  <2> QED BY <1>3, <2>3, CatalogueStep DEF DeleteKnowledgeBase
<1>4. ASSUME NEW d \in LkDocs,
             \/ StoreContent(d) \/ FinalizeRows(d) \/ ActivateDocument(d)
             \/ EndImport(d) \/ RetryImport(d) \/ DeleteLocalDocument(d)
      PROVE  LkInv'
  <2>0. localDocs[d] \in LocalRow BY <1>0
  <2>1. CASE StoreContent(d)
    <3> DEFINE x == [localDocs[d] EXCEPT !.stage = "embedded"]
    <3>1. x \in LocalRow BY <2>0 DEF LocalRow, LkStages
    <3>2. localDocs' = [localDocs EXCEPT ![d] = x] /\ localDocs[d].stage = "pending" /\ Catalog
      BY <2>1 DEF StoreContent
    <3> QED BY <3>1, <3>2, DocumentStep
  <2>2. CASE FinalizeRows(d)
    <3> DEFINE x == [localDocs[d] EXCEPT !.stage = "indexed"]
    <3>1. x \in LocalRow BY <2>0 DEF LocalRow, LkStages
    <3>2. localDocs' = [localDocs EXCEPT ![d] = x] /\ localDocs[d].stage = "embedded" /\ Catalog
      BY <2>2 DEF FinalizeRows
    <3> QED BY <3>1, <3>2, DocumentStep
  <2>3. CASE ActivateDocument(d)
    <3> DEFINE x == [localDocs[d] EXCEPT !.stage = "active", !.task = "ended"]
    <3>1. x \in LocalRow BY <2>0 DEF LocalRow, LkStages
    <3>2. localDocs' = [localDocs EXCEPT ![d] = x] /\ localDocs[d].stage = "indexed" /\ Catalog
      BY <1>0, <2>3 DEF ActivateDocument
    <3> QED BY <3>1, <3>2, DocumentStep
  <2>4. ASSUME NEW v \in {"open", "ended"}, localDocs' = [localDocs EXCEPT ![d].task = v], Catalog
        PROVE  LkInv'
    <3> DEFINE x == [localDocs[d] EXCEPT !.task = v]
    <3>1. x \in LocalRow /\ x.stage = localDocs[d].stage /\ x.base = localDocs[d].base
      BY <2>0 DEF LocalRow
    <3>2. localDocs' = [localDocs EXCEPT ![d] = x] BY <2>4
    <3> HIDE DEF x
    <3> QED BY <2>4, <3>1, <3>2, DocumentStep
  <2>5. CASE EndImport(d) BY <2>4, <2>5 DEF EndImport
  <2>6. CASE RetryImport(d) BY <2>4, <2>6 DEF RetryImport
  <2>7. CASE DeleteLocalDocument(d)
    <3> DEFINE x == [localDocs[d] EXCEPT !.stage = "deleted"]
    <3>1. x \in LocalRow /\ x.stage = "deleted" /\ x.base = localDocs[d].base
      BY <2>0 DEF LocalRow, LkStages
    <3>2. localDocs' = [localDocs EXCEPT ![d] = x] /\ Catalog BY <2>7 DEF DeleteLocalDocument
    <3> HIDE DEF x
    <3> QED BY <3>1, <3>2, DocumentStep
  <2> QED BY <1>4, <2>1, <2>2, <2>3, <2>5, <2>6, <2>7
<1>5. ASSUME NEW s \in LkBases, NEW t \in LkBases, NEW n \in LkBases, MergeKnowledgeBases(s, t, n)
      PROVE  LkInv'
  <2>1. PICK sources, fresh :
          /\ sources = InBases(IF n = t THEN {s} ELSE {s, t})
          /\ fresh = FreshLocalDocs(Cardinality(sources))
    OBVIOUS
  <2>2. copy_document(sources, fresh, n) /\ Catalog BY <1>5, <2>1 DEF MergeKnowledgeBases
  <2>3. PICK copied \in [fresh -> sources] :
          localDocs' = [d \in LkDocs |->
                          IF d \in fresh
                          THEN [localDocs[copied[d]] EXCEPT !.base = n, !.task = "none"]
                          ELSE localDocs[d]]
    BY <2>2 DEF copy_document
  <2>4. ASSUME NEW d \in fresh
        PROVE  d \in LkDocs /\ localDocs[d].stage = "none" /\ copied[d] \in LkDocs
    <3>1. d \in LkDocs /\ localDocs[d] = NoDoc BY <2>1 DEF FreshLocalDocs
    <3>2. copied[d] \in sources BY <2>3
    <3>3. sources \subseteq LkDocs BY <2>1 DEF InBases
    <3> QED BY <3>1, <3>2, <3>3 DEF NoDoc
  <2>5. ASSUME NEW d \in LkDocs PROVE localDocs'[d] \in LocalRow
    <3>1. CASE d \in fresh
      <4>1. localDocs[copied[d]] \in LocalRow BY <1>0, <2>4, <3>1
      <4>2. [localDocs[copied[d]] EXCEPT !.base = n, !.task = "none"] \in LocalRow
        BY <4>1 DEF LocalRow
      <4> QED BY <2>3, <3>1, <4>2
    <3>2. CASE d \notin fresh BY <1>0, <2>3, <3>2
    <3> QED BY <3>1, <3>2
  <2>6. localDocs' \in [LkDocs -> LocalRow] BY <2>3, <2>5
  <2>7. DocsSettle BY <2>3, <2>4 DEF DocsSettle
  <2> QED BY <2>2, <2>6, <2>7, CatalogueStep
<1> QED BY <1>1, <1>2, <1>3, <1>4, <1>5

\* Every statement of a query keeps what it will cite citable.
LEMMA QueriesKeep ==
  ASSUME LkInv,
         \/ EmbedLocalQuery \/ DegradeToText \/ LoadSnapshot \/ OpenIndex \/ FilterVersions
         \/ SearchLocalText \/ SearchLocalVectors \/ FetchAuthoritative \/ RerankHits
         \/ FallbackSearch \/ LocateHits
  PROVE  LkInv'
<1>0. lquery \in QueryRow /\ QuerySound(lquery) BY DEF LkInv
<1>v. Vectors \in SUBSET LkDocs BY DEF Vectors
\* The same sets of documents at another step, or without some of them.
<1>m. ASSUME NEW q \in QueryRow, QueryBecomes(q), q.bases = lquery.bases, q.gone = lquery.gone,
             q.allowed \subseteq lquery.allowed, q.lexical \subseteq lquery.lexical \cup lquery.allowed,
             q.hits \subseteq lquery.hits \cup lquery.lexical \cup lquery.allowed
      PROVE  LkInv'
  <2>1. QuerySound(q) BY <1>0, <1>m DEF QuerySound
  <2> QED BY <1>m, <2>1, QueryStep
<1>e. ASSUME QueryBecomes(NoQuery) PROVE LkInv' BY <1>e, IdleQuery, QueryStep
<1>1. CASE EmbedLocalQuery
  <2> DEFINE q == [lquery EXCEPT !.at = "snapshot"]
  <2>1. /\ q \in QueryRow /\ q.bases = lquery.bases /\ q.gone = lquery.gone
        /\ q.allowed = lquery.allowed /\ q.lexical = lquery.lexical /\ q.hits = lquery.hits
    BY <1>0 DEF QueryRow
  <2>2. QueryBecomes(q) BY <1>1 DEF EmbedLocalQuery
  <2> HIDE DEF q
  <2> QED BY <1>m, <2>1, <2>2
<1>2. CASE DegradeToText
  <2> DEFINE q == [NoQuery EXCEPT !.at = "fts", !.bases = lquery.bases, !.gone = lquery.gone]
  <2>1. /\ q \in QueryRow /\ q.bases = lquery.bases /\ q.gone = lquery.gone
        /\ q.allowed = {} /\ q.lexical = {} /\ q.hits = {}
    BY <1>0 DEF QueryRow, NoQuery
  <2>2. QueryBecomes(q) \/ QueryBecomes(NoQuery) BY <1>2 DEF DegradeToText
  <2> HIDE DEF q
  <2> QED BY <1>m, <1>e, <2>1, <2>2
<1>3. CASE LoadSnapshot
  <2> DEFINE q == [lquery EXCEPT !.at = "open", !.snapshot = Vectors]
  <2>1. /\ q \in QueryRow /\ q.bases = lquery.bases /\ q.gone = lquery.gone
        /\ q.allowed = lquery.allowed /\ q.lexical = lquery.lexical /\ q.hits = lquery.hits
    BY <1>0, <1>v DEF QueryRow
  <2>2. QueryBecomes(q) BY <1>3 DEF LoadSnapshot
  <2> HIDE DEF q
  <2> QED BY <1>m, <2>1, <2>2
<1>4. CASE OpenIndex
  <2> DEFINE q == [lquery EXCEPT !.at = "filter"]
             r == [lquery EXCEPT !.at = "filter", !.snapshot = Vectors]
  <2>1. /\ q \in QueryRow /\ q.bases = lquery.bases /\ q.gone = lquery.gone
        /\ q.allowed = lquery.allowed /\ q.lexical = lquery.lexical /\ q.hits = lquery.hits
    BY <1>0 DEF QueryRow
  <2>2. /\ r \in QueryRow /\ r.bases = lquery.bases /\ r.gone = lquery.gone
        /\ r.allowed = lquery.allowed /\ r.lexical = lquery.lexical /\ r.hits = lquery.hits
    BY <1>0, <1>v DEF QueryRow
  <2>3. QueryBecomes(q) \/ QueryBecomes(r) BY <1>4 DEF OpenIndex
  <2> HIDE DEF q, r
  <2> QED BY <1>m, <2>1, <2>2, <2>3
<1>5. CASE FilterVersions
  <2> DEFINE q == [NoQuery EXCEPT !.at = "rerank", !.bases = lquery.bases, !.gone = lquery.gone]
             A == ActiveIn(lquery.bases)
             r == [lquery EXCEPT !.at = "search", !.allowed = A]
  <2>1. /\ q \in QueryRow /\ q.bases = lquery.bases /\ q.gone = lquery.gone
        /\ q.allowed = {} /\ q.lexical = {} /\ q.hits = {}
    BY <1>0 DEF QueryRow, NoQuery
  <2>2. A \in SUBSET LkDocs /\ \A d \in A : Citable(d, lquery.bases, lquery.gone)
    BY ActiveIsCitable
  <2>3. QueryBecomes(q) \/ QueryBecomes(r) BY <1>5 DEF FilterVersions
  <2> HIDE DEF A
  <2>4. /\ r \in QueryRow /\ r.bases = lquery.bases /\ r.gone = lquery.gone
        /\ r.allowed = A /\ r.lexical = lquery.lexical /\ r.hits = lquery.hits
    BY <1>0, <2>2 DEF QueryRow
  <2> HIDE DEF q, r
  <2>5. QuerySound(r) BY <1>0, <2>2, <2>4 DEF QuerySound
  <2> QED BY <1>m, <2>1, <2>3, <2>4, <2>5, QueryStep
<1>6. CASE SearchLocalText
  <2>1. PICK found :
           QueryBecomes([lquery EXCEPT !.at = "dense", !.lexical = found \cap lquery.allowed])
    BY <1>6 DEF SearchLocalText
  <2> DEFINE q == [lquery EXCEPT !.at = "dense", !.lexical = found \cap lquery.allowed]
  <2>2. /\ q \in QueryRow /\ q.bases = lquery.bases /\ q.gone = lquery.gone
        /\ q.allowed = lquery.allowed /\ q.lexical = found \cap lquery.allowed /\ q.hits = lquery.hits
    BY <1>0 DEF QueryRow
  <2>3. QueryBecomes(q) BY <2>1
  <2> HIDE DEF q
  <2> QED BY <1>m, <2>2, <2>3
<1>7. CASE SearchLocalVectors
  <2>1. PICK found \in SUBSET (lquery.snapshot \cap lquery.allowed) :
          QueryBecomes([NoQuery EXCEPT !.at = "fetch", !.bases = lquery.bases, !.gone = lquery.gone,
                              !.hits = lquery.lexical \cup found])
    BY <1>7 DEF SearchLocalVectors
  <2> DEFINE q == [NoQuery EXCEPT !.at = "fetch", !.bases = lquery.bases, !.gone = lquery.gone,
                              !.hits = lquery.lexical \cup found]
  <2>2. /\ q \in QueryRow /\ q.bases = lquery.bases /\ q.gone = lquery.gone
        /\ q.allowed = {} /\ q.lexical = {} /\ q.hits = lquery.lexical \cup found
    BY <1>0 DEF QueryRow, NoQuery
  <2>3. QueryBecomes(q) BY <2>1
  <2> HIDE DEF q
  <2> QED BY <1>m, <2>2, <2>3
<1>8. CASE FetchAuthoritative
  <2> DEFINE H == {d \in lquery.hits : localDocs[d].stage = "active"}
             q == [lquery EXCEPT !.at = "rerank", !.hits = H]
  <2>1. QueryBecomes(q) BY <1>8 DEF FetchAuthoritative
  <2>2. H \subseteq lquery.hits OBVIOUS
  <2> HIDE DEF H
  <2>3. /\ q \in QueryRow /\ q.bases = lquery.bases /\ q.gone = lquery.gone
        /\ q.allowed = lquery.allowed /\ q.lexical = lquery.lexical /\ q.hits = H
    BY <1>0, <2>2 DEF QueryRow
  <2> HIDE DEF q
  <2> QED BY <1>m, <2>1, <2>2, <2>3
<1>9. CASE RerankHits \/ LocateHits
  <2> DEFINE q == [lquery EXCEPT !.at = "persist"]
  <2>1. /\ q \in QueryRow /\ q.bases = lquery.bases /\ q.gone = lquery.gone
        /\ q.allowed = lquery.allowed /\ q.lexical = lquery.lexical /\ q.hits = lquery.hits
    BY <1>0 DEF QueryRow
  <2>2. QueryBecomes(q) \/ QueryBecomes(NoQuery) BY <1>9 DEF RerankHits, LocateHits
  <2> HIDE DEF q
  <2> QED BY <1>m, <1>e, <2>1, <2>2
<1>10. CASE FallbackSearch
  <2>1. PICK found \in SUBSET search_fts(lquery.bases) :
           QueryBecomes([lquery EXCEPT !.at = "locate", !.hits = found])
    BY <1>10 DEF FallbackSearch
  <2>2. found \in SUBSET LkDocs /\ \A d \in found : Citable(d, lquery.bases, lquery.gone)
    BY <2>1, ActiveIsCitable DEF search_fts
  <2> DEFINE q == [lquery EXCEPT !.at = "locate", !.hits = found]
  <2>3. /\ q \in QueryRow /\ q.bases = lquery.bases /\ q.gone = lquery.gone
        /\ q.allowed = lquery.allowed /\ q.lexical = lquery.lexical /\ q.hits = found
    BY <1>0, <2>2 DEF QueryRow
  <2>4. QueryBecomes(q) BY <2>1
  <2> HIDE DEF q
  <2>5. QuerySound(q) BY <1>0, <2>2, <2>3 DEF QuerySound
  <2> QED BY <2>3, <2>4, <2>5, QueryStep
<1> QED BY <1>1, <1>2, <1>3, <1>4, <1>5, <1>6, <1>7, <1>8, <1>9, <1>10

\* What a query will cite was active in its bases since the query began.
THEOREM LocalInvariant == LkSpec => []LkInv
<1>1. LkInit => LkInv
  <2>1. NoDoc \in LocalRow /\ NoAudits.evidence = {} BY DEF NoDoc, LocalRow, NoAudits
  <2> QED BY <2>1, IdleQuery DEF LkInit, LkInv, EvidenceIsCurrent, QuerySound, Citable
<1>2. LkInv /\ [LkNext]_lkVars => LkInv'
  <2> SUFFICES ASSUME LkInv, [LkNext]_lkVars PROVE LkInv' OBVIOUS
  <2>0. lquery \in QueryRow /\ QuerySound(lquery) BY DEF LkInv
  <2>1. ASSUME NEW bases \in SUBSET LkBases \ {{}}, BeginLocalQuery(bases) PROVE LkInv'
    <3> DEFINE G == {d \in LkDocs : localDocs[d].stage = "deleted"}
               q == [NoQuery EXCEPT !.at = "embed", !.bases = bases, !.gone = G]
    <3>1. /\ lquery' = q /\ audits' = NoAudits /\ UNCHANGED <<kb, localDocs, ftsRows>>
      BY <2>1 DEF BeginLocalQuery
    <3>2. /\ q \in QueryRow /\ q.gone = G /\ q.allowed = {} /\ q.lexical = {} /\ q.hits = {}
      BY DEF QueryRow, NoQuery
    <3> HIDE DEF q
    <3>3. QuerySound(lquery)' BY <3>1, <3>2 DEF QuerySound
    <3>4. NoAudits.evidence = {} BY DEF NoAudits
    <3> QED BY <3>1, <3>2, <3>3, <3>4 DEF LkInv, EvidenceIsCurrent
  <2>2. CASE PersistEvidence
    <3>1. /\ audits' = [evidence |-> lquery.hits, bases |-> lquery.bases, gone |-> lquery.gone]
          /\ lquery' = NoQuery /\ UNCHANGED localDocs
      BY <2>2 DEF PersistEvidence
    <3>2. lquery.hits \in SUBSET LkDocs BY <2>0 DEF QueryRow
    <3>3. QuerySound(lquery)' BY <3>1, IdleQuery DEF QuerySound, Citable
    <3>4. EvidenceIsCurrent' BY <2>0, <3>1 DEF EvidenceIsCurrent, QuerySound, Citable
    <3> QED BY <3>1, <3>2, <3>3, <3>4, IdleQuery DEF LkInv
  <2>3. CASE UNCHANGED lkVars
    BY <2>3 DEF lkVars, LkInv, QuerySound, Citable, EvidenceIsCurrent
  <2> QED BY <2>1, <2>2, <2>3, CommandsKeep, QueriesKeep DEF LkNext
<1> QED
  BY <1>1, <1>2, PTL DEF LkSpec

\* The evidence an answer cites comes from documents of the requested bases that
\* were active while the query ran, for any number of bases and documents and
\* whatever is imported, merged or deleted between two statements of the query.
THEOREM EvidenceIsAlwaysCurrent == LkSpec => []EvidenceIsCurrent
<1>1. LkInv => EvidenceIsCurrent
  BY DEF LkInv
<1> QED
  BY <1>1, LocalInvariant, PTL

=============================================================================
