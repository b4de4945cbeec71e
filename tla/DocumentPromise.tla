-------------------------- MODULE DocumentPromise --------------------------
(***************************************************************************)
(* What the ingestion of one document version promises, whatever crashes,  *)
(* cancellations and retries happen on the way: the document is sent to    *)
(* the remote parser at most once, it becomes visible only together with   *)
(* the completion of its task, and a completed task stays completed.       *)
(***************************************************************************)
EXTENDS Naturals

VARIABLES
  submissions,  \* batches the remote service has created for the document
  published,    \* the version is the active one
  outcome       \* the task is "open", "stopped" or "completed"

promiseVars == <<submissions, published, outcome>>

PromiseInit == submissions = 0 /\ published = FALSE /\ outcome = "open"

Submit == /\ submissions = 0 /\ submissions' = 1
          /\ UNCHANGED <<published, outcome>>

Publish == /\ outcome = "open" /\ ~published
           /\ published' = TRUE /\ outcome' = "completed"
           /\ UNCHANGED submissions

StopTask == /\ outcome = "open" /\ outcome' = "stopped"
            /\ UNCHANGED <<submissions, published>>

Reopen == /\ outcome = "stopped" /\ outcome' = "open"
          /\ UNCHANGED <<submissions, published>>

PromiseNext == Submit \/ Publish \/ StopTask \/ Reopen

PromiseSpec == PromiseInit /\ [][PromiseNext]_promiseVars
=============================================================================
