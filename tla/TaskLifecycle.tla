---------------------------- MODULE TaskLifecycle ----------------------------
(***************************************************************************)
(* What the background_tasks table promises its readers about one task,    *)
(* whoever writes it: the transition table of TaskState::can_transition_to *)
(* together with the two moves the repository makes outside it, a claim    *)
(* (which alone bumps attempt) and the requeue of schedule_retry.          *)
(***************************************************************************)
EXTENDS TaskRepository

lifecycleVars == <<state, attempt>>

Appear(t) ==
  /\ state[t] = "absent"
  /\ state' = [state EXCEPT ![t] = "queued"]
  /\ UNCHANGED attempt

Claim(t) ==
  /\ state[t] \in {"queued", "waiting_external"}
  /\ state' = [state EXCEPT ![t] = "running"]
  /\ attempt' = [attempt EXCEPT ![t] = @ + 1]

Requeue(t) ==
  /\ state[t] = "running"
  /\ state' = [state EXCEPT ![t] = "queued"]
  /\ UNCHANGED attempt

Transition(t) ==
  /\ \E to \in TaskState \ {"running"} :
       /\ can_transition_to(state[t], to)
       /\ state' = [state EXCEPT ![t] = to]
  /\ UNCHANGED attempt

LifecycleInit ==
  /\ state = [t \in Tasks |-> "absent"]
  /\ attempt = [t \in Tasks |-> 0]

LifecycleNext ==
  \E t \in Tasks : Appear(t) \/ Claim(t) \/ Requeue(t) \/ Transition(t)

LifecycleSpec == LifecycleInit /\ [][LifecycleNext]_lifecycleVars
=============================================================================
