---------------------------- MODULE MCCronOutbox -----------------------------
(***************************************************************************)
(* Instances of CronOutbox for TLC: all schedules and the user share one   *)
(* conversation, where they get in each other's way.                       *)
(***************************************************************************)
EXTENDS CronOutbox

CONSTANT conv

OneConversation == {conv}
SharedConversation == [x \in Jobs \cup UserRuns |-> conv]
=============================================================================
