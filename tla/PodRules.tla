------------------------------ MODULE PodRules ------------------------------
(***************************************************************************)
(* The classification a drain makes of the pods it lists                    *)
(* (app/services/node_service.py, drain, step 3): every pod is Skipped,     *)
(* Blocked or Eligible.  A pod is reduced to the set of its traits that the *)
(* classification reads, the request's options to the set of those that are *)
(* switched on.  The operators here are pure: Drain.tla applies them.       *)
(***************************************************************************)

\* What the classification reads of a pod: the mirror annotation, a phase of
\* Succeeded or Failed, a DaemonSet among the owners, any owner at all, and a
\* volume of type emptyDir.
PodTraits == {"mirror", "completed", "daemonset", "owned", "emptydir"}

\* The boolean switches of DrainOptions; "no_grace" stands for
\* grace_period_seconds = 0.
DrainOptions == {"force", "delete_emptydir_data", "disable_eviction", "no_grace"}

\* DrainBlockedException.UNBLOCKING_OPTION: the option that lifts a reason.
Reasons == {"unmanaged", "emptydir"}
UnblockingOption == [unmanaged |-> "force", emptydir |-> "delete_emptydir_data"]

\* Pods no drain touches, whatever its options.
Skipped(traits) == {"mirror", "completed", "daemonset"} \cap traits # {}

\* Why the options do not permit removing a pod.  Both reasons are collected.
BlockReasons(traits, options) ==
  {why \in Reasons :
     /\ why = "unmanaged" => "owned" \notin traits
     /\ why = "emptydir" => "emptydir" \in traits
     /\ UnblockingOption[why] \notin options}

\* The skip test comes first: a skipped pod never blocks a drain.
Blocked(traits, options) ==
  ~Skipped(traits) /\ BlockReasons(traits, options) # {}
Eligible(traits, options) ==
  ~Skipped(traits) /\ BlockReasons(traits, options) = {}

\* DrainBlockedException._required_options, over every blocked pod's reasons.
RequiredOptions(reasons) == {UnblockingOption[why] : why \in reasons}
=============================================================================
