---------------------------- MODULE MCComponents ----------------------------
(***************************************************************************)
(* The components that share no state, checked side by side: a behaviour   *)
(* picks one of them and runs it alone, the others keep their initial      *)
(* state, so the states of the instances add up and do not multiply.       *)
(***************************************************************************)
EXTENDS ProviderStream, Compaction, Guards, Workspace, RateLimiter, Delegation,
        Observation, ShellRegistry

(* Each strategy alone; a sandbox, or the repetition guard, before a         *)
(* permission; two sandboxes of a kind.                                     *)
MCManifests ==
  {<<one>> : one \in {s \in Strategy : s.kind # "sandbox/network"}} \cup
  {<<one, [kind |-> permission, onError |-> "isolate"]>> :
     one \in {s \in Strategy : s.kind \in {"sandbox/network", "guard/repetition"}},
     permission \in {"permission/approval", "permission/deny"}} \cup
  {<<one, one>> : one \in {s \in Strategy : s.kind = "sandbox/write" /\ s.onError = "fail_turn"}}

(* Bound: beside a third session there are no odd payloads; and once         *)
(* something was saved, no strays, two files and four rows in memory.        *)
Saved == {s \in SessionIds : files[s] # NoFile}
LiveRows == UNION {{<<s, i>> : i \in DOMAIN sessions[s].log} : s \in Live}

MCSlice ==
  \/ drawn <= 2
  \/ /\ Odd = {}
     /\ Saved # {} => strays = {} /\ Cardinality(Saved) <= 2 /\ Cardinality(LiveRows) <= 4

(* Bound: a model thinks, and a server is odd, in the first attempt only. *)
MCFirstThoughts == stream.thought \/ stream.odd => attempts = 1

(* Each strategy alone, and the pairs of which one looks at what the other   *)
(* left.                                                                    *)
MCTail(name) == [name |-> name, max |-> 3, keep |-> 1]
MCCap == [name |-> "ToolOutputCap", max |-> 0, keep |-> 0]

MCStrategyLists ==
  {<<MCTail(name)>> : name \in StrategyNames \ {"ToolOutputCap"}} \cup
  {<<MCCap>>, <<MCCap, MCTail("MarkerTail")>>, <<MCCap, MCTail("SummaryTail")>>,
   <<MCTail("MarkerTail"), MCCap>>}

VARIABLE component

Runs(c) == component = c

Init ==
  /\ component \in {"stream", "compaction", "guards", "workspace", "limiter", "delegation",
                   "observation", "registry"}
  /\ StreamInit /\ (Runs("stream") \/ provider = "anthropic")
  /\ CompactionInit /\ (Runs("compaction") \/ strategies = <<MCCap>>)
  /\ GuardsInit /\ (Runs("guards") \/ installed = <<[kind |-> "sandbox/write", onError |-> "isolate"]>>)
  /\ WorkspaceInit /\ (Runs("workspace") \/ (requireRead /\ file = Absent))
  /\ LimiterInit
  /\ DelegationInit
  /\ ObservationInit
  /\ RegistryInit

Next ==
  \/ /\ Runs("stream") /\ StreamNext /\ MCFirstThoughts'
     /\ UNCHANGED <<component, compactionVars, guardsVars, workspaceVars, limiterVars, delegationVars, observationVars, registryVars>>
  \/ /\ Runs("compaction") /\ CompactionNext
     /\ UNCHANGED <<component, streamVars, guardsVars, workspaceVars, limiterVars, delegationVars, observationVars, registryVars>>
  \/ /\ Runs("guards") /\ GuardsNext
     /\ UNCHANGED <<component, streamVars, compactionVars, workspaceVars, limiterVars, delegationVars, observationVars, registryVars>>
  \/ /\ Runs("workspace") /\ WorkspaceNext
     /\ UNCHANGED <<component, streamVars, compactionVars, guardsVars, limiterVars, delegationVars, observationVars, registryVars>>
  \/ /\ Runs("limiter") /\ LimiterNext
     /\ UNCHANGED <<component, streamVars, compactionVars, guardsVars, workspaceVars, delegationVars, observationVars, registryVars>>
  \/ /\ Runs("delegation") /\ DelegationNext /\ MCSlice'
     /\ UNCHANGED <<component, streamVars, compactionVars, guardsVars, workspaceVars, limiterVars, observationVars, registryVars>>
  \/ /\ Runs("observation") /\ ObservationNext
     /\ UNCHANGED <<component, streamVars, compactionVars, guardsVars, workspaceVars, limiterVars, delegationVars, registryVars>>
  \/ /\ Runs("registry") /\ RegistryNext
     /\ UNCHANGED <<component, streamVars, compactionVars, guardsVars, workspaceVars, limiterVars, delegationVars, observationVars>>

vars == <<component, streamVars, compactionVars, guardsVars, workspaceVars, limiterVars, delegationVars, observationVars, registryVars>>

Spec == Init /\ [][Next]_vars
=============================================================================
