---------------------------- MODULE Transcript ----------------------------
(***************************************************************************)
(* The questions harnas asks of an event sequence: which tool calls are    *)
(* pending, what compaction leaves visible (mutations.go), whether the     *)
(* tool references are sound and the transcript may go to a provider       *)
(* (integrity.go), what Run finds at entry (agent_loop.go).                *)
(*                                                                         *)
(* The event with seq n is at position n + 1.  Of a payload only what the  *)
(* control flow reads is kept: the tool call's id, `info' (the stop reason *)
(* of an assistant message, the kind of a result, "terminal" or not for an *)
(* error), and `span', the positions a compact replaces or the one a       *)
(* revert revokes.                                                         *)
(***************************************************************************)
EXTENDS Naturals, Sequences, Selection

CONSTANTS CallIds,  \* ids of tool calls
          NoCall    \* the id of an event about no call, or of a call without id

EventTypes == {"user_message", "assistant_message", "tool_use", "tool_result",
               "approval_requested", "approval_resolved", "annotation",
               "provider_error", "runtime_error", "compact", "revert"}

StopReasons == {"tool_use", "end_turn", "max_tokens"}
ResultKinds == {"done", "huge", "rejected", "incomplete"}
Infos == StopReasons \cup ResultKinds \cup {"", "terminal", "retried", "final"}

Event == [type : EventTypes, id : CallIds \cup {NoCall}, info : Infos, span : SUBSET Nat]

MakeEvent(type, id, info) == [type |-> type, id |-> id, info |-> info, span |-> {}]

UserMessage == MakeEvent("user_message", NoCall, "")
AssistantMessage(stop) == MakeEvent("assistant_message", NoCall, stop)
ToolUse(c) == MakeEvent("tool_use", c, "")
ToolResult(c, kind) == MakeEvent("tool_result", c, kind)
ApprovalRequested(c) == MakeEvent("approval_requested", c, "")
ApprovalResolved(c) == MakeEvent("approval_resolved", c, "")
Annotation == MakeEvent("annotation", NoCall, "")
ProviderError(info) == MakeEvent("provider_error", NoCall, info)
RuntimeError == MakeEvent("runtime_error", NoCall, "terminal")
Compact(replaces) == [MakeEvent("compact", NoCall, "") EXCEPT !.span = replaces]
Revert(seq) == [MakeEvent("revert", NoCall, "") EXCEPT !.span = {seq}]

(* The positions in V of events of a type, and the call ids they carry. *)
At(events, V, type) == {i \in V : events[i].type = type}
IdsAt(events, V, type) == {events[i].id : i \in At(events, V, type)}
Ids(events, type) == IdsAt(events, DOMAIN events, type)

-----------------------------------------------------------------------------
(* ApplyMutations: a compact that no revert revokes hides what it replaces  *)
(* and puts its summary at the first position replaced.                    *)
ActiveCompacts(events) ==
  LET reverts == At(events, DOMAIN events, "revert")
  IN  {i \in At(events, DOMAIN events, "compact") :
         events[i].span # {} /\ \A r \in reverts : i \notin events[r].span}

Shadowed(events) == UNION {events[i].span : i \in ActiveCompacts(events)}

Visible(events) ==
  LET shadowed == Shadowed(events)
  IN  {i \in DOMAIN events : events[i].type \notin {"compact", "revert"} /\ i \notin shadowed}

-----------------------------------------------------------------------------
(* analyzeToolReferences over the events at the positions V. *)
FirstUse(events, V, c) ==
  CHOOSE i \in At(events, V, "tool_use") :
    /\ events[i].id = c
    /\ \A j \in At(events, V, "tool_use") : events[j].id = c => i <= j

Repeated(events, S) == {j \in S : \E i \in S : i < j /\ events[i].id = events[j].id}

Violations(events, V) ==
  LET uses == At(events, V, "tool_use")
      results == At(events, V, "tool_result")
      named(S) == {i \in S : events[i].id # NoCall}
      useIds == IdsAt(events, V, "tool_use")
      known == {i \in named(results) : events[i].id \in useIds}
  IN  {<<"missing_id", i>> : i \in (uses \cup results) \ named(uses \cup results)}
      \cup {<<"duplicate_tool_use_id", i>> : i \in Repeated(events, named(uses))}
      \cup {<<"orphan_tool_result", i>> : i \in named(results) \ known}
      \cup {<<"tool_result_before_tool_use", i>> :
              i \in {j \in known : j <= FirstUse(events, V, events[j].id)}}
      \cup {<<"duplicate_tool_result", i>> : i \in Repeated(events, named(results))}

(* unresolvedToolViolations *)
Unresolved(events, V) ==
  {<<"unresolved_tool_use", i>> :
     i \in {j \in At(events, V, "tool_use") :
              /\ events[j].id # NoCall
              /\ events[j].id \notin IdsAt(events, V, "tool_result")}}

(* AnalyzeDurableLog finds nothing. *)
DurableIntact(events) == Violations(events, DOMAIN events) = {}

(* PrepareProviderCall finds nothing. *)
ProviderReady(events) ==
  /\ DurableIntact(events)
  /\ Violations(events, Visible(events)) = {}
  /\ Unresolved(events, Visible(events)) = {}

-----------------------------------------------------------------------------
(* pendingToolUses, in log order. *)
PendingToolUses(events) ==
  ItemsAt(events, {i \in At(events, DOMAIN events, "tool_use") :
                     events[i].id \notin Ids(events, "tool_result")})

Pending(events) == Ids(events, "tool_use") \ Ids(events, "tool_result")

(* prepareRunEntry: the pending calls whose last approval event is a        *)
(* request, and those with a resolution but no result.                     *)
(* AwaitingAny, the mutant: one resolution answers every request.          *)
AwaitingAny(events) ==
  IF Ids(events, "approval_resolved") # {} THEN {}
  ELSE Pending(events) \cap Ids(events, "approval_requested")

Awaiting(events) ==
  {c \in Pending(events) :
     \E i \in At(events, DOMAIN events, "approval_requested") :
       /\ events[i].id = c
       /\ \A j \in At(events, DOMAIN events, "approval_resolved") :
            events[j].id = c => j < i}

ResolvedWithoutResult(events) == Pending(events) \cap Ids(events, "approval_resolved")

(* terminalRuntimeError *)
Terminal(events) == \E i \in DOMAIN events : events[i] = RuntimeError

(* The stop reason of LastAssistantMessage, "" if there is none. *)
LastStop(events) ==
  LET A == At(events, DOMAIN events, "assistant_message")
  IN  IF A = {} THEN ""
      ELSE events[CHOOSE i \in A : \A j \in A : j <= i].info

(* What AgentLoop.Run decides from the log before its first turn. *)
EntryOutcome(events) ==
  IF ~DurableIntact(events) THEN "integrity_error"
  ELSE IF Terminal(events) THEN "runtime_failed"
  ELSE IF Pending(events) = {} THEN "proceed"
  ELSE IF Awaiting(events) # {} THEN "awaiting_approval"
  ELSE IF ResolvedWithoutResult(events) # {} THEN "integrity_error"
  ELSE IF LastStop(events) # "tool_use"
       THEN IF ProviderReady(events) THEN "proceed" ELSE "integrity_error"
  ELSE "dispatch"
=============================================================================
