---------------------------- MODULE AgentLoop ----------------------------
(***************************************************************************)
(* AgentLoop.Run (agent_loop.go), the approval API (approval.go) and the   *)
(* host that calls them on one storage-bound Session: chat messages,       *)
(* resumed runs, approvals, storage outages, crashes and reloads.  Run is  *)
(* sequential, so a step here is the stretch of code between two effects   *)
(* the rest of the world can tell apart: an append, a call of the provider *)
(* or the execution of a tool.                                             *)
(*                                                                         *)
(* The storage adapter appears through its contract (FencedLog, which      *)
(* DurableLog implements): an append is refused when the memory is behind  *)
(* the stored rows, and a failed one may have been stored.                 *)
(***************************************************************************)
EXTENDS Transcript, FiniteSets

CONSTANTS UniqueIds,    \* TRUE: the provider never uses a call id twice
          MaxTurns,     \* AgentLoop.MaxTurns
          MaxAttempts,  \* RetryPolicy.MaxAttempts
          MaxCalls,     \* bound: tool calls in one provider step
          MaxRuns,      \* bound: calls of Run and of the approval API
          MaxOutages,   \* bound: appends that meet a storage outage
          MaxCrashes    \* bound: crashes of the process

ASSUME AgentLoopAssumption ==
  /\ UniqueIds \in BOOLEAN
  /\ MaxTurns \in Nat \ {0} /\ MaxAttempts \in Nat \ {0} /\ MaxCalls \in Nat
  /\ MaxRuns \in Nat /\ MaxOutages \in Nat /\ MaxCrashes \in Nat
  /\ NoCall \notin CallIds

VARIABLES mem,       \* Session.Log.events
          stored,    \* the rows in the storage adapter
          latch,     \* Log.storageErr is set
          loop,      \* where Run or the approval API is, and its locals
          outcome,   \* what the last call returned, "" while one is running
          issued,    \* history: call ids the provider has used
          executed,  \* history: how often the handler of a call has run
          runs,      \* history: calls made by the host
          failures,  \* history: appends refused or failed by the storage
          outages, crashes

vars == <<mem, stored, latch, loop, outcome, issued, executed, runs, failures,
          outages, crashes>>

logVars == <<mem, stored, latch, failures, outages>>

PCs == {"idle", "entry", "dispatch", "ask", "tools", "result", "dispatched",
        "turn", "prepare", "attempt", "invoke", "calling",
        "approved", "approved result", "denied"}

(* queue: calls still to handle; denied: those a hook refused; ran: the     *)
(* post_tool_use hooks of this batch have something to look at.            *)
IdleLoop == [pc |-> "idle", from |-> "", queue |-> <<>>, denied |-> {}, ran |-> FALSE,
             turn |-> 0, attempt |-> 0, prepared |-> 0]

Init == /\ mem = <<>> /\ stored = <<>> /\ latch = FALSE
        /\ loop = IdleLoop /\ outcome = ""
        /\ issued = {} /\ executed = [c \in CallIds |-> 0]
        /\ runs = 0 /\ failures = 0 /\ outages = 0 /\ crashes = 0

-----------------------------------------------------------------------------
(* Log.AppendBatch of a storage-bound Log. *)
AppendSucceeds(batch) ==
  /\ ~latch /\ Len(stored) = Len(mem)
  /\ mem' = mem \o batch
  /\ stored' = stored \o batch
  /\ UNCHANGED <<latch, failures, outages>>

AppendMeetsLatch ==
  /\ latch
  /\ UNCHANGED logVars

(* The storage has rows this memory lacks: StorageConflictError. *)
AppendConflicts ==
  /\ ~latch /\ Len(stored) # Len(mem)
  /\ latch' = TRUE /\ failures' = failures + 1
  /\ UNCHANGED <<mem, stored, outages>>

(* The events are published in memory only once they are stored.           *)
(* PublishedAnyway, the mutant, publishes them before.                     *)
PublishedAnyway(batch) == mem' = mem \o batch
NotPublished(batch) == mem' = mem

(* The write fails, or is reported as failed although it was committed. *)
AppendFails(batch) ==
  /\ ~latch /\ Len(stored) = Len(mem) /\ outages < MaxOutages
  /\ latch' = TRUE /\ failures' = failures + 1 /\ outages' = outages + 1
  /\ stored' \in {stored, stored \o batch}
  /\ NotPublished(batch)

Append_(batch) == \/ AppendSucceeds(batch) \/ AppendMeetsLatch
                  \/ AppendConflicts \/ AppendFails(batch)

At_(pc) == loop.pc = pc
Goto(pc) == loop' = [loop EXCEPT !.pc = pc] /\ UNCHANGED outcome
Return(reason) == loop' = IdleLoop /\ outcome' = reason

history == <<issued, executed, runs, crashes>>

-----------------------------------------------------------------------------
(* The host. *)
StartRun == /\ At_("idle") /\ runs < MaxRuns
            /\ runs' = runs + 1
            /\ loop' = [IdleLoop EXCEPT !.pc = "entry"]
            /\ outcome' = ""
            /\ UNCHANGED <<issued, executed, crashes>>

(* Agent.ChatPayload: append the message, whatever comes of it, and Run. *)
Chat == StartRun /\ Append_(<<UserMessage>>)

(* AgentLoop.Run on its own, to resume. *)
Resume == StartRun /\ UNCHANGED logVars

(* unresolvedToolUse, for a call whose approval was requested: all that     *)
(* the API checks, and all that a host goes by, is that it has no result.   *)
(* ApprovableAgain, the mutant, forgets the result.                        *)
ApprovableAgain(c) == c \in Ids(mem, "approval_requested")
Approvable(c) == c \in Pending(mem) \cap Ids(mem, "approval_requested")

ApproveToolUse(c) ==
  /\ At_("idle") /\ runs < MaxRuns
  /\ Approvable(c)
  /\ runs' = runs + 1
  /\ Append_(<<ApprovalResolved(c)>>)
  /\ IF latch' THEN Return("storage_error")
     ELSE /\ loop' = [IdleLoop EXCEPT !.pc = "approved", !.queue = <<c>>]
          /\ outcome' = ""
  /\ UNCHANGED <<issued, executed, crashes>>

RunApprovedTool ==
  /\ At_("approved")
  /\ executed' = [executed EXCEPT ![Head(loop.queue)] = @ + 1]
  /\ Goto("approved result")
  /\ UNCHANGED <<logVars, issued, runs, crashes>>

AppendApprovedResult ==
  /\ At_("approved result")
  /\ Append_(<<ToolResult(Head(loop.queue), "done")>>)
  /\ Return(IF latch' THEN "storage_error" ELSE "resolved")
  /\ UNCHANGED history

(* DenyToolUse makes both appends and looks at the latch only then. *)
DenyToolUse(c) ==
  /\ At_("idle") /\ runs < MaxRuns
  /\ Approvable(c)
  /\ runs' = runs + 1
  /\ Append_(<<ApprovalResolved(c)>>)
  /\ loop' = [IdleLoop EXCEPT !.pc = "denied", !.queue = <<c>>]
  /\ outcome' = ""
  /\ UNCHANGED <<issued, executed, crashes>>

AppendDeniedResult ==
  /\ At_("denied")
  /\ Append_(<<ToolResult(Head(loop.queue), "rejected")>>)
  /\ Return(IF latch' THEN "storage_error" ELSE "resolved")
  /\ UNCHANGED history

ClearStorageErr ==
  /\ At_("idle") /\ latch
  /\ latch' = FALSE
  /\ UNCHANGED <<mem, stored, loop, outcome, history, failures, outages>>

(* LoadSessionFromStorage, after a failure or in a new process. *)
Reload ==
  /\ mem' = stored /\ latch' = FALSE
  /\ UNCHANGED <<stored, failures, outages>>

ReloadSession ==
  /\ At_("idle") /\ latch
  /\ Reload
  /\ UNCHANGED <<loop, outcome, history>>

Crash ==
  /\ ~At_("idle") /\ crashes < MaxCrashes
  /\ crashes' = crashes + 1
  /\ Reload
  /\ Return("crashed")
  /\ UNCHANGED <<issued, executed, runs>>

-----------------------------------------------------------------------------
(* Run, up to its first turn: the latch, AnalyzeDurableLog, a terminal      *)
(* error and prepareRunEntry.                                              *)
RunEntry ==
  LET entry == EntryOutcome(mem)
  IN  /\ At_("entry")
      /\ IF latch THEN Return("storage_error")
         ELSE IF entry = "proceed"
         THEN loop' = [loop EXCEPT !.pc = "turn", !.turn = 1] /\ UNCHANGED outcome
         ELSE IF entry = "dispatch"
         THEN loop' = [loop EXCEPT !.pc = "dispatch", !.from = "entry"] /\ UNCHANGED outcome
         ELSE Return(entry)
      /\ UNCHANGED <<logVars, history>>

(* pendingToolUses lists calls in log order.                                *)
Distinct(calls) == \A i, j \in DOMAIN calls : calls[i] = calls[j] => i = j

InLogOrder(ids) ==
  {calls \in [1 .. Cardinality(ids) -> ids] :
     /\ Distinct(calls)
     /\ \A i, j \in DOMAIN calls : i < j =>
          \E m, n \in At(mem, DOMAIN mem, "tool_use") :
            m < n /\ mem[m].id = calls[i] /\ mem[n].id = calls[j]}

(* dispatchPendingTools, first pass: the pre_tool_use hooks decide on every *)
(* pending call; one request for approval holds the whole batch.           *)
DecideTools ==
  /\ At_("dispatch") /\ Pending(mem) # {}
  /\ \E decision \in [Pending(mem) -> {"allow", "deny", "ask"}] :
       LET asked == {c \in Pending(mem) : decision[c] = "ask"}
       IN  \/ /\ asked # {}
              /\ \E calls \in InLogOrder(asked) :
                   loop' = [loop EXCEPT !.pc = "ask", !.queue = calls]
           \/ /\ asked = {}
              /\ \E calls \in InLogOrder(Pending(mem)) :
                   loop' = [loop EXCEPT !.pc = "tools", !.queue = calls, !.ran = FALSE,
                              !.denied = {c \in Pending(mem) : decision[c] = "deny"}]
  /\ UNCHANGED <<logVars, outcome, history>>

(* The step's calls all have results already: their ids were used before. *)
NoPendingTools ==
  /\ At_("dispatch") /\ Pending(mem) = {}
  /\ Return("no_pending_tools")
  /\ UNCHANGED <<logVars, history>>

(* One approval_requested after another; the last one ends the Run.        *)
(* Mutants: the latch is not looked at; a request is tried until stored.    *)
NextRequest(last) ==
  IF Len(loop.queue) > 1
  THEN loop' = [loop EXCEPT !.queue = Tail(@)] /\ UNCHANGED outcome
  ELSE Return(last)

AskApprovalUnchecked ==
  /\ At_("ask")
  /\ Append_(<<ApprovalRequested(Head(loop.queue))>>)
  /\ NextRequest("awaiting_approval")
  /\ UNCHANGED history

AskApprovalForever ==
  /\ At_("ask")
  /\ Append_(<<ApprovalRequested(Head(loop.queue))>>)
  /\ IF latch' THEN UNCHANGED <<loop, outcome>> ELSE NextRequest("awaiting_approval")
  /\ UNCHANGED history

AskApproval ==
  /\ At_("ask")
  /\ Append_(<<ApprovalRequested(Head(loop.queue))>>)
  /\ NextRequest(IF latch' THEN "storage_error" ELSE "awaiting_approval")
  /\ UNCHANGED history

(* Second pass: Runner.Run, or a rejection, for each call in turn.  Nothing *)
(* here looks at the latch or at a terminal error.                         *)
RunTool ==
  /\ At_("tools") /\ Head(loop.queue) \notin loop.denied
  /\ executed' = [executed EXCEPT ![Head(loop.queue)] = @ + 1]
  /\ Goto("result")
  /\ UNCHANGED <<logVars, issued, runs, crashes>>

NextCall == loop' = [loop EXCEPT !.queue = Tail(@), !.ran = TRUE,
                                 !.pc = IF Len(loop.queue) = 1 THEN "dispatched" ELSE "tools"]

(* Mutant: a terminal error keeps the result from being recorded. *)
AppendToolResultUnlessTerminal ==
  /\ At_("result")
  /\ IF Terminal(mem) THEN UNCHANGED logVars
     ELSE Append_(<<ToolResult(Head(loop.queue), "done")>>)
  /\ NextCall
  /\ UNCHANGED <<outcome, history>>

AppendToolResult ==
  /\ At_("result")
  /\ Append_(<<ToolResult(Head(loop.queue), "done")>>)
  /\ NextCall
  /\ UNCHANGED <<outcome, history>>

RejectTool ==
  /\ At_("tools") /\ Head(loop.queue) \in loop.denied
  /\ Append_(<<ToolResult(Head(loop.queue), "rejected")>>)
  /\ NextCall
  /\ UNCHANGED <<outcome, history>>

(* The loop of Run is over. *)
LastTurn == loop.turn = MaxTurns

(* After the batch, in Run and in prepareRunEntry. *)
AfterDispatch ==
  /\ At_("dispatched")
  /\ IF latch THEN Return("storage_error")
     ELSE IF Pending(mem) # {} THEN Return("integrity_error")
     ELSE IF Terminal(mem) THEN Return("runtime_failed")
     ELSE IF LastTurn THEN Return("max_turns_reached")
     ELSE /\ loop' = [IdleLoop EXCEPT !.pc = "turn", !.turn = loop.turn + 1]
          /\ UNCHANGED outcome
  /\ UNCHANGED <<logVars, history>>

-----------------------------------------------------------------------------
(* Hooks.  A guard (TimeoutGuard, CostBudgetGuard, RepetitionGuard...)      *)
(* records a terminal runtime_error before a turn or after a tool; a        *)
(* pre_provider_call hook may append too.                                  *)
AfterATool == At_("dispatched") \/ At_("tools")

GuardTrips ==
  /\ At_("turn") \/ (AfterATool /\ loop.ran)
  /\ Append_(<<RuntimeError>>)
  /\ loop' = IF At_("turn") THEN [loop EXCEPT !.pc = "prepare"]
                            ELSE [loop EXCEPT !.ran = FALSE]
  /\ UNCHANGED <<outcome, history>>

(* A hook registered with HookErrorFailTurn panics: the terminal error is   *)
(* appended and TurnFailed unwinds Run.  A capability mismatch found by the *)
(* projection ends the same way.                                           *)
HookFailsTurn ==
  /\ \/ At_("turn") \/ At_("attempt") \/ At_("calling") \/ At_("dispatch")
     \/ AfterATool /\ loop.ran
  /\ Append_(<<RuntimeError>>)
  /\ Return("runtime_failed")
  /\ UNCHANGED history

HookAppends ==
  /\ At_("attempt")
  /\ Append_(<<Annotation>>)
  /\ Goto("invoke")
  /\ UNCHANGED history

-----------------------------------------------------------------------------
(* runTurn, from the pre_projection hooks to PreparedTranscript. *)
Prepare ==
  /\ At_("turn") \/ At_("prepare")
  /\ IF Terminal(mem) THEN Return("runtime_failed")
     ELSE IF ~ProviderReady(mem) THEN Return("integrity_error")
     ELSE /\ loop' = [loop EXCEPT !.pc = "attempt", !.attempt = 1, !.prepared = Len(mem)]
          /\ UNCHANGED outcome
  /\ UNCHANGED <<logVars, history>>

(* PreparedTranscript.current, after the pre_provider_call hooks: the log   *)
(* only grows, so its length tells.  The mutant does not look.             *)
CurrentUnchecked == loop.prepared > 0
Current == loop.prepared = Len(mem)

CallProvider ==
  /\ At_("attempt") \/ At_("invoke")
  /\ IF Current THEN Goto("calling") ELSE Return("integrity_error")
  /\ UNCHANGED <<logVars, history>>

(* callProviderWithRetry on a failed attempt: a durable provider_error, and *)
(* a new preparation before the next attempt.                              *)
ProviderFails(retryable) ==
  LET retry == retryable /\ loop.attempt < MaxAttempts
  IN  /\ At_("calling")
      /\ Append_(<<ProviderError(IF retry THEN "retried" ELSE "final")>>)
      /\ IF latch' THEN Return("storage_error")
         ELSE IF ~retry THEN Return("provider_failed")
         ELSE IF ~ProviderReady(mem') THEN Return("integrity_error")
         ELSE /\ loop' = [loop EXCEPT !.pc = "attempt", !.attempt = @ + 1,
                                       !.prepared = Len(mem')]
              /\ UNCHANGED outcome
      /\ UNCHANGED history

(* closeProviderStep: with a stop reason other than tool_use, every call of *)
(* the step is closed by an error result in the same batch; in the mutant,  *)
(* it is left open.                                                        *)
StagedOpen(stop, calls) ==
  <<AssistantMessage(stop)>> \o [i \in DOMAIN calls |-> ToolUse(calls[i])]

Staged(stop, calls) ==
  LET uses == [i \in DOMAIN calls |-> ToolUse(calls[i])]
      closed == [i \in DOMAIN calls |-> ToolResult(calls[i], "incomplete")]
  IN  <<AssistantMessage(stop)>> \o uses \o (IF stop = "tool_use" THEN <<>> ELSE closed)

(* The calls a provider may put in one step. *)
Steps(stop) ==
  {calls \in UNION {[1 .. n -> CallIds] : n \in 0 .. MaxCalls} :
     /\ Distinct(calls)
     /\ stop = "tool_use" => calls # <<>>
     /\ UniqueIds => \A i \in DOMAIN calls : calls[i] \notin issued}

ProviderAnswers ==
  /\ At_("calling")
  /\ \E stop \in StopReasons : \E calls \in Steps(stop) :
       /\ issued' = issued \cup {calls[i] : i \in DOMAIN calls}
       /\ Append_(Staged(stop, calls))
       /\ IF latch' THEN Return("storage_error")
          ELSE IF stop = "tool_use"
          THEN loop' = [loop EXCEPT !.pc = "dispatch", !.from = "turn"] /\ UNCHANGED outcome
          ELSE Return(IF calls = <<>> THEN "end_turn" ELSE "incomplete_tool_batch")
  /\ UNCHANGED <<executed, runs, crashes>>

(* closeProviderStep refuses a step without exactly one assistant message,  *)
(* with a call without id or name, a repeated id, a tool_result...         *)
ProviderAnswersMalformed ==
  /\ At_("calling")
  /\ Return(IF latch THEN "storage_error" ELSE "response_error")
  /\ UNCHANGED <<logVars, history>>

-----------------------------------------------------------------------------
Host == \/ Chat \/ Resume \/ ClearStorageErr \/ ReloadSession
        \/ \E c \in CallIds : ApproveToolUse(c) \/ DenyToolUse(c)

Running == \/ RunApprovedTool \/ AppendApprovedResult \/ AppendDeniedResult
           \/ RunEntry \/ DecideTools \/ NoPendingTools \/ AskApproval \/ RunTool \/ AppendToolResult
           \/ RejectTool \/ AfterDispatch \/ GuardTrips \/ HookFailsTurn \/ HookAppends
           \/ Prepare \/ CallProvider
           \/ \E retryable \in BOOLEAN : ProviderFails(retryable)
           \/ ProviderAnswers \/ ProviderAnswersMalformed

Next == Host \/ Running \/ Crash

Spec == Init /\ [][Next]_vars

(* Run and the approval API run on once called: the provider and the tools  *)
(* return (their clients have timeouts).  The host need not call.          *)
FairSpec == Spec /\ WF_vars(Running)

-----------------------------------------------------------------------------
(* What Run and the approval API return; a crash returns nothing. *)
Outcomes ==
  {"", "end_turn", "incomplete_tool_batch", "max_turns_reached", "awaiting_approval",
   "no_pending_tools", "integrity_error", "runtime_failed", "storage_error",
   "provider_failed", "response_error", "resolved", "crashed"}

(* Type correctness of the loop's locals, the log and the histories. *)
TypeOK ==
  /\ mem \in Seq(Event) /\ stored \in Seq(Event)
  /\ latch \in BOOLEAN
  /\ loop \in [pc : PCs, from : {"", "entry", "turn"}, queue : Seq(CallIds),
               denied : SUBSET CallIds, ran : BOOLEAN,
               turn : 0 .. MaxTurns, attempt : 0 .. MaxAttempts, prepared : Nat]
  /\ outcome \in Outcomes
  /\ issued \subseteq CallIds
  /\ executed \in [CallIds -> Nat]
  /\ runs \in 0 .. MaxRuns /\ failures \in Nat
  /\ outages \in 0 .. MaxOutages /\ crashes \in 0 .. MaxCrashes

Undisturbed == failures = 0 /\ crashes = 0

Count(events, e) == Cardinality({i \in DOMAIN events : events[i] = e})

(* While the provider is being called, the request it was given shows the   *)
(* whole log, and every tool call in it has its one result, after it        *)
(* (README: "prepared from an opaque, pair-closed PreparedTranscript").     *)
ProviderSeesWholeLog ==
  At_("calling") =>
    /\ loop.prepared = Len(mem)
    /\ \A i \in DOMAIN mem : mem[i].type = "tool_use" =>
         \E j \in i + 1 .. Len(mem) :
           /\ mem[j].type = "tool_result" /\ mem[j].id = mem[i].id
           /\ \A k \in DOMAIN mem \ {i, j} : mem[k].type \in {"tool_use", "tool_result"}
                                             => mem[k].id # mem[i].id

(* No step executes a tool whose approval was requested and not resolved    *)
(* since, whatever was decided, resumed, lost or reloaded in between.       *)
OpenApproval(events, c) ==
  \E i \in DOMAIN events :
    /\ events[i] = ApprovalRequested(c)
    /\ \A j \in i + 1 .. Len(events) : events[j] # ApprovalResolved(c)

AwaitingNeverExecutes ==
  [][\A c \in CallIds : OpenApproval(mem, c) => executed'[c] = executed[c]]_vars

(* With no failed write and no crash, the log accounts for every execution: *)
(* a call has run exactly as often as it has a "done" result, but for the   *)
(* one whose result is being appended; rejected and incomplete calls, and   *)
(* those of a batch held for approval, have not run at all.                 *)
Executing(c) == /\ loop.pc \in {"result", "approved result"}
                /\ Head(loop.queue) = c

LogAccountsForExecutions ==
  Undisturbed =>
    \A c \in CallIds : executed[c] = Count(mem, ToolResult(c, "done"))
                                      + (IF Executing(c) THEN 1 ELSE 0)

(* A call runs again at most once for each failed write and each crash: the *)
(* bound behind the advice to make tools idempotent (README, "Resume        *)
(* semantics").                                                             *)
ExecutionsBounded == \A c \in CallIds : executed[c] <= 1 + failures + crashes

(* "The tool_use is written through before dispatchPendingTools executes    *)
(* it" (README): a crash can forget that a tool ran, not that it was asked. *)
ExecutedIsDurable == \A c \in CallIds : executed[c] > 0 => c \in Ids(stored, "tool_use")

(* The loop and the approval API never corrupt the durable log, whatever    *)
(* the order of approvals, denials, retries, reloads and crashes.           *)
StoredIntact == DurableIntact(stored)

(* The only log on which every further Run fails with an integrity error is *)
(* the one with an approval resolved and its result lost to a failure.      *)
NeverWedged ==
  At_("idle") /\ EntryOutcome(mem) = "integrity_error" =>
    ~Undisturbed /\ ResolvedWithoutResult(mem) # {}

(* What a Run returns is true of the log it leaves: awaiting_approval means *)
(* that a request is there to resolve; a finished turn leaves no call open. *)
OutcomeIsTrue ==
  /\ outcome = "awaiting_approval" => Awaiting(mem) # {}
  /\ outcome \in {"end_turn", "incomplete_tool_batch", "max_turns_reached"} => Pending(mem) = {}

(* Every call of Run and of the approval API returns, storage outages and   *)
(* provider failures included.                                             *)
RunsReturn == (~At_("idle")) ~> At_("idle")

-----------------------------------------------------------------------------
(* What the repository says and the code does not do.                      *)

(* CHANGELOG: after incomplete_tool_batch "the same Session remains usable  *)
(* on the next message".                                                   *)
UsableAfterIncompleteBatch ==
  outcome = "incomplete_tool_batch" => EntryOutcome(mem) # "integrity_error"

(* approval.go: ApproveToolUse "executes exactly that tool_use exactly      *)
(* once": it does not execute a call that has been executed already.        *)
ApprovedExecutesOnce ==
  [][\A c \in CallIds : At_("approved") /\ executed'[c] # executed[c] => executed[c] = 0]_vars

(* log.go: after ClearStorageErr "the turn can safely be retried": without  *)
(* a crash, a call that needs no approval is not executed twice by Run.     *)
RetryIsSafe ==
  crashes = 0 => \A c \in CallIds \ Ids(mem, "approval_requested") : executed[c] <= 1
=============================================================================
