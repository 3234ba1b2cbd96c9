-------------------------- MODULE AgentLoopProofs --------------------------
(***************************************************************************)
(* Theorems about Run, the approval API and their host, for any numbers of  *)
(* calls, turns, attempts, outages and crashes.                            *)
(***************************************************************************)
EXTENDS AgentLoop, FiniteSetTheorems, FunctionTheorems, SequenceTheorems, TLAPS

AboutCalls == {"tool_use", "tool_result", "approval_requested", "approval_resolved"}
Approvals == {"approval_requested", "approval_resolved"}

(* The events the loop and its host append: no compaction, no call without id. *)
LoopEvents ==
  {e \in Event : /\ e.type \notin {"compact", "revert"} /\ e.span = {}
                 /\ e.type \in AboutCalls => e.id \in CallIds
                 /\ e.type \in Approvals => e.info = ""}

PlainEvents == {e \in LoopEvents : e.type \notin AboutCalls \cup {"assistant_message"}}

(* Where the loop, or the approval API, holds calls in its queue. *)
ApiPCs == {"approved", "approved result", "denied"}
Holding == {"ask", "tools", "result"} \cup ApiPCs

LoopTypes ==
  /\ TypeOK
  /\ mem \in Seq(LoopEvents) /\ stored \in Seq(LoopEvents)
  /\ loop.pc \in Holding => loop.queue # <<>>

(* What the loop keeps true of a log: an approval is about a call that is    *)
(* in it, calls are pending only after a step that asked for tools, and,     *)
(* when ids are not reused, each call and each result is there once and the  *)
(* result comes after its call.                                            *)
Paired(events) ==
  \A i, j \in DOMAIN events :
    /\ /\ events[i].type = events[j].type /\ events[i].type \in {"tool_use", "tool_result"}
       /\ events[i].id = events[j].id
       => i = j
    /\ events[j].type = "tool_result" =>
         \E k \in 1 .. j - 1 : events[k].type = "tool_use" /\ events[k].id = events[j].id

AskedLast(events) ==
  \E i \in DOMAIN events :
    /\ events[i].type = "assistant_message" /\ events[i].info = "tool_use"
    /\ \A j \in i + 1 .. Len(events) : events[j].type # "assistant_message"

ApprovalsOfCalls(events) ==
  \A type \in Approvals : Ids(events, type) \subseteq Ids(events, "tool_use")

SoundLog(events) ==
  /\ ApprovalsOfCalls(events)
  /\ Pending(events) # {} => AskedLast(events)
  /\ UniqueIds => Paired(events)

LogInv ==
  /\ SoundLog(mem) /\ SoundLog(stored)
  /\ Ids(stored, "tool_use") \subseteq issued

(* The memory is a prefix of the stored rows, all of them until a write fails. *)
StorageInv ==
  /\ Len(mem) <= Len(stored) /\ \A i \in 1 .. Len(mem) : stored[i] = mem[i]
  /\ failures = 0 => ~latch /\ stored = mem

(* The calls in the queue are pending, each of them once, and where the     *)
(* next step can execute one, its approval is not open.                    *)
QueueInv ==
  /\ loop.pc \in Holding =>
       /\ Distinct(loop.queue)
       /\ \A i \in DOMAIN loop.queue : loop.queue[i] \in Pending(mem)
  /\ loop.pc \in ApiPCs => Len(loop.queue) = 1
  /\ loop.pc \in {"tools", "result", "approved", "approved result"} =>
       \A i \in DOMAIN loop.queue : ~OpenApproval(mem, loop.queue[i])
  /\ loop.pc = "dispatch" => \A c \in Pending(mem) : ~OpenApproval(mem, c)

(* What was prepared is still the log, or shorter than it. *)
PreparedInv ==
  /\ loop.pc \in {"attempt", "invoke", "calling"} =>
       /\ loop.prepared <= Len(mem)
       /\ loop.prepared = Len(mem) => ProviderReady(mem)
  /\ loop.pc = "calling" => loop.prepared = Len(mem)

(* Truth of the outcome while the host has not called again. *)
Promises == {"awaiting_approval", "end_turn", "incomplete_tool_batch", "max_turns_reached"}

OutcomeInv ==
  /\ loop.pc # "idle" => outcome = ""
  /\ outcome \in Promises => ~latch
  /\ OutcomeIsTrue

(* Executions, against the results in the log and the failures since. *)
ExecutionsInv ==
  \A c \in CallIds :
    /\ executed[c] <= failures + crashes + 1
    /\ c \notin Ids(mem, "tool_result") /\ ~Executing(c) => executed[c] <= failures + crashes

(* Once the latch is set, the batch at hand runs on, without a trace in the  *)
(* log: each of its calls has its execution covered by the failed write.    *)
LatchedInv ==
  /\ loop.pc \in {"dispatch", "approved", "approved result"} => ~latch
  /\ latch /\ loop.pc \in {"tools", "result"} =>
       \A i \in DOMAIN loop.queue :
         /\ executed[loop.queue[i]] <= failures + crashes
         /\ ~Executing(loop.queue[i]) => executed[loop.queue[i]] + 1 <= failures + crashes

(* A resolution without its result is the one the API is at work on. *)
ResolvedInv ==
  Undisturbed => \A c \in ResolvedWithoutResult(mem) :
                   loop.pc \in ApiPCs /\ Head(loop.queue) = c

LoopCore ==
  /\ LogInv /\ StorageInv /\ QueueInv /\ PreparedInv
  /\ ExecutionsInv /\ LatchedInv /\ ExecutedIsDurable
  /\ LogAccountsForExecutions /\ ResolvedInv

LoopInv == LoopTypes /\ OutcomeInv /\ LoopCore

-----------------------------------------------------------------------------
(* Events and batches. *)
LEMMA MadeEvent ==
  ASSUME NEW type \in EventTypes \ {"compact", "revert"}, NEW id \in CallIds \cup {NoCall}, NEW info \in Infos,
         type \in AboutCalls => id \in CallIds, type \in Approvals => info = ""
  PROVE  /\ MakeEvent(type, id, info) \in LoopEvents
         /\ MakeEvent(type, id, info).type = type /\ MakeEvent(type, id, info).id = id
         /\ MakeEvent(type, id, info).info = info
<1>1. MakeEvent(type, id, info) = [type |-> type, id |-> id, info |-> info, span |-> {}]
  BY DEF MakeEvent
<1> DEFINE e == [type |-> type, id |-> id, info |-> info, span |-> {}]
<1>2. e.type = type /\ e.id = id /\ e.info = info /\ e.span = {}
  OBVIOUS
<1>3. e \in Event
  BY DEF Event
<1> HIDE DEF e
<1>4. e \in LoopEvents
  BY <1>2, <1>3 DEF LoopEvents
<1> QED
  BY <1>1, <1>2, <1>4 DEF e

LEMMA LoopEventsMade ==
  /\ UserMessage \in LoopEvents /\ Annotation \in LoopEvents /\ RuntimeError \in LoopEvents
  /\ \A info \in Infos : AssistantMessage(info) \in LoopEvents /\ ProviderError(info) \in LoopEvents
  /\ \A c \in CallIds : /\ ToolUse(c) \in LoopEvents
                        /\ ApprovalRequested(c) \in LoopEvents /\ ApprovalResolved(c) \in LoopEvents
                        /\ \A kind \in Infos : ToolResult(c, kind) \in LoopEvents
<1> USE DEF EventTypes, AboutCalls, Approvals
<1>1. {"", "terminal"} \subseteq Infos
  BY DEF Infos
<1>2. UserMessage \in LoopEvents /\ Annotation \in LoopEvents /\ RuntimeError \in LoopEvents
  BY <1>1, MadeEvent DEF UserMessage, Annotation, RuntimeError
<1>3. ASSUME NEW info \in Infos
      PROVE  AssistantMessage(info) \in LoopEvents /\ ProviderError(info) \in LoopEvents
  BY MadeEvent DEF AssistantMessage, ProviderError
<1>4. ASSUME NEW c \in CallIds
      PROVE  /\ ToolUse(c) \in LoopEvents
             /\ ApprovalRequested(c) \in LoopEvents /\ ApprovalResolved(c) \in LoopEvents
             /\ \A kind \in Infos : ToolResult(c, kind) \in LoopEvents
  BY <1>1, MadeEvent DEF ToolUse, ApprovalRequested, ApprovalResolved, ToolResult
<1> QED
  BY <1>2, <1>3, <1>4

LEMMA JoinedSeq ==
  ASSUME NEW S, NEW a \in Seq(S), NEW b \in Seq(S)
  PROVE  /\ a \o b \in Seq(S) /\ Len(a \o b) = Len(a) + Len(b)
         /\ DOMAIN (a \o b) = 1 .. Len(a) + Len(b)
         /\ \A i \in 1 .. Len(a) : (a \o b)[i] = a[i]
         /\ \A i \in 1 .. Len(b) : (a \o b)[Len(a) + i] = b[i]
<1>1. a \o b \in Seq(S) /\ Len(a \o b) = Len(a) + Len(b)
  OBVIOUS
<1>2. \A i \in 1 .. Len(a) : (a \o b)[i] = a[i]
  OBVIOUS
<1>3. \A i \in 1 .. Len(b) : (a \o b)[Len(a) + i] = b[i]
  OBVIOUS
<1> QED
  BY <1>1, <1>2, <1>3

LEMMA SeqShape ==
  ASSUME NEW S, NEW a \in Seq(S)
  PROVE  DOMAIN a = 1 .. Len(a) /\ Len(a) \in Nat /\ \A i \in 1 .. Len(a) : a[i] \in S
OBVIOUS

(* A provider step: its message, its calls, and their results if it closes  *)
(* them.                                                                   *)
LEMMA StagedTypes ==
  ASSUME NEW stop \in StopReasons, NEW calls \in Seq(CallIds)
  PROVE  /\ Staged(stop, calls) \in Seq(LoopEvents)
         /\ Len(Staged(stop, calls)) = 1 + Len(calls) + (IF stop = "tool_use" THEN 0 ELSE Len(calls))
         /\ Staged(stop, calls)[1] = AssistantMessage(stop)
         /\ \A i \in 1 .. Len(calls) : Staged(stop, calls)[1 + i] = ToolUse(calls[i])
         /\ stop # "tool_use" =>
              \A i \in 1 .. Len(calls) :
                Staged(stop, calls)[1 + Len(calls) + i] = ToolResult(calls[i], "incomplete")
<1> DEFINE n == Len(calls)
           first == <<AssistantMessage(stop)>>
           uses == [i \in DOMAIN calls |-> ToolUse(calls[i])]
           start == first \o uses
           closed == [i \in DOMAIN calls |-> ToolResult(calls[i], "incomplete")]
<1>1. n \in Nat /\ DOMAIN calls = 1 .. n /\ \A i \in 1 .. n : calls[i] \in CallIds
  OBVIOUS
<1>2. first \in Seq(LoopEvents) /\ Len(first) = 1 /\ first[1] = AssistantMessage(stop)
  <2>1. AssistantMessage(stop) \in LoopEvents
    BY LoopEventsMade DEF Infos
  <2> QED
    BY <2>1
<1>3. uses \in Seq(LoopEvents) /\ Len(uses) = n /\ \A i \in 1 .. n : uses[i] = ToolUse(calls[i])
  <2>1. \A i \in 1 .. n : ToolUse(calls[i]) \in LoopEvents
    BY <1>1, LoopEventsMade
  <2> QED
    BY <1>1, <2>1
<1>4. /\ closed \in Seq(LoopEvents) /\ Len(closed) = n
      /\ \A i \in 1 .. n : closed[i] = ToolResult(calls[i], "incomplete")
  <2>1. \A i \in 1 .. n : ToolResult(calls[i], "incomplete") \in LoopEvents
    BY <1>1, LoopEventsMade DEF Infos, ResultKinds
  <2> QED
    BY <1>1, <2>1
<1>5. Staged(stop, calls) = start \o (IF stop = "tool_use" THEN <<>> ELSE closed)
  BY DEF Staged
<1> HIDE DEF n, first, uses, closed
<1>6. /\ start \in Seq(LoopEvents) /\ Len(start) = 1 + n
      /\ start[1] = AssistantMessage(stop) /\ \A i \in 1 .. n : start[1 + i] = ToolUse(calls[i])
  <2>1. /\ first \o uses \in Seq(LoopEvents) /\ Len(first \o uses) = Len(first) + Len(uses)
        /\ \A i \in 1 .. Len(first) : (first \o uses)[i] = first[i]
        /\ \A i \in 1 .. Len(uses) : (first \o uses)[Len(first) + i] = uses[i]
    <3>1. first \in Seq(LoopEvents) /\ uses \in Seq(LoopEvents)
      BY <1>2, <1>3
    <3> QED
      BY <3>1, JoinedSeq
  <2> HIDE DEF start
  <2>2. /\ start \in Seq(LoopEvents) /\ Len(start) = Len(first) + Len(uses)
        /\ \A i \in 1 .. Len(first) : start[i] = first[i]
        /\ \A i \in 1 .. Len(uses) : start[Len(first) + i] = uses[i]
    BY <2>1 DEF start
  <2>3. start[1] = first[1] /\ \A i \in 1 .. n : start[1 + i] = uses[i]
    BY <1>1, <1>2, <1>3, <2>2
  <2> QED
    BY <1>1, <1>2, <1>3, <2>2, <2>3
<1> HIDE DEF start
<1>7. CASE stop = "tool_use"
  <2>1. Staged(stop, calls) = start
    BY <1>5, <1>6, <1>7
  <2> QED
    BY <1>1, <1>6, <1>7, <2>1 DEF n
<1>8. CASE stop # "tool_use"
  <2> DEFINE batch == start \o closed
  <2>1. Staged(stop, calls) = batch
    BY <1>5, <1>8
  <2>2. /\ batch \in Seq(LoopEvents) /\ Len(batch) = 1 + n + n
        /\ \A i \in 1 .. 1 + n : batch[i] = start[i]
        /\ \A i \in 1 .. n : batch[1 + n + i] = closed[i]
    <3>1. /\ start \o closed \in Seq(LoopEvents) /\ Len(start \o closed) = Len(start) + Len(closed)
          /\ \A i \in 1 .. Len(start) : (start \o closed)[i] = start[i]
          /\ \A i \in 1 .. Len(closed) : (start \o closed)[Len(start) + i] = closed[i]
      <4>1. start \in Seq(LoopEvents) /\ closed \in Seq(LoopEvents)
        BY <1>4, <1>6
      <4> QED
        BY <4>1, JoinedSeq
    <3> HIDE DEF batch
    <3>2. /\ batch \in Seq(LoopEvents) /\ Len(batch) = Len(start) + Len(closed)
          /\ \A i \in 1 .. Len(start) : batch[i] = start[i]
          /\ \A i \in 1 .. Len(closed) : batch[Len(start) + i] = closed[i]
      BY <3>1 DEF batch
    <3> QED
      BY <1>1, <1>4, <1>6, <3>2
  <2>3. 1 \in 1 .. 1 + n /\ \A i \in 1 .. n : 1 + i \in 1 .. 1 + n
    BY <1>1
  <2> HIDE DEF batch
  <2>4. batch[1] = AssistantMessage(stop) /\ \A i \in 1 .. n : batch[1 + i] = ToolUse(calls[i])
    BY <1>6, <2>2, <2>3
  <2>5. \A i \in 1 .. n : batch[1 + n + i] = ToolResult(calls[i], "incomplete")
    BY <1>4, <2>2
  <2> QED
    BY <1>8, <2>1, <2>2, <2>4, <2>5 DEF n
<1> QED
  BY <1>7, <1>8

(* What an append may do. *)
LEMMA Appends ==
  ASSUME LoopTypes, NEW batch \in Seq(LoopEvents), Append_(batch)
  PROVE  /\ mem' \in Seq(LoopEvents) /\ stored' \in Seq(LoopEvents)
         /\ latch' \in BOOLEAN /\ failures' \in Nat /\ outages' \in 0 .. MaxOutages
         /\ mem' = mem \/ (mem' = mem \o batch /\ stored' = stored \o batch /\ Len(stored) = Len(mem))
         /\ stored' = stored \/ (stored' = stored \o batch /\ Len(stored) = Len(mem))
         /\ latch => latch' /\ mem' = mem /\ stored' = stored /\ failures' = failures
         /\ ~latch /\ latch' => failures' = failures + 1 /\ mem' = mem
         /\ ~latch' => failures' = failures /\ mem' = mem \o batch /\ stored' = stored \o batch
                       /\ Len(stored) = Len(mem)
<1>1. /\ mem \in Seq(LoopEvents) /\ stored \in Seq(LoopEvents) /\ latch \in BOOLEAN /\ failures \in Nat
      /\ outages \in 0 .. MaxOutages /\ MaxOutages \in Nat
      /\ mem \o batch \in Seq(LoopEvents) /\ stored \o batch \in Seq(LoopEvents)
  BY AgentLoopAssumption, JoinedSeq DEF LoopTypes, TypeOK
<1>2. CASE AppendSucceeds(batch)
  BY <1>1, <1>2 DEF AppendSucceeds
<1>3. CASE AppendMeetsLatch
  BY <1>1, <1>3 DEF AppendMeetsLatch, logVars
<1>4. CASE AppendConflicts
  BY <1>1, <1>4 DEF AppendConflicts
<1>5. CASE AppendFails(batch)
  <2>1. /\ ~latch /\ Len(stored) = Len(mem) /\ outages < MaxOutages
        /\ latch' = TRUE /\ failures' = failures + 1 /\ outages' = outages + 1
        /\ stored' = stored \/ stored' = stored \o batch
        /\ mem' = mem
    BY <1>5 DEF AppendFails, NotPublished
  <2>2. outages' \in 0 .. MaxOutages /\ failures' \in Nat
    BY <1>1, <2>1
  <2>3. mem' \in Seq(LoopEvents) /\ stored' \in Seq(LoopEvents)
    BY <1>1, <2>1
  <2> QED
    BY <2>1, <2>2, <2>3
<1> QED
  BY <1>2, <1>3, <1>4, <1>5 DEF Append_

-----------------------------------------------------------------------------
(* What the log tells, and what an append changes of it. *)
LEMMA EventsMade ==
  ASSUME NEW c \in CallIds
  PROVE  /\ ToolUse(c).type = "tool_use" /\ ToolUse(c).id = c
         /\ \A kind \in Infos : ToolResult(c, kind).type = "tool_result" /\ ToolResult(c, kind).id = c
         /\ ApprovalRequested(c).type = "approval_requested" /\ ApprovalRequested(c).id = c
         /\ ApprovalResolved(c).type = "approval_resolved" /\ ApprovalResolved(c).id = c
         /\ \A stop \in Infos : /\ AssistantMessage(stop).type = "assistant_message"
                               /\ AssistantMessage(stop).info = stop
BY DEF MakeEvent, ToolUse, ToolResult, ApprovalRequested, ApprovalResolved, AssistantMessage

LEMMA IdsMembers ==
  ASSUME NEW events, NEW type, NEW c
  PROVE  c \in Ids(events, type) <=>
           \E i \in DOMAIN events : events[i].type = type /\ events[i].id = c
BY DEF Ids, IdsAt, At

LEMMA IdsJoined ==
  ASSUME NEW a \in Seq(LoopEvents), NEW b \in Seq(LoopEvents), NEW type
  PROVE  Ids(a \o b, type) = Ids(a, type) \cup Ids(b, type)
<1> DEFINE ab == a \o b
<1>1. /\ DOMAIN ab = 1 .. Len(a) + Len(b)
      /\ \A i \in 1 .. Len(a) : ab[i] = a[i]
      /\ \A i \in 1 .. Len(b) : ab[Len(a) + i] = b[i]
  BY JoinedSeq
<1>2. /\ DOMAIN a = 1 .. Len(a) /\ Len(a) \in Nat
      /\ DOMAIN b = 1 .. Len(b) /\ Len(b) \in Nat
  OBVIOUS
<1> HIDE DEF ab
<1>3. ASSUME NEW c \in Ids(ab, type)
      PROVE  c \in Ids(a, type) \cup Ids(b, type)
  <2>1. PICK i \in 1 .. Len(a) + Len(b) : ab[i].type = type /\ ab[i].id = c
    BY <1>1, <1>3, IdsMembers
  <2>2. CASE i \in 1 .. Len(a)
    BY <1>1, <1>2, <2>1, <2>2, IdsMembers
  <2>3. CASE i \notin 1 .. Len(a)
    <3>1. i - Len(a) \in 1 .. Len(b) /\ Len(a) + (i - Len(a)) = i
      BY <1>2, <2>3
    <3>2. ab[i] = b[i - Len(a)]
      BY <1>1, <3>1
    <3> QED
      BY <1>2, <2>1, <3>1, <3>2, IdsMembers
  <2> QED
    BY <2>2, <2>3
<1>4. ASSUME NEW c \in Ids(a, type)
      PROVE  c \in Ids(ab, type)
  <2>1. PICK i \in 1 .. Len(a) : a[i].type = type /\ a[i].id = c
    BY <1>2, <1>4, IdsMembers
  <2>2. i \in DOMAIN ab /\ ab[i] = a[i]
    BY <1>1, <1>2
  <2> QED
    BY <2>1, <2>2, IdsMembers
<1>5. ASSUME NEW c \in Ids(b, type)
      PROVE  c \in Ids(ab, type)
  <2>1. PICK i \in 1 .. Len(b) : b[i].type = type /\ b[i].id = c
    BY <1>2, <1>5, IdsMembers
  <2>2. Len(a) + i \in DOMAIN ab /\ ab[Len(a) + i] = b[i]
    BY <1>1, <1>2
  <2> QED
    BY <2>1, <2>2, IdsMembers
<1> QED
  BY <1>3, <1>4, <1>5 DEF ab

LEMMA IdsOfOne ==
  ASSUME NEW e, NEW type
  PROVE  Ids(<<e>>, type) = IF e.type = type THEN {e.id} ELSE {}
<1>1. DOMAIN <<e>> = {1} /\ <<e>>[1] = e
  OBVIOUS
<1> DEFINE one == <<e>>
<1> HIDE DEF one
<1>2. DOMAIN one = {1} /\ one[1] = e
  BY <1>1 DEF one
<1>3. Ids(one, type) = IF e.type = type THEN {e.id} ELSE {}
  BY <1>2 DEF Ids, IdsAt, At
<1> QED
  BY <1>3 DEF one

(* The positions of a provider step: message, calls, results. *)
LEMMA StagedShape ==
  ASSUME NEW stop \in StopReasons, NEW calls \in Seq(CallIds), NEW p \in DOMAIN Staged(stop, calls)
  PROVE  LET e == Staged(stop, calls)[p] IN
         /\ p = 1 => e.type = "assistant_message" /\ e.info = stop
         /\ p # 1 => e.type \in {"tool_use", "tool_result"}
         /\ e.type = "tool_use" <=> p \in 2 .. Len(calls) + 1
         /\ e.type = "tool_use" => e = ToolUse(calls[p - 1]) /\ e.id = calls[p - 1]
         /\ e.type = "tool_result" =>
              /\ stop # "tool_use" /\ p \in Len(calls) + 2 .. 2 * Len(calls) + 1
              /\ e = ToolResult(calls[(p - 1) - Len(calls)], "incomplete")
              /\ e.id = calls[(p - 1) - Len(calls)]
<1> DEFINE n == Len(calls)
           batch == Staged(stop, calls)
<1>1. n \in Nat /\ \A i \in 1 .. n : calls[i] \in CallIds
  OBVIOUS
<1>2. /\ batch \in Seq(LoopEvents)
      /\ Len(batch) = 1 + n + (IF stop = "tool_use" THEN 0 ELSE n)
      /\ batch[1] = AssistantMessage(stop)
      /\ \A i \in 1 .. n : batch[1 + i] = ToolUse(calls[i])
      /\ stop # "tool_use" =>
           \A i \in 1 .. n : batch[1 + n + i] = ToolResult(calls[i], "incomplete")
  BY StagedTypes
<1>3. AssistantMessage(stop).type = "assistant_message" /\ AssistantMessage(stop).info = stop
  BY DEF AssistantMessage, MakeEvent
<1>4. p \in 1 .. Len(batch)
  BY <1>2, SeqShape
<1> HIDE DEF n, batch
<1>5. CASE p = 1
  BY <1>1, <1>2, <1>3, <1>5 DEF batch, n
<1>6. CASE p \in 2 .. n + 1
  <2>1. p - 1 \in 1 .. n /\ 1 + (p - 1) = p
    BY <1>1, <1>6
  <2>2. batch[p] = ToolUse(calls[p - 1]) /\ calls[p - 1] \in CallIds
    BY <1>1, <1>2, <2>1
  <2> QED
    BY <1>6, <2>2, EventsMade DEF batch, n
<1>7. CASE p # 1 /\ p \notin 2 .. n + 1
  <2>1. stop # "tool_use" /\ p \in n + 2 .. 2 * n + 1
    BY <1>1, <1>2, <1>4, <1>7
  <2>2. (p - 1) - n \in 1 .. n /\ 1 + n + ((p - 1) - n) = p
    BY <1>1, <2>1
  <2>3. /\ batch[p] = ToolResult(calls[(p - 1) - n], "incomplete")
        /\ calls[(p - 1) - n] \in CallIds
    BY <1>1, <1>2, <2>1, <2>2
  <2>4. batch[p].type = "tool_result" /\ batch[p].id = calls[(p - 1) - n]
    <3>1. "incomplete" \in Infos
      BY DEF Infos, ResultKinds
    <3> QED
      BY <2>3, <3>1, EventsMade
  <2> QED
    BY <1>7, <2>1, <2>3, <2>4 DEF batch, n
<1> QED
  BY <1>5, <1>6, <1>7

LEMMA StagedIds ==
  ASSUME NEW stop \in StopReasons, NEW calls \in Seq(CallIds)
  PROVE  LET given == {calls[i] : i \in DOMAIN calls} IN
         /\ Ids(Staged(stop, calls), "tool_use") = given
         /\ Ids(Staged(stop, calls), "tool_result") = IF stop = "tool_use" THEN {} ELSE given
         /\ \A type \in Approvals : Ids(Staged(stop, calls), type) = {}
<1> DEFINE n == Len(calls)
           batch == Staged(stop, calls)
<1>1. n \in Nat /\ DOMAIN calls = 1 .. n /\ \A i \in 1 .. n : calls[i] \in CallIds
  OBVIOUS
<1>2. /\ DOMAIN batch = 1 .. 1 + n + (IF stop = "tool_use" THEN 0 ELSE n)
      /\ \A i \in 1 .. n : batch[1 + i] = ToolUse(calls[i])
      /\ stop # "tool_use" =>
           \A i \in 1 .. n : batch[1 + n + i] = ToolResult(calls[i], "incomplete")
  <2>1. /\ batch \in Seq(LoopEvents)
        /\ Len(batch) = 1 + n + (IF stop = "tool_use" THEN 0 ELSE n)
        /\ \A i \in 1 .. n : batch[1 + i] = ToolUse(calls[i])
        /\ stop # "tool_use" =>
             \A i \in 1 .. n : batch[1 + n + i] = ToolResult(calls[i], "incomplete")
    BY StagedTypes
  <2> HIDE DEF n, batch
  <2>2. DOMAIN batch = 1 .. Len(batch)
    BY <2>1, SeqShape
  <2> QED
    BY <2>1, <2>2
<1>3. \A p \in DOMAIN batch :
        /\ p = 1 => batch[p].type = "assistant_message"
        /\ p # 1 => batch[p].type \in {"tool_use", "tool_result"}
        /\ batch[p].type = "tool_use" =>
             p \in 2 .. n + 1 /\ batch[p].id = calls[p - 1]
        /\ batch[p].type = "tool_result" =>
             /\ stop # "tool_use" /\ p \in n + 2 .. 2 * n + 1
             /\ batch[p].id = calls[(p - 1) - n]
  BY StagedShape
<1> HIDE DEF n, batch
<1>4. ASSUME NEW c
      PROVE  c \in Ids(batch, "tool_use") <=> \E i \in 1 .. n : calls[i] = c
  <2>1. ASSUME NEW i \in 1 .. n
        PROVE  1 + i \in DOMAIN batch /\ batch[1 + i].type = "tool_use" /\ batch[1 + i].id = calls[i]
    BY <1>1, <1>2, EventsMade
  <2>2. ASSUME NEW p \in DOMAIN batch, batch[p].type = "tool_use", batch[p].id = c
        PROVE  \E i \in 1 .. n : calls[i] = c
    BY <1>1, <1>3, <2>2
  <2> QED
    BY <2>1, <2>2, IdsMembers
<1>5. ASSUME NEW c
      PROVE  c \in Ids(batch, "tool_result") <=>
               stop # "tool_use" /\ \E i \in 1 .. n : calls[i] = c
  <2>1. ASSUME NEW i \in 1 .. n, stop # "tool_use"
        PROVE  /\ 1 + n + i \in DOMAIN batch
               /\ batch[1 + n + i].type = "tool_result" /\ batch[1 + n + i].id = calls[i]
    <3>1. "incomplete" \in Infos
      BY DEF Infos, ResultKinds
    <3>2. 1 + n + i \in DOMAIN batch /\ batch[1 + n + i] = ToolResult(calls[i], "incomplete")
      BY <1>1, <1>2, <2>1
    <3> QED
      BY <1>1, <3>1, <3>2, EventsMade
  <2>2. ASSUME NEW p \in DOMAIN batch, batch[p].type = "tool_result", batch[p].id = c
        PROVE  stop # "tool_use" /\ \E i \in 1 .. n : calls[i] = c
    BY <1>1, <1>3, <2>2
  <2> QED
    BY <2>1, <2>2, IdsMembers
<1>6. ASSUME NEW type \in Approvals, NEW c
      PROVE  c \notin Ids(batch, type)
  BY <1>3, IdsMembers DEF Approvals
<1> QED
  BY <1>1, <1>4, <1>5, <1>6 DEF batch

-----------------------------------------------------------------------------
(* The appends that keep a log sound: an event about a pending call (or     *)
(* about none), or a provider step on a log without pending calls.         *)
LegalEvent(events, e) ==
  /\ e \in LoopEvents /\ e.type \notin {"assistant_message", "tool_use"}
  /\ e.type \in AboutCalls => e.id \in Pending(events)

LegalStep(events, stop, calls) ==
  /\ stop \in StopReasons /\ calls \in Seq(CallIds) /\ Distinct(calls)
  /\ Pending(events) = {}
  /\ UniqueIds => \A i \in DOMAIN calls : calls[i] \notin Ids(events, "tool_use")

LEMMA EventIds ==
  ASSUME NEW a \in Seq(LoopEvents), NEW e \in LoopEvents, NEW type
  PROVE  /\ a \o <<e>> \in Seq(LoopEvents) /\ Len(a \o <<e>>) = Len(a) + 1
         /\ DOMAIN (a \o <<e>>) = 1 .. Len(a) + 1
         /\ \A i \in 1 .. Len(a) : (a \o <<e>>)[i] = a[i]
         /\ (a \o <<e>>)[Len(a) + 1] = e
         /\ Ids(a \o <<e>>, type) = Ids(a, type) \cup (IF e.type = type THEN {e.id} ELSE {})
<1> DEFINE b == <<e>>
<1>1. b \in Seq(LoopEvents) /\ Len(b) = 1 /\ b[1] = e
  OBVIOUS
<1>2. Ids(b, type) = IF e.type = type THEN {e.id} ELSE {}
  BY IdsOfOne
<1> HIDE DEF b
<1>3. Ids(a \o b, type) = Ids(a, type) \cup (IF e.type = type THEN {e.id} ELSE {})
  BY <1>1, <1>2, IdsJoined
<1>4. /\ a \o b \in Seq(LoopEvents) /\ Len(a \o b) = Len(a) + Len(b)
      /\ DOMAIN (a \o b) = 1 .. Len(a) + Len(b)
      /\ \A i \in 1 .. Len(a) : (a \o b)[i] = a[i]
      /\ \A i \in 1 .. Len(b) : (a \o b)[Len(a) + i] = b[i]
  <2>1. b \in Seq(LoopEvents)
    BY <1>1
  <2> QED
    BY <2>1, JoinedSeq
<1>5. (a \o b)[Len(a) + 1] = e
  BY <1>1, <1>4
<1> QED
  BY <1>1, <1>3, <1>4, <1>5 DEF b

LEMMA EventPending ==
  ASSUME NEW a \in Seq(LoopEvents), NEW e, LegalEvent(a, e)
  PROVE  Pending(a \o <<e>>) = IF e.type = "tool_result" THEN Pending(a) \ {e.id} ELSE Pending(a)
<1>1. /\ Ids(a \o <<e>>, "tool_use") = Ids(a, "tool_use")
      /\ Ids(a \o <<e>>, "tool_result")
           = Ids(a, "tool_result") \cup (IF e.type = "tool_result" THEN {e.id} ELSE {})
  <2>1. e \in LoopEvents /\ e.type # "tool_use"
    BY DEF LegalEvent
  <2>2. \A type : Ids(a \o <<e>>, type) = Ids(a, type) \cup (IF e.type = type THEN {e.id} ELSE {})
    BY <2>1, EventIds
  <2> QED
    BY <2>1, <2>2
<1> QED
  BY <1>1 DEF Pending

LEMMA StepPending ==
  ASSUME NEW a \in Seq(LoopEvents), NEW stop, NEW calls, LegalStep(a, stop, calls)
  PROVE  LET given == {calls[i] : i \in DOMAIN calls}
             now == a \o Staged(stop, calls)
         IN  /\ now \in Seq(LoopEvents)
             /\ Ids(now, "tool_use") = Ids(a, "tool_use") \cup given
             /\ Ids(a, "tool_result") \subseteq Ids(now, "tool_result")
             /\ \A type \in Approvals : Ids(now, type) = Ids(a, type)
             /\ Pending(now) \subseteq given \ Ids(a, "tool_use")
             /\ stop # "tool_use" => Pending(now) = {}
<1> DEFINE given == {calls[i] : i \in DOMAIN calls}
           batch == Staged(stop, calls)
<1>1. stop \in StopReasons /\ calls \in Seq(CallIds) /\ Pending(a) = {}
  BY DEF LegalStep
<1>2. batch \in Seq(LoopEvents)
  BY <1>1, StagedTypes
<1>3. /\ Ids(batch, "tool_use") = given
      /\ Ids(batch, "tool_result") = IF stop = "tool_use" THEN {} ELSE given
      /\ \A type \in Approvals : Ids(batch, type) = {}
  BY <1>1, StagedIds
<1> HIDE DEF given, batch
<1>4. /\ a \o batch \in Seq(LoopEvents)
      /\ \A type : Ids(a \o batch, type) = Ids(a, type) \cup Ids(batch, type)
  BY <1>2, IdsJoined, JoinedSeq
<1>5. Ids(a, "tool_use") \subseteq Ids(a, "tool_result")
  BY <1>1 DEF Pending
<1>6. Pending(a \o batch) \subseteq given \ Ids(a, "tool_use")
  BY <1>3, <1>4, <1>5 DEF Pending
<1>7. stop # "tool_use" => Pending(a \o batch) = {}
  BY <1>3, <1>4, <1>5 DEF Pending
<1> QED
  BY <1>3, <1>4, <1>6, <1>7 DEF given, batch

LEMMA EventSound ==
  ASSUME NEW a \in Seq(LoopEvents), NEW e, LegalEvent(a, e), SoundLog(a)
  PROVE  SoundLog(a \o <<e>>)
<1> DEFINE b == a \o <<e>>
           n == Len(a)
<1>1. /\ e \in LoopEvents /\ e.type \notin {"assistant_message", "tool_use"}
      /\ e.type \in AboutCalls => e.id \in Pending(a)
      /\ Pending(a) \subseteq Ids(a, "tool_use")
  BY DEF LegalEvent, Pending
<1>2. /\ Len(b) = n + 1 /\ DOMAIN b = 1 .. n + 1
      /\ \A i \in 1 .. n : b[i] = a[i]
      /\ b[n + 1] = e
      /\ n \in Nat /\ DOMAIN a = 1 .. n
      /\ \A type : Ids(b, type) = Ids(a, type) \cup (IF e.type = type THEN {e.id} ELSE {})
  BY <1>1, EventIds
<1>3. Pending(b) \subseteq Pending(a)
  BY EventPending
<1> HIDE DEF b, n
<1>4. ApprovalsOfCalls(b)
  BY <1>1, <1>2 DEF ApprovalsOfCalls, SoundLog, Approvals, AboutCalls
<1>5. ASSUME Pending(b) # {}
      PROVE  AskedLast(b)
  <2>1. PICK i \in 1 .. n :
          /\ a[i].type = "assistant_message" /\ a[i].info = "tool_use"
          /\ \A j \in i + 1 .. n : a[j].type # "assistant_message"
    BY <1>2, <1>3, <1>5 DEF SoundLog, AskedLast, n
  <2>2. i \in DOMAIN b /\ b[i] = a[i]
    BY <1>2
  <2>3. ASSUME NEW j \in i + 1 .. Len(b)
        PROVE  b[j].type # "assistant_message"
    <3>1. CASE j = n + 1
      BY <1>1, <1>2, <3>1
    <3>2. CASE j # n + 1
      <4>1. j \in 1 .. n /\ j \in i + 1 .. n
        BY <1>2, <3>2
      <4> QED
        BY <1>2, <2>1, <4>1
    <3> QED
      BY <3>1, <3>2
  <2> QED
    BY <2>1, <2>2, <2>3 DEF AskedLast
<1>6. ASSUME UniqueIds
      PROVE  Paired(b)
  <2>1. \A i, j \in 1 .. n :
          /\ /\ a[i].type = a[j].type /\ a[i].type \in {"tool_use", "tool_result"}
             /\ a[i].id = a[j].id
             => i = j
          /\ a[j].type = "tool_result" =>
               \E k \in 1 .. j - 1 : a[k].type = "tool_use" /\ a[k].id = a[j].id
    BY <1>2, <1>6 DEF SoundLog, Paired
  <2>2. e.type = "tool_result" =>
          /\ \E k \in 1 .. n : a[k].type = "tool_use" /\ a[k].id = e.id
          /\ \A k \in 1 .. n : ~(a[k].type = "tool_result" /\ a[k].id = e.id)
    BY <1>1, <1>2, IdsMembers DEF Pending, AboutCalls
  <2>3. ASSUME NEW i \in 1 .. n + 1, NEW j \in 1 .. n + 1, b[i].type = b[j].type,
               b[i].type \in {"tool_use", "tool_result"}, b[i].id = b[j].id
        PROVE  i = j
    <3>1. CASE i \in 1 .. n /\ j \in 1 .. n
      BY <1>2, <2>1, <2>3, <3>1
    <3>2. CASE i = n + 1 /\ j \in 1 .. n
      BY <1>1, <1>2, <2>2, <2>3, <3>2
    <3>3. CASE i \in 1 .. n /\ j = n + 1
      BY <1>1, <1>2, <2>2, <2>3, <3>3
    <3> QED
      BY <1>2, <3>1, <3>2, <3>3
  <2>4. ASSUME NEW j \in 1 .. n + 1, b[j].type = "tool_result"
        PROVE  \E k \in 1 .. j - 1 : b[k].type = "tool_use" /\ b[k].id = b[j].id
    <3>1. CASE j \in 1 .. n
      <4>1. PICK k \in 1 .. j - 1 : a[k].type = "tool_use" /\ a[k].id = a[j].id
        BY <1>2, <2>1, <2>4, <3>1
      <4>2. k \in 1 .. n
        BY <1>2, <3>1
      <4> QED
        BY <1>2, <3>1, <4>1, <4>2
    <3>2. CASE j = n + 1
      BY <1>2, <2>2, <2>4, <3>2
    <3> QED
      BY <1>2, <3>1, <3>2
  <2> QED
    BY <1>2, <2>3, <2>4 DEF Paired
<1> QED
  BY <1>4, <1>5, <1>6 DEF SoundLog, b

LEMMA StepSound ==
  ASSUME NEW a \in Seq(LoopEvents), NEW stop, NEW calls, LegalStep(a, stop, calls), SoundLog(a)
  PROVE  SoundLog(a \o Staged(stop, calls))
<1> DEFINE batch == Staged(stop, calls)
           b == a \o batch
           n == Len(a)
           m == Len(calls)
<1>1. /\ stop \in StopReasons /\ calls \in Seq(CallIds) /\ Distinct(calls)
      /\ UniqueIds => \A i \in DOMAIN calls : calls[i] \notin Ids(a, "tool_use")
  BY DEF LegalStep
<1>2. m \in Nat /\ DOMAIN calls = 1 .. m
  BY <1>1
<1>3. /\ batch \in Seq(LoopEvents)
      /\ Len(batch) = 1 + m + (IF stop = "tool_use" THEN 0 ELSE m)
  BY <1>1, StagedTypes
<1>4. /\ DOMAIN b = 1 .. Len(b) /\ Len(b) = n + Len(batch)
      /\ \A i \in 1 .. n : b[i] = a[i]
      /\ \A p \in 1 .. Len(batch) : b[n + p] = batch[p]
  <2>1. batch \in Seq(LoopEvents)
    BY <1>3
  <2> HIDE DEF batch
  <2> QED
    BY <2>1, JoinedSeq
<1>5. n \in Nat /\ DOMAIN a = 1 .. n
  OBVIOUS
<1>6. \A p \in DOMAIN batch :
        /\ p = 1 => batch[p].type = "assistant_message" /\ batch[p].info = stop
        /\ p # 1 => batch[p].type \in {"tool_use", "tool_result"}
        /\ batch[p].type = "tool_use" <=> p \in 2 .. m + 1
        /\ batch[p].type = "tool_use" => batch[p].id = calls[p - 1]
        /\ batch[p].type = "tool_result" =>
             /\ p \in m + 2 .. 2 * m + 1
             /\ batch[p].id = calls[(p - 1) - m]
  BY <1>1, StagedShape
<1>7. DOMAIN batch = 1 .. Len(batch)
  <2>1. batch \in Seq(LoopEvents)
    BY <1>3
  <2> HIDE DEF batch
  <2> QED
    BY <2>1, SeqShape
<1>8. /\ Ids(b, "tool_use") = Ids(a, "tool_use") \cup {calls[i] : i \in DOMAIN calls}
      /\ \A type \in Approvals : Ids(b, type) = Ids(a, type)
      /\ stop # "tool_use" => Pending(b) = {}
  BY StepPending
<1> HIDE DEF batch, b, n, m
<1>9. ApprovalsOfCalls(b)
  BY <1>8 DEF ApprovalsOfCalls, SoundLog
<1>10. ASSUME Pending(b) # {}
       PROVE  AskedLast(b)
  <2>1. stop = "tool_use" /\ 1 \in DOMAIN batch
    BY <1>2, <1>3, <1>7, <1>8, <1>10
  <2>2. n + 1 \in DOMAIN b /\ b[n + 1].type = "assistant_message" /\ b[n + 1].info = "tool_use"
    BY <1>4, <1>5, <1>6, <1>7, <2>1
  <2>3. ASSUME NEW j \in (n + 1) + 1 .. Len(b)
        PROVE  b[j].type # "assistant_message"
    <3>1. j - n \in 1 .. Len(batch) /\ j - n # 1 /\ n + (j - n) = j
      BY <1>2, <1>3, <1>4, <1>5
    <3>2. b[j] = batch[j - n]
      BY <1>4, <3>1
    <3> QED
      BY <1>6, <1>7, <3>1, <3>2
  <2> QED
    BY <2>2, <2>3 DEF AskedLast
<1>11. ASSUME UniqueIds
       PROVE  Paired(b)
  <2>1. \A i, j \in 1 .. n :
          /\ /\ a[i].type = a[j].type /\ a[i].type \in {"tool_use", "tool_result"}
             /\ a[i].id = a[j].id
             => i = j
          /\ a[j].type = "tool_result" =>
               \E k \in 1 .. j - 1 : a[k].type = "tool_use" /\ a[k].id = a[j].id
    BY <1>5, <1>11 DEF SoundLog, Paired
  <2>2. ASSUME NEW i \in 1 .. n, a[i].type \in {"tool_use", "tool_result"}
        PROVE  a[i].id \in Ids(a, "tool_use")
    BY <1>5, <2>1, <2>2, IdsMembers
  <2>3. ASSUME NEW p \in 1 .. Len(batch), batch[p].type \in {"tool_use", "tool_result"}
        PROVE  batch[p].id \notin Ids(a, "tool_use")
    <3>1. CASE batch[p].type = "tool_use"
      <4>1. p - 1 \in DOMAIN calls /\ batch[p].id = calls[p - 1]
        BY <1>2, <1>6, <1>7, <3>1
      <4> QED
        BY <1>1, <1>11, <4>1
    <3>2. CASE batch[p].type = "tool_result"
      <4>1. (p - 1) - m \in DOMAIN calls /\ batch[p].id = calls[(p - 1) - m]
        BY <1>2, <1>6, <1>7, <3>2
      <4> QED
        BY <1>1, <1>11, <4>1
    <3> QED
      BY <2>3, <3>1, <3>2
  <2>4. ASSUME NEW p \in 1 .. Len(batch), NEW q \in 1 .. Len(batch),
               batch[p].type = batch[q].type, batch[p].type \in {"tool_use", "tool_result"},
               batch[p].id = batch[q].id
        PROVE  p = q
    <3>1. CASE batch[p].type = "tool_use"
      <4>1. /\ p - 1 \in DOMAIN calls /\ q - 1 \in DOMAIN calls
            /\ calls[p - 1] = calls[q - 1]
        <5>1. p \in DOMAIN batch /\ q \in DOMAIN batch /\ batch[q].type = "tool_use"
          BY <1>7, <2>4, <3>1
        <5>2. /\ p \in 2 .. m + 1 /\ batch[p].id = calls[p - 1]
              /\ q \in 2 .. m + 1 /\ batch[q].id = calls[q - 1]
          BY <1>6, <3>1, <5>1
        <5>3. p - 1 \in 1 .. m /\ q - 1 \in 1 .. m
          BY <1>2, <5>2
        <5>4. calls[p - 1] = calls[q - 1]
          BY <2>4, <5>2
        <5> QED
          BY <1>2, <5>3, <5>4
      <4>2. p - 1 = q - 1
        BY <1>1, <4>1 DEF Distinct
      <4> QED
        BY <1>2, <1>3, <4>2
    <3>2. CASE batch[p].type = "tool_result"
      <4>1. /\ (p - 1) - m \in DOMAIN calls /\ (q - 1) - m \in DOMAIN calls
            /\ calls[(p - 1) - m] = calls[(q - 1) - m]
        <5>1. p \in DOMAIN batch /\ q \in DOMAIN batch /\ batch[q].type = "tool_result"
          BY <1>7, <2>4, <3>2
        <5>2. /\ p \in m + 2 .. 2 * m + 1 /\ batch[p].id = calls[(p - 1) - m]
              /\ q \in m + 2 .. 2 * m + 1 /\ batch[q].id = calls[(q - 1) - m]
          BY <1>6, <3>2, <5>1
        <5>3. (p - 1) - m \in 1 .. m /\ (q - 1) - m \in 1 .. m
          BY <1>2, <5>2
        <5>4. calls[(p - 1) - m] = calls[(q - 1) - m]
          BY <2>4, <5>2
        <5> QED
          BY <1>2, <5>3, <5>4
      <4>2. (p - 1) - m = (q - 1) - m
        BY <1>1, <4>1 DEF Distinct
      <4> QED
        BY <1>2, <1>3, <4>2
    <3> QED
      BY <2>4, <3>1, <3>2
  <2>5. ASSUME NEW p \in 1 .. Len(batch), batch[p].type = "tool_result"
        PROVE  \E q \in 1 .. p - 1 : batch[q].type = "tool_use" /\ batch[q].id = batch[p].id
    <3>1. p \in m + 2 .. 2 * m + 1 /\ batch[p].id = calls[(p - 1) - m]
      BY <1>6, <1>7, <2>5
    <3>2. /\ p - m \in 1 .. p - 1 /\ p - m \in 2 .. m + 1 /\ p - m \in DOMAIN batch
          /\ (p - m) - 1 = (p - 1) - m
      BY <1>2, <1>3, <1>7, <3>1
    <3>3. batch[p - m].type = "tool_use" /\ batch[p - m].id = calls[(p - m) - 1]
      BY <1>6, <3>2
    <3> QED
      BY <3>1, <3>2, <3>3
  <2>6. \A j \in DOMAIN b : \/ j \in 1 .. n /\ b[j] = a[j]
                           \/ \E p \in 1 .. Len(batch) : j = n + p /\ b[j] = batch[p]
    <3>1. ASSUME NEW j \in DOMAIN b, j \notin 1 .. n
          PROVE  j - n \in 1 .. Len(batch) /\ j = n + (j - n)
      BY <1>2, <1>3, <1>4, <1>5, <3>1
    <3> QED
      BY <1>4, <3>1
  <2>7. ASSUME NEW i \in DOMAIN b, NEW j \in DOMAIN b, b[i].type = b[j].type,
               b[i].type \in {"tool_use", "tool_result"}, b[i].id = b[j].id
        PROVE  i = j
    <3>1. CASE i \in 1 .. n /\ j \in 1 .. n
      BY <1>4, <2>1, <2>7, <3>1
    <3>2. CASE i \in 1 .. n /\ j \notin 1 .. n
      <4>1. PICK p \in 1 .. Len(batch) : j = n + p /\ b[j] = batch[p]
        BY <2>6, <3>2
      <4> QED
        BY <1>4, <2>2, <2>3, <2>7, <3>2, <4>1
    <3>3. CASE i \notin 1 .. n /\ j \in 1 .. n
      <4>1. PICK p \in 1 .. Len(batch) : i = n + p /\ b[i] = batch[p]
        BY <2>6, <3>3
      <4> QED
        BY <1>4, <2>2, <2>3, <2>7, <3>3, <4>1
    <3>4. CASE i \notin 1 .. n /\ j \notin 1 .. n
      <4>1. PICK p \in 1 .. Len(batch) : i = n + p /\ b[i] = batch[p]
        BY <2>6, <3>4
      <4>2. PICK q \in 1 .. Len(batch) : j = n + q /\ b[j] = batch[q]
        BY <2>6, <3>4
      <4>3. p = q
        BY <2>4, <2>7, <4>1, <4>2
      <4> QED
        BY <4>1, <4>2, <4>3
    <3> QED
      BY <3>1, <3>2, <3>3, <3>4
  <2>8. ASSUME NEW j \in DOMAIN b, b[j].type = "tool_result"
        PROVE  \E k \in 1 .. j - 1 : b[k].type = "tool_use" /\ b[k].id = b[j].id
    <3>1. CASE j \in 1 .. n /\ b[j] = a[j]
      <4>1. PICK k \in 1 .. j - 1 : a[k].type = "tool_use" /\ a[k].id = a[j].id
        BY <2>1, <2>8, <3>1
      <4>2. k \in 1 .. n
        BY <1>5, <3>1
      <4> QED
        BY <1>4, <3>1, <4>1, <4>2
    <3>2. ASSUME NEW p \in 1 .. Len(batch), j = n + p, b[j] = batch[p]
          PROVE  \E k \in 1 .. j - 1 : b[k].type = "tool_use" /\ b[k].id = b[j].id
      <4>1. PICK q \in 1 .. p - 1 : batch[q].type = "tool_use" /\ batch[q].id = batch[p].id
        BY <2>5, <2>8, <3>2
      <4>2. n + q \in 1 .. j - 1 /\ q \in 1 .. Len(batch)
        BY <1>5, <1>2, <1>3, <3>2
      <4>3. b[n + q] = batch[q]
        BY <1>4, <4>2
      <4> QED
        BY <3>2, <4>1, <4>2, <4>3
    <3> QED
      BY <2>6, <3>1, <3>2
  <2> QED
    BY <2>7, <2>8 DEF Paired
<1> QED
  BY <1>9, <1>10, <1>11 DEF SoundLog, b, batch

-----------------------------------------------------------------------------
(* What the checks of integrity.go find in such logs. *)
LEMMA FirstUseIs ==
  ASSUME NEW events, NEW V \in SUBSET Nat, NEW k \in At(events, V, "tool_use"),
         \A j \in At(events, V, "tool_use") : events[j].id = events[k].id => j = k
  PROVE  FirstUse(events, V, events[k].id) = k
<1> DEFINE First(i) == /\ i \in At(events, V, "tool_use")
                       /\ events[i].id = events[k].id
                       /\ \A j \in At(events, V, "tool_use") : events[j].id = events[k].id => i <= j
<1>1. k \in Nat
  BY DEF At
<1>2. First(k)
  BY <1>1
<1>3. \A i : First(i) => i = k
  OBVIOUS
<1>4. FirstUse(events, V, events[k].id) = CHOOSE i : First(i)
  BY DEF FirstUse
<1> QED
  BY <1>2, <1>3, <1>4

(* Violations = {}, in words: every reference names a call, no call and no   *)
(* result is there twice, every result comes after its call.               *)
Named(events, V) ==
  \A i \in V : events[i].type \in {"tool_use", "tool_result"} => events[i].id # NoCall

Single(events, V, type) ==
  \A i, j \in V : events[i].type = type /\ events[j].type = type
                  /\ events[i].id = events[j].id /\ events[i].id # NoCall => ~(i < j)

Answers(events, V) ==
  \A i \in V : events[i].type = "tool_result" /\ events[i].id # NoCall =>
    /\ \E k \in V : events[k].type = "tool_use" /\ events[k].id = events[i].id
    /\ ~(i <= FirstUse(events, V, events[i].id))

LEMMA IntactMeans ==
  ASSUME NEW events, NEW V \in SUBSET Nat
  PROVE  Violations(events, V) = {} <=>
           /\ Named(events, V) /\ Answers(events, V)
           /\ Single(events, V, "tool_use") /\ Single(events, V, "tool_result")
<1> DEFINE uses == {i \in V : events[i].type = "tool_use"}
           results == {i \in V : events[i].type = "tool_result"}
           WithId(S) == {i \in S : events[i].id # NoCall}
           known == {i \in WithId(results) : \E k \in uses : events[k].id = events[i].id}
           A == (uses \cup results) \ WithId(uses \cup results)
           B == Repeated(events, WithId(uses))
           C == WithId(results) \ known
           D == {j \in known : j <= FirstUse(events, V, events[j].id)}
           E == Repeated(events, WithId(results))
<1>1. Violations(events, V) =
        {<<"missing_id", i>> : i \in A} \cup {<<"duplicate_tool_use_id", i>> : i \in B}
        \cup {<<"orphan_tool_result", i>> : i \in C}
        \cup {<<"tool_result_before_tool_use", i>> : i \in D}
        \cup {<<"duplicate_tool_result", i>> : i \in E}
  <2>1. /\ At(events, V, "tool_use") = uses /\ At(events, V, "tool_result") = results
        /\ \A c : c \in IdsAt(events, V, "tool_use") <=> \E k \in uses : events[k].id = c
    BY DEF At, IdsAt
  <2>2. {i \in WithId(results) : events[i].id \in IdsAt(events, V, "tool_use")} = known
    BY <2>1
  <2> QED
    BY <2>1, <2>2, Zenon DEF Violations
<1> HIDE DEF A, B, C, D, E
<1>2. Violations(events, V) = {} <=> A = {} /\ B = {} /\ C = {} /\ D = {} /\ E = {}
  BY <1>1
<1>3. A = {} <=> Named(events, V)
  BY DEF A, Named
<1>4. B = {} <=> Single(events, V, "tool_use")
  <2>1. B = {j \in WithId(uses) : \E i \in WithId(uses) : i < j /\ events[i].id = events[j].id}
    BY DEF B, Repeated
  <2>2. ASSUME NEW i \in V, NEW j \in V, events[i].type = "tool_use", events[j].type = "tool_use",
               events[i].id = events[j].id, events[i].id # NoCall, i < j
        PROVE  j \in B
    BY <2>1, <2>2
  <2>3. ASSUME NEW j \in B
        PROVE  ~Single(events, V, "tool_use")
    <3>1. PICK i \in WithId(uses) : i < j /\ events[i].id = events[j].id
      BY <2>1, <2>3
    <3>2. /\ i \in V /\ j \in V /\ events[i].type = "tool_use" /\ events[j].type = "tool_use"
          /\ events[i].id # NoCall
      BY <2>1, <2>3
    <3> QED
      BY <3>1, <3>2 DEF Single
  <2> QED
    BY <2>2, <2>3 DEF Single
<1>5. E = {} <=> Single(events, V, "tool_result")
  <2>1. E = {j \in WithId(results) : \E i \in WithId(results) : i < j /\ events[i].id = events[j].id}
    BY DEF E, Repeated
  <2>2. ASSUME NEW i \in V, NEW j \in V, events[i].type = "tool_result", events[j].type = "tool_result",
               events[i].id = events[j].id, events[i].id # NoCall, i < j
        PROVE  j \in E
    BY <2>1, <2>2
  <2>3. ASSUME NEW j \in E
        PROVE  ~Single(events, V, "tool_result")
    <3>1. PICK i \in WithId(results) : i < j /\ events[i].id = events[j].id
      BY <2>1, <2>3
    <3>2. /\ i \in V /\ j \in V /\ events[i].type = "tool_result" /\ events[j].type = "tool_result"
          /\ events[i].id # NoCall
      BY <2>1, <2>3
    <3> QED
      BY <3>1, <3>2 DEF Single
  <2> QED
    BY <2>2, <2>3 DEF Single
<1>6. C = {} /\ D = {} <=> Answers(events, V)
  <2>1. ASSUME NEW i \in V, events[i].type = "tool_result", events[i].id # NoCall, i \notin C, i \notin D
        PROVE  /\ \E k \in V : events[k].type = "tool_use" /\ events[k].id = events[i].id
               /\ ~(i <= FirstUse(events, V, events[i].id))
    BY <2>1 DEF C, D
  <2>2. ASSUME NEW i \in C \cup D, Answers(events, V)
        PROVE  FALSE
    BY <2>2 DEF C, D, Answers
  <2> QED
    BY <2>1, <2>2 DEF Answers
<1> QED
  BY <1>2, <1>3, <1>4, <1>5, <1>6

LEMMA PairedIntact ==
  ASSUME NEW events \in Seq(LoopEvents), Paired(events)
  PROVE  DurableIntact(events)
<1> DEFINE V == DOMAIN events
<1>1. V = 1 .. Len(events) /\ Len(events) \in Nat /\ V \in SUBSET Nat
      /\ \A i \in V : events[i] \in LoopEvents
  OBVIOUS
<1> HIDE DEF V
<1>2. \A i, j \in V :
        /\ /\ events[i].type = events[j].type /\ events[i].type \in {"tool_use", "tool_result"}
           /\ events[i].id = events[j].id
           => i = j
        /\ events[j].type = "tool_result" =>
             \E k \in 1 .. j - 1 : events[k].type = "tool_use" /\ events[k].id = events[j].id
  BY DEF Paired, V
<1>3. \A i \in V : events[i].type \in {"tool_use", "tool_result"} => events[i].id # NoCall
  BY <1>1, AgentLoopAssumption DEF LoopEvents, AboutCalls
<1>4. ASSUME NEW i \in V, events[i].type = "tool_result"
      PROVE  /\ \E k \in V : events[k].type = "tool_use" /\ events[k].id = events[i].id
             /\ ~(i <= FirstUse(events, V, events[i].id))
  <2>1. PICK k \in 1 .. i - 1 : events[k].type = "tool_use" /\ events[k].id = events[i].id
    BY <1>2, <1>4
  <2>2. k \in V /\ k < i /\ i \in Nat /\ k \in Nat
    BY <1>1
  <2>3. k \in At(events, V, "tool_use")
    BY <2>1, <2>2 DEF At
  <2>4. \A j \in At(events, V, "tool_use") : events[j].id = events[k].id => j = k
    BY <1>2, <2>1, <2>2 DEF At
  <2>5. FirstUse(events, V, events[k].id) = k
    BY <1>1, <2>3, <2>4, FirstUseIs
  <2> QED
    BY <2>1, <2>2, <2>5
<1>5. Violations(events, V) = {}
  <2>1. ASSUME NEW type \in {"tool_use", "tool_result"}, NEW i \in V, NEW j \in V,
               events[i].type = type, events[j].type = type, events[i].id = events[j].id
        PROVE  ~(i < j)
    <3>1. i = j
      BY <1>2, <2>1
    <3> QED
      BY <1>1, <3>1
  <2> QED
    <3>1. Named(events, V) /\ Answers(events, V)
      BY <1>3, <1>4 DEF Named, Answers
    <3>2. Single(events, V, "tool_use") /\ Single(events, V, "tool_result")
      BY <2>1 DEF Single
    <3> QED
      BY <1>1, <3>1, <3>2, IntactMeans
<1> QED
  BY <1>5 DEF DurableIntact, V

(* Nothing is compacted: a prepared transcript shows every event. *)
LEMMA AllVisible ==
  ASSUME NEW events \in Seq(LoopEvents)
  PROVE  Visible(events) = DOMAIN events
<1>1. \A i \in DOMAIN events : events[i].type \notin {"compact", "revert"}
  <2>1. \A i \in DOMAIN events : events[i] \in LoopEvents
    OBVIOUS
  <2> QED
    BY <2>1 DEF LoopEvents
<1>2. Shadowed(events) = {}
  BY <1>1 DEF Shadowed, ActiveCompacts, At
<1> QED
  BY <1>1, <1>2 DEF Visible

LEMMA ReadyMeans ==
  ASSUME NEW events \in Seq(LoopEvents), ProviderReady(events)
  PROVE  /\ Pending(events) = {}
         /\ \A i \in DOMAIN events : events[i].type = "tool_use" =>
              \E j \in i + 1 .. Len(events) :
                /\ events[j].type = "tool_result" /\ events[j].id = events[i].id
                /\ \A k \in DOMAIN events \ {i, j} :
                     events[k].type \in {"tool_use", "tool_result"} => events[k].id # events[i].id
<1> DEFINE V == DOMAIN events
<1>1. V = 1 .. Len(events) /\ Len(events) \in Nat /\ V \in SUBSET Nat
      /\ \A i \in V : events[i] \in LoopEvents
  OBVIOUS
<1>2. Violations(events, V) = {} /\ Unresolved(events, V) = {}
  BY AllVisible DEF ProviderReady, DurableIntact
<1> HIDE DEF V
<1>3. \A i \in V : events[i].type \in {"tool_use", "tool_result"} => events[i].id # NoCall
  BY <1>1, AgentLoopAssumption DEF LoopEvents, AboutCalls
<1>4. /\ \A i, j \in V : events[i].type = "tool_use" /\ events[j].type = "tool_use"
                         /\ events[i].id = events[j].id => i = j
      /\ \A i, j \in V : events[i].type = "tool_result" /\ events[j].type = "tool_result"
                         /\ events[i].id = events[j].id => i = j
      /\ \A i \in V : events[i].type = "tool_result" => ~(i <= FirstUse(events, V, events[i].id))
  <2>1. \A i, j \in V : ~(i < j) /\ ~(j < i) => i = j
    BY <1>1
  <2>2. /\ \A i, j \in V : events[i].type = "tool_use" /\ events[j].type = "tool_use"
                           /\ events[i].id = events[j].id /\ events[i].id # NoCall => ~(i < j)
        /\ \A i \in V : events[i].type = "tool_result" /\ events[i].id # NoCall =>
             ~(i <= FirstUse(events, V, events[i].id))
        /\ \A i, j \in V : events[i].type = "tool_result" /\ events[j].type = "tool_result"
                           /\ events[i].id = events[j].id /\ events[i].id # NoCall => ~(i < j)
    <3>1. /\ Answers(events, V)
          /\ Single(events, V, "tool_use") /\ Single(events, V, "tool_result")
      BY <1>1, <1>2, IntactMeans
    <3> QED
      BY <3>1 DEF Answers, Single
  <2> QED
    BY <1>3, <2>1, <2>2
<1>5. ASSUME NEW i \in V, events[i].type = "tool_use"
      PROVE  \E j \in V : events[j].type = "tool_result" /\ events[j].id = events[i].id
  BY <1>2, <1>3, <1>5 DEF Unresolved, IdsAt, At
<1>6. Pending(events) = {}
  <2>1. \A c : c \in Ids(events, "tool_use") => c \in Ids(events, "tool_result")
    BY <1>5, IdsMembers DEF V
  <2> QED
    BY <2>1 DEF Pending
<1>7. ASSUME NEW i \in V, events[i].type = "tool_use"
      PROVE  \E j \in i + 1 .. Len(events) :
                /\ events[j].type = "tool_result" /\ events[j].id = events[i].id
                /\ \A k \in V \ {i, j} :
                     events[k].type \in {"tool_use", "tool_result"} => events[k].id # events[i].id
  <2>1. PICK j \in V : events[j].type = "tool_result" /\ events[j].id = events[i].id
    BY <1>5, <1>7
  <2>2. i \in At(events, V, "tool_use")
        /\ \A k \in At(events, V, "tool_use") : events[k].id = events[i].id => k = i
    BY <1>4, <1>7 DEF At
  <2>3. FirstUse(events, V, events[i].id) = i
    BY <1>1, <2>2, FirstUseIs
  <2>4. j \in i + 1 .. Len(events)
    BY <1>1, <1>4, <2>1, <2>3
  <2>5. \A k \in V \ {i, j} : events[k].type \in {"tool_use", "tool_result"} => events[k].id # events[i].id
    BY <1>4, <1>7, <2>1
  <2> QED
    BY <2>1, <2>4, <2>5
<1> QED
  BY <1>6, <1>7 DEF V

LEMMA AskedLastStop ==
  ASSUME NEW events \in Seq(LoopEvents), AskedLast(events)
  PROVE  LastStop(events) = "tool_use"
<1> DEFINE A == At(events, DOMAIN events, "assistant_message")
           Last(i) == i \in A /\ \A j \in A : j <= i
<1>1. DOMAIN events = 1 .. Len(events) /\ Len(events) \in Nat
  OBVIOUS
<1>2. PICK i \in DOMAIN events :
        /\ events[i].type = "assistant_message" /\ events[i].info = "tool_use"
        /\ \A j \in i + 1 .. Len(events) : events[j].type # "assistant_message"
  BY DEF AskedLast
<1>3. i \in A /\ \A j \in A : j \in Nat /\ j <= i
  BY <1>1, <1>2 DEF At
<1>4. Last(i) /\ \A j : Last(j) => j = i
  BY <1>1, <1>3
<1>5. LastStop(events) = IF A = {} THEN "" ELSE events[CHOOSE j : Last(j)].info
  BY DEF LastStop
<1> HIDE DEF A, Last
<1>6. (CHOOSE j : Last(j)) = i
  BY <1>4
<1> QED
  BY <1>2, <1>3, <1>5, <1>6

-----------------------------------------------------------------------------
(* Approvals. *)
LEMMA ApprovalEvent ==
  ASSUME NEW e \in LoopEvents, NEW c
  PROVE  /\ e.type = "approval_requested" /\ e.id = c => e = ApprovalRequested(c)
         /\ e.type = "approval_resolved" /\ e.id = c => e = ApprovalResolved(c)
         /\ e = ApprovalRequested(c) => e.type = "approval_requested" /\ e.id = c
         /\ e = ApprovalResolved(c) => e.type = "approval_resolved" /\ e.id = c
<1>1. e = [type |-> e.type, id |-> e.id, info |-> e.info, span |-> e.span]
  BY DEF LoopEvents, Event
<1>2. e.span = {} /\ (e.type \in Approvals => e.info = "")
  BY DEF LoopEvents
<1>3. /\ e.type = "approval_requested" /\ e.id = c => e = ApprovalRequested(c)
      /\ e.type = "approval_resolved" /\ e.id = c => e = ApprovalResolved(c)
  BY <1>1, <1>2 DEF ApprovalRequested, ApprovalResolved, MakeEvent, Approvals
<1>4. /\ e = ApprovalRequested(c) => e.type = "approval_requested" /\ e.id = c
      /\ e = ApprovalResolved(c) => e.type = "approval_resolved" /\ e.id = c
  <2>1. /\ ApprovalRequested(c).type = "approval_requested" /\ ApprovalRequested(c).id = c
        /\ ApprovalResolved(c).type = "approval_resolved" /\ ApprovalResolved(c).id = c
    BY DEF ApprovalRequested, ApprovalResolved, MakeEvent
  <2> QED
    BY <2>1
<1> QED
  BY <1>3, <1>4

LEMMA OpenIsRequested ==
  ASSUME NEW events \in Seq(LoopEvents), NEW c, OpenApproval(events, c)
  PROVE  c \in Ids(events, "approval_requested")
<1>1. PICK i \in DOMAIN events : events[i] = ApprovalRequested(c)
  BY DEF OpenApproval
<1>2. events[i] \in LoopEvents
  OBVIOUS
<1>3. events[i].type = "approval_requested" /\ events[i].id = c
  BY <1>1, <1>2, ApprovalEvent
<1> QED
  BY <1>3, IdsMembers

LEMMA OpenIsAwaiting ==
  ASSUME NEW events \in Seq(LoopEvents), NEW c
  PROVE  c \in Awaiting(events) <=> c \in Pending(events) /\ OpenApproval(events, c)
<1>1. /\ DOMAIN events = 1 .. Len(events) /\ Len(events) \in Nat
      /\ \A i \in DOMAIN events : events[i] \in LoopEvents
  OBVIOUS
<1>2. \A i \in DOMAIN events :
        /\ events[i].type = "approval_requested" /\ events[i].id = c <=> events[i] = ApprovalRequested(c)
        /\ events[i].type = "approval_resolved" /\ events[i].id = c <=> events[i] = ApprovalResolved(c)
  BY <1>1, ApprovalEvent
<1>3. c \in Awaiting(events) <=>
        /\ c \in Pending(events)
        /\ \E i \in DOMAIN events :
             /\ events[i].type = "approval_requested" /\ events[i].id = c
             /\ \A j \in DOMAIN events : events[j].type = "approval_resolved" /\ events[j].id = c => j < i
  BY DEF Awaiting, At
<1>4. ASSUME NEW i \in DOMAIN events, events[i].type = "approval_requested"
      PROVE  (\A j \in DOMAIN events : events[j].type = "approval_resolved" /\ events[j].id = c => j < i)
             <=> \A j \in i + 1 .. Len(events) : events[j] # ApprovalResolved(c)
  <2>1. ASSUME NEW j \in i + 1 .. Len(events)
        PROVE  j \in DOMAIN events /\ ~(j < i)
    BY <1>1
  <2>2. ASSUME NEW j \in DOMAIN events, ~(j < i), events[j].type = "approval_resolved"
        PROVE  j \in i + 1 .. Len(events)
    BY <1>1, <1>4, <2>2
  <2> QED
    BY <1>2, <2>1, <2>2
<1> QED
  BY <1>2, <1>3, <1>4 DEF OpenApproval

(* An append opens no approval but the one it requests. *)
LEMMA OpenKept ==
  ASSUME NEW a \in Seq(LoopEvents), NEW b \in Seq(LoopEvents), NEW c,
         c \notin Ids(b, "approval_requested"), OpenApproval(a \o b, c)
  PROVE  OpenApproval(a, c)
<1> DEFINE ab == a \o b
<1>1. /\ Len(ab) = Len(a) + Len(b) /\ DOMAIN ab = 1 .. Len(a) + Len(b)
      /\ \A i \in 1 .. Len(a) : ab[i] = a[i]
      /\ \A i \in 1 .. Len(b) : ab[Len(a) + i] = b[i]
  BY JoinedSeq
<1>2. /\ DOMAIN a = 1 .. Len(a) /\ Len(a) \in Nat
      /\ DOMAIN b = 1 .. Len(b) /\ Len(b) \in Nat /\ \A i \in 1 .. Len(b) : b[i] \in LoopEvents
  OBVIOUS
<1>3. PICK i \in DOMAIN ab :
        /\ ab[i] = ApprovalRequested(c)
        /\ \A j \in i + 1 .. Len(ab) : ab[j] # ApprovalResolved(c)
  BY DEF OpenApproval
<1> HIDE DEF ab
<1>4. i \in 1 .. Len(a)
  <2>1. SUFFICES ASSUME i \notin 1 .. Len(a) PROVE FALSE
    OBVIOUS
  <2>2. i - Len(a) \in 1 .. Len(b) /\ Len(a) + (i - Len(a)) = i
    BY <1>1, <1>2, <2>1
  <2>3. b[i - Len(a)] = ApprovalRequested(c) /\ b[i - Len(a)] \in LoopEvents
    BY <1>1, <1>2, <1>3, <2>2
  <2>4. b[i - Len(a)].type = "approval_requested" /\ b[i - Len(a)].id = c
    BY <2>3, ApprovalEvent
  <2> QED
    BY <1>2, <2>2, <2>4, IdsMembers
<1>5. ASSUME NEW j \in i + 1 .. Len(a)
      PROVE  a[j] # ApprovalResolved(c)
  <2>1. j \in i + 1 .. Len(ab) /\ j \in 1 .. Len(a)
    BY <1>1, <1>2, <1>4
  <2> QED
    BY <1>1, <1>3, <2>1
<1> QED
  BY <1>1, <1>2, <1>3, <1>4, <1>5 DEF OpenApproval

(* A resolution closes the approval, a request opens it. *)
LEMMA ResolvedCloses ==
  ASSUME NEW a \in Seq(LoopEvents), NEW c \in CallIds
  PROVE  ~OpenApproval(a \o <<ApprovalResolved(c)>>, c)
<1> DEFINE e == ApprovalResolved(c)
           b == a \o <<e>>
<1>1. e \in LoopEvents /\ e.type = "approval_resolved"
  BY LoopEventsMade, EventsMade
<1> HIDE DEF e
<1>2. Len(b) = Len(a) + 1 /\ DOMAIN b = 1 .. Len(a) + 1 /\ b[Len(a) + 1] = e /\ Len(a) \in Nat
  BY <1>1, EventIds
<1> HIDE DEF b
<1>3. SUFFICES ASSUME OpenApproval(b, c) PROVE FALSE
  BY DEF b, e
<1>4. PICK i \in DOMAIN b :
        b[i] = ApprovalRequested(c) /\ \A j \in i + 1 .. Len(b) : b[j] # ApprovalResolved(c)
  BY <1>3 DEF OpenApproval
<1>5. i # Len(a) + 1
  BY <1>1, <1>2, <1>4, ApprovalEvent
<1>6. Len(a) + 1 \in i + 1 .. Len(b)
  BY <1>2, <1>5
<1> QED
  BY <1>2, <1>4, <1>6 DEF e

LEMMA RequestOpens ==
  ASSUME NEW a \in Seq(LoopEvents), NEW c \in CallIds
  PROVE  OpenApproval(a \o <<ApprovalRequested(c)>>, c)
<1> DEFINE e == ApprovalRequested(c)
           b == a \o <<e>>
<1>1. e \in LoopEvents
  BY LoopEventsMade
<1> HIDE DEF e
<1>2. Len(b) = Len(a) + 1 /\ DOMAIN b = 1 .. Len(a) + 1 /\ b[Len(a) + 1] = e /\ Len(a) \in Nat
  BY <1>1, EventIds
<1> HIDE DEF b
<1>3. \A j \in (Len(a) + 1) + 1 .. Len(b) : b[j] # ApprovalResolved(c)
  BY <1>2
<1>4. OpenApproval(b, c)
  BY <1>2, <1>3 DEF OpenApproval, e
<1> QED
  BY <1>4 DEF b, e

-----------------------------------------------------------------------------
(* Types. *)
LogTypes ==
  /\ mem \in Seq(LoopEvents) /\ stored \in Seq(LoopEvents)
  /\ latch \in BOOLEAN /\ failures \in Nat /\ outages \in 0 .. MaxOutages

LoopLocals ==
  [pc : PCs, from : {"", "entry", "turn"}, queue : Seq(CallIds), denied : SUBSET CallIds,
   ran : BOOLEAN, turn : 0 .. MaxTurns, attempt : 0 .. MaxAttempts, prepared : Nat]

LocalTypes ==
  /\ loop \in LoopLocals /\ outcome \in Outcomes
  /\ loop.pc \in Holding => loop.queue # <<>>

HistoryTypes ==
  /\ issued \subseteq CallIds /\ executed \in [CallIds -> Nat]
  /\ runs \in 0 .. MaxRuns /\ crashes \in 0 .. MaxCrashes

LEMMA TypesInParts == LoopTypes <=> LogTypes /\ LocalTypes /\ HistoryTypes
<1>1. \A s : s \in Seq(LoopEvents) => s \in Seq(Event)
  <2>1. LoopEvents \subseteq Event
    BY DEF LoopEvents
  <2> QED
    BY <2>1
<1>2. LoopTypes => LogTypes
  BY DEF LoopTypes, TypeOK, LogTypes
<1>3. LoopTypes => LocalTypes
  BY DEF LoopTypes, TypeOK, LocalTypes, LoopLocals
<1>4. LoopTypes => HistoryTypes
  BY DEF LoopTypes, TypeOK, HistoryTypes
<1>5. LogTypes /\ LocalTypes /\ HistoryTypes => LoopTypes
  BY <1>1 DEF LoopTypes, TypeOK, LogTypes, LocalTypes, LoopLocals, HistoryTypes
<1> QED
  BY <1>2, <1>3, <1>4, <1>5

LEMMA TypesInPartsNext == LoopTypes' <=> LogTypes' /\ LocalTypes' /\ HistoryTypes'
BY TypesInParts, PTL

LEMMA OrderedCalls ==
  ASSUME mem \in Seq(LoopEvents), NEW ids \in SUBSET Pending(mem), ids # {}, NEW calls \in InLogOrder(ids)
  PROVE  /\ calls \in Seq(CallIds) /\ calls # <<>> /\ Distinct(calls)
         /\ \A i \in DOMAIN calls : calls[i] \in ids
<1> DEFINE uses == At(mem, DOMAIN mem, "tool_use")
           f == [i \in uses |-> mem[i].id]
<1>1. DOMAIN mem = 1 .. Len(mem) /\ Len(mem) \in Nat /\ \A i \in DOMAIN mem : mem[i] \in LoopEvents
  OBVIOUS
<1>2. IsFiniteSet(uses)
  <2>1. uses \in SUBSET (1 .. Len(mem))
    BY <1>1 DEF At
  <2> QED
    <3>1. IsFiniteSet(1 .. Len(mem))
      BY <1>1, FS_Interval
    <3> HIDE DEF uses
    <3> QED
      BY <2>1, <3>1, FS_Subset
<1>3. f \in Surjection(uses, Ids(mem, "tool_use"))
  BY DEF Surjection, Ids, IdsAt
<1>4. IsFiniteSet(Ids(mem, "tool_use"))
  <2> HIDE DEF f, uses
  <2> QED
    BY <1>2, <1>3, FS_Surjection
<1>5. IsFiniteSet(ids)
  BY <1>4, FS_Subset DEF Pending
<1>6. Cardinality(ids) \in Nat /\ Cardinality(ids) # 0
  BY <1>5, FS_CardinalityType, FS_EmptySet
<1>7. ids \subseteq CallIds
  <2>1. SUFFICES ASSUME NEW c \in ids PROVE c \in CallIds
    OBVIOUS
  <2>2. PICK i \in DOMAIN mem : mem[i].type = "tool_use" /\ mem[i].id = c
    BY IdsMembers DEF Pending
  <2> QED
    BY <1>1, <2>2 DEF LoopEvents, AboutCalls
<1>8. calls \in [1 .. Cardinality(ids) -> ids] /\ Distinct(calls)
  BY DEF InLogOrder
<1> QED
  BY <1>6, <1>7, <1>8

(* The head and the tail of the queue. *)
LEMMA QueueParts ==
  ASSUME NEW queue \in Seq(CallIds), queue # <<>>
  PROVE  /\ Head(queue) = queue[1] /\ Head(queue) \in CallIds /\ 1 \in DOMAIN queue
         /\ Tail(queue) \in Seq(CallIds) /\ Len(Tail(queue)) = Len(queue) - 1
         /\ Len(queue) \in Nat \ {0} /\ (Len(queue) # 1 => Tail(queue) # <<>>)
         /\ \A i \in DOMAIN Tail(queue) : i + 1 \in DOMAIN queue /\ Tail(queue)[i] = queue[i + 1]
<1>1. Len(queue) \in Nat \ {0} /\ 1 \in DOMAIN queue /\ DOMAIN queue = 1 .. Len(queue)
  OBVIOUS
<1>2. /\ Head(queue) = queue[1] /\ Head(queue) \in CallIds
      /\ Tail(queue) \in Seq(CallIds) /\ Len(Tail(queue)) = Len(queue) - 1
  BY <1>1
<1>3. \A i \in DOMAIN Tail(queue) : i + 1 \in DOMAIN queue /\ Tail(queue)[i] = queue[i + 1]
  <2>1. DOMAIN Tail(queue) = 1 .. Len(queue) - 1
    BY <1>1, <1>2
  <2>2. \A i \in 1 .. Len(queue) - 1 : Tail(queue)[i] = queue[i + 1]
    BY <1>1
  <2> QED
    BY <1>1, <2>1, <2>2
<1>4. Len(queue) # 1 => Tail(queue) # <<>>
  <2>1. Len(<<>>) = 0
    OBVIOUS
  <2>2. Len(queue) # 1 => Len(Tail(queue)) # 0
    BY <1>1, <1>2
  <2> QED
    BY <2>1, <2>2
<1> QED
  BY <1>1, <1>2, <1>3, <1>4

LEMMA OneCall ==
  ASSUME NEW c \in CallIds
  PROVE  /\ <<c>> \in Seq(CallIds) /\ <<c>> # <<>> /\ Head(<<c>>) = c /\ Len(<<c>>) = 1
         /\ DOMAIN <<c>> = {1} /\ <<c>>[1] = c
OBVIOUS

LEMMA Bounds ==
  /\ 0 \in 0 .. MaxOutages /\ 0 \in 0 .. MaxRuns /\ 0 \in 0 .. MaxCrashes
  /\ 0 \in 0 .. MaxTurns /\ 1 \in 0 .. MaxTurns
  /\ 0 \in 0 .. MaxAttempts /\ 1 \in 0 .. MaxAttempts
  /\ \A x \in 0 .. MaxRuns : x < MaxRuns => x + 1 \in 0 .. MaxRuns
  /\ \A x \in 0 .. MaxCrashes : x < MaxCrashes => x + 1 \in 0 .. MaxCrashes
  /\ \A x \in 0 .. MaxTurns : x # MaxTurns => x + 1 \in 0 .. MaxTurns
  /\ \A x \in 0 .. MaxAttempts : x < MaxAttempts => x + 1 \in 0 .. MaxAttempts
BY AgentLoopAssumption

LEMMA IdleLocals == IdleLoop \in LoopLocals /\ IdleLoop.pc = "idle"
<1>1. <<>> \in Seq(CallIds)
  OBVIOUS
<1> QED
  BY <1>1, Bounds DEF IdleLoop, LoopLocals, PCs

LEMMA OneAppended ==
  ASSUME LoopTypes, NEW e \in LoopEvents, Append_(<<e>>)
  PROVE  LogTypes'
<1> DEFINE b == <<e>>
<1>1. b \in Seq(LoopEvents)
  OBVIOUS
<1> HIDE DEF b
<1>2. Append_(b)
  BY DEF b
<1> QED
  BY <1>1, <1>2, Appends DEF LogTypes

LEMMA LogUnchanged ==
  ASSUME LoopTypes, UNCHANGED logVars
  PROVE  LogTypes'
BY TypesInParts DEF LogTypes, logVars

LEMMA HistoryUnchanged ==
  ASSUME LoopTypes, UNCHANGED history
  PROVE  HistoryTypes'
BY TypesInParts DEF HistoryTypes, history

LEMMA Returned ==
  ASSUME LoopTypes, NEW reason \in Outcomes, Return(reason)
  PROVE  LocalTypes'
<1>1. IdleLoop \in LoopLocals /\ IdleLoop.pc = "idle"
  BY IdleLocals
<1> QED
  BY <1>1 DEF Return, LocalTypes, Holding, ApiPCs

LEMMA OutcomesListed ==
  {"storage_error", "resolved", "crashed", "no_pending_tools", "awaiting_approval", "integrity_error",
   "runtime_failed", "max_turns_reached", "provider_failed", "end_turn", "incomplete_tool_batch",
   "response_error", ""} \subseteq Outcomes
BY DEF Outcomes

LEMMA CallsRun ==
  ASSUME LoopTypes, NEW c \in CallIds, executed' = [executed EXCEPT ![c] = @ + 1]
  PROVE  /\ executed' \in [CallIds -> Nat] /\ executed'[c] = executed[c] + 1
         /\ \A d \in CallIds \ {c} : executed'[d] = executed[d]
<1>1. executed \in [CallIds -> Nat]
  BY DEF LoopTypes, TypeOK
<1> QED
  BY <1>1

LEMMA PendingIsCall ==
  ASSUME NEW events \in Seq(LoopEvents)
  PROVE  Pending(events) \subseteq CallIds /\ Ids(events, "tool_use") \subseteq CallIds
<1>1. ASSUME NEW c \in Ids(events, "tool_use")
      PROVE  c \in CallIds
  <2>1. PICK i \in DOMAIN events : events[i].type = "tool_use" /\ events[i].id = c
    BY IdsMembers
  <2>2. events[i] \in LoopEvents
    OBVIOUS
  <2> QED
    BY <2>1, <2>2 DEF LoopEvents, AboutCalls
<1> QED
  BY <1>1 DEF Pending

(* What the first pass over the pending calls leaves to do. *)
LEMMA Decided ==
  ASSUME LoopTypes, DecideTools
  PROVE  \E calls \in Seq(CallIds), denied \in SUBSET CallIds :
           /\ calls # <<>> /\ Distinct(calls) /\ \A i \in DOMAIN calls : calls[i] \in Pending(mem)
           /\ \/ loop' = [loop EXCEPT !.pc = "ask", !.queue = calls]
              \/ loop' = [loop EXCEPT !.pc = "tools", !.queue = calls, !.ran = FALSE, !.denied = denied]
<1>1. PICK decision \in [Pending(mem) -> {"allow", "deny", "ask"}] :
        LET asked == {c \in Pending(mem) : decision[c] = "ask"}
        IN  \/ /\ asked # {}
               /\ \E calls \in InLogOrder(asked) :
                    loop' = [loop EXCEPT !.pc = "ask", !.queue = calls]
            \/ /\ asked = {}
               /\ \E calls \in InLogOrder(Pending(mem)) :
                    loop' = [loop EXCEPT !.pc = "tools", !.queue = calls, !.ran = FALSE,
                               !.denied = {c \in Pending(mem) : decision[c] = "deny"}]
  BY DEF DecideTools
<1> DEFINE asked == {c \in Pending(mem) : decision[c] = "ask"}
           denied == {c \in Pending(mem) : decision[c] = "deny"}
<1>2. mem \in Seq(LoopEvents) /\ Pending(mem) # {}
  BY DEF LoopTypes, DecideTools
<1>3. asked \in SUBSET Pending(mem) /\ denied \in SUBSET CallIds
  BY <1>2, PendingIsCall
<1>4. \/ /\ asked # {}
         /\ \E calls \in InLogOrder(asked) : loop' = [loop EXCEPT !.pc = "ask", !.queue = calls]
      \/ \E calls \in InLogOrder(Pending(mem)) :
           loop' = [loop EXCEPT !.pc = "tools", !.queue = calls, !.ran = FALSE, !.denied = denied]
  BY <1>1
<1> HIDE DEF asked, denied
<1>5. CASE asked # {} /\ \E calls \in InLogOrder(asked) : loop' = [loop EXCEPT !.pc = "ask", !.queue = calls]
  <2>1. PICK calls \in InLogOrder(asked) : loop' = [loop EXCEPT !.pc = "ask", !.queue = calls]
    BY <1>5
  <2>2. /\ calls \in Seq(CallIds) /\ calls # <<>> /\ Distinct(calls)
        /\ \A i \in DOMAIN calls : calls[i] \in asked
    BY <1>2, <1>3, <1>5, OrderedCalls
  <2> QED
    BY <1>3, <2>1, <2>2
<1>6. CASE \E calls \in InLogOrder(Pending(mem)) :
             loop' = [loop EXCEPT !.pc = "tools", !.queue = calls, !.ran = FALSE, !.denied = denied]
  <2>1. PICK calls \in InLogOrder(Pending(mem)) :
          loop' = [loop EXCEPT !.pc = "tools", !.queue = calls, !.ran = FALSE, !.denied = denied]
    BY <1>6
  <2>2. /\ calls \in Seq(CallIds) /\ calls # <<>> /\ Distinct(calls)
        /\ \A i \in DOMAIN calls : calls[i] \in Pending(mem)
    BY <1>2, OrderedCalls
  <2> QED
    BY <1>3, <2>1, <2>2
<1> QED
  BY <1>4, <1>5, <1>6

(* A provider step as a sequence of calls. *)
LEMMA Answered ==
  ASSUME ProviderAnswers
  PROVE  \E stop \in StopReasons, calls \in Seq(CallIds) :
          /\ Distinct(calls) /\ (UniqueIds => \A i \in DOMAIN calls : calls[i] \notin issued)
          /\ issued' = issued \cup {calls[i] : i \in DOMAIN calls}
          /\ Append_(Staged(stop, calls))
          /\ IF latch' THEN Return("storage_error")
             ELSE IF stop = "tool_use"
             THEN loop' = [loop EXCEPT !.pc = "dispatch", !.from = "turn"] /\ UNCHANGED outcome
             ELSE Return(IF calls = <<>> THEN "end_turn" ELSE "incomplete_tool_batch")
          /\ UNCHANGED <<executed, runs, crashes>>
<1>1. PICK stop \in StopReasons :
        \E calls \in Steps(stop) :
          /\ issued' = issued \cup {calls[i] : i \in DOMAIN calls}
          /\ Append_(Staged(stop, calls))
          /\ IF latch' THEN Return("storage_error")
             ELSE IF stop = "tool_use"
             THEN loop' = [loop EXCEPT !.pc = "dispatch", !.from = "turn"] /\ UNCHANGED outcome
             ELSE Return(IF calls = <<>> THEN "end_turn" ELSE "incomplete_tool_batch")
          /\ UNCHANGED <<executed, runs, crashes>>
  BY DEF ProviderAnswers
<1>2. PICK calls \in Steps(stop) :
          /\ issued' = issued \cup {calls[i] : i \in DOMAIN calls}
          /\ Append_(Staged(stop, calls))
          /\ IF latch' THEN Return("storage_error")
             ELSE IF stop = "tool_use"
             THEN loop' = [loop EXCEPT !.pc = "dispatch", !.from = "turn"] /\ UNCHANGED outcome
             ELSE Return(IF calls = <<>> THEN "end_turn" ELSE "incomplete_tool_batch")
          /\ UNCHANGED <<executed, runs, crashes>>
  BY <1>1
<1>3. calls \in Seq(CallIds) /\ Distinct(calls) /\ (UniqueIds => \A i \in DOMAIN calls : calls[i] \notin issued)
  <2>1. PICK n \in 0 .. MaxCalls : calls \in [1 .. n -> CallIds]
    BY DEF Steps
  <2>2. n \in Nat
    BY <2>1, AgentLoopAssumption
  <2>3. calls \in Seq(CallIds)
    BY <2>1, <2>2
  <2> QED
    BY <2>3 DEF Steps
<1> QED
  BY <1>2, <1>3

LEMMA TypesInit ==
  ASSUME Init
  PROVE  LoopTypes
<1>1. LogTypes
  <2>1. <<>> \in Seq(LoopEvents)
    OBVIOUS
  <2> QED
    BY <2>1, Bounds DEF Init, LogTypes
<1>2. LocalTypes
  BY IdleLocals DEF Init, LocalTypes, Outcomes, Holding, ApiPCs
<1>3. HistoryTypes
  <2>1. executed \in [CallIds -> Nat]
    BY DEF Init
  <2> QED
    BY <2>1, Bounds DEF Init, HistoryTypes
<1> QED
  BY <1>1, <1>2, <1>3, TypesInParts

LEMMA TypesStep ==
  ASSUME LoopTypes, [Next]_vars
  PROVE  LoopTypes'
<1> DEFINE c0 == Head(loop.queue)
<1>1. LogTypes /\ LocalTypes /\ HistoryTypes
  BY TypesInParts
<1>2. /\ loop \in LoopLocals /\ loop.queue \in Seq(CallIds) /\ loop.pc \in PCs
      /\ MaxTurns \in Nat \ {0} /\ MaxAttempts \in Nat \ {0}
  BY <1>1, AgentLoopAssumption DEF LocalTypes, LoopLocals
<1>3. loop.pc \in Holding => c0 \in CallIds
  BY <1>1, <1>2, QueueParts DEF LocalTypes
<1>4. \A c \in CallIds : /\ ApprovalResolved(c) \in LoopEvents /\ ApprovalRequested(c) \in LoopEvents
                         /\ ToolResult(c, "done") \in LoopEvents /\ ToolResult(c, "rejected") \in LoopEvents
  BY LoopEventsMade DEF Infos, ResultKinds
<1>5. ASSUME NEW pc \in PCs \ Holding, Goto(pc)
      PROVE  LocalTypes'
  <2>1. loop' \in LoopLocals /\ loop'.pc = pc /\ outcome' = outcome
    BY <1>2, <1>5 DEF Goto, LoopLocals
  <2> QED
    BY <1>1, <2>1 DEF LocalTypes
<1>6. ASSUME StartRun
      PROVE  LocalTypes' /\ HistoryTypes'
  <2>1. loop' = [IdleLoop EXCEPT !.pc = "entry"] /\ outcome' = "" /\ runs' = runs + 1 /\ runs < MaxRuns
        /\ UNCHANGED <<issued, executed, crashes>>
    BY <1>6 DEF StartRun
  <2>2. loop' \in LoopLocals /\ loop'.pc = "entry"
    BY <2>1, IdleLocals DEF LoopLocals, PCs
  <2>3. runs' \in 0 .. MaxRuns
    BY <1>1, <2>1, Bounds DEF HistoryTypes
  <2> QED
    BY <1>1, <2>1, <2>2, <2>3, OutcomesListed DEF LocalTypes, HistoryTypes, Holding, ApiPCs
<1>7. CASE Chat
  <2>1. LogTypes'
    BY <1>7, OneAppended, LoopEventsMade DEF Chat
  <2> QED
    BY <1>6, <1>7, <2>1, TypesInPartsNext DEF Chat
<1>8. CASE Resume
  BY <1>6, <1>8, LogUnchanged, TypesInPartsNext DEF Resume
<1>9. ASSUME NEW c \in CallIds, NEW pc \in {"approved", "denied"},
             loop' = [IdleLoop EXCEPT !.pc = pc, !.queue = <<c>>], outcome' = ""
      PROVE  LocalTypes'
  <2>1. loop' \in LoopLocals /\ loop'.pc = pc /\ loop'.queue = <<c>>
    <3> DEFINE one == <<c>>
    <3>0. one \in Seq(CallIds)
      BY OneCall
    <3>1. loop' = [IdleLoop EXCEPT !.pc = pc, !.queue = one]
      BY <1>9
    <3> HIDE DEF one
    <3>2. pc \in PCs
      BY DEF PCs
    <3>3. loop' \in LoopLocals /\ loop'.pc = pc /\ loop'.queue = one
      BY <3>0, <3>1, <3>2, IdleLocals DEF LoopLocals
    <3> QED
      BY <3>3 DEF one
  <2>2. <<c>> # <<>>
    OBVIOUS
  <2> QED
    BY <1>9, <2>1, <2>2, OutcomesListed DEF LocalTypes
<1>10. ASSUME NEW c \in CallIds, ApproveToolUse(c) \/ DenyToolUse(c)
       PROVE  LoopTypes'
  <2>1. LogTypes'
    BY <1>4, <1>10, OneAppended DEF ApproveToolUse, DenyToolUse
  <2>2. LocalTypes'
    BY <1>9, <1>10, Returned, OutcomesListed DEF ApproveToolUse, DenyToolUse
  <2>3. HistoryTypes'
    <3>1. /\ runs' = runs + 1 /\ runs < MaxRuns /\ UNCHANGED <<issued, executed, crashes>>
      BY <1>10 DEF ApproveToolUse, DenyToolUse
    <3>2. runs' \in 0 .. MaxRuns
      BY <1>1, <3>1, Bounds DEF HistoryTypes
    <3> QED
      BY <1>1, <3>1, <3>2 DEF HistoryTypes
  <2> QED
    BY <2>1, <2>2, <2>3, TypesInPartsNext
<1>11. CASE ClearStorageErr \/ ReloadSession
  <2>1. LogTypes'
    BY <1>1, <1>11 DEF ClearStorageErr, ReloadSession, Reload, LogTypes
  <2>2. LocalTypes' /\ HistoryTypes'
    BY <1>1, <1>11 DEF ClearStorageErr, ReloadSession, LocalTypes, HistoryTypes, history
  <2> QED
    BY <2>1, <2>2, TypesInPartsNext
<1>12. CASE Crash
  <2>1. LogTypes'
    BY <1>1, <1>12 DEF Crash, Reload, LogTypes
  <2>2. LocalTypes'
    BY <1>12, Returned, OutcomesListed DEF Crash
  <2>3. HistoryTypes'
    <3>1. crashes' = crashes + 1 /\ crashes < MaxCrashes /\ UNCHANGED <<issued, executed, runs>>
      BY <1>12 DEF Crash
    <3>2. crashes' \in 0 .. MaxCrashes
      BY <1>1, <3>1, Bounds DEF HistoryTypes
    <3> QED
      BY <1>1, <3>1, <3>2 DEF HistoryTypes
  <2> QED
    BY <2>1, <2>2, <2>3, TypesInPartsNext
<1>13. CASE RunApprovedTool \/ RunTool
  <2>1. /\ loop.pc \in Holding /\ UNCHANGED <<logVars, issued, runs, crashes>> /\ outcome' = outcome
        /\ executed' = [executed EXCEPT ![c0] = @ + 1]
        /\ \E pc \in {"result", "approved result"} : loop' = [loop EXCEPT !.pc = pc]
    BY <1>13 DEF RunApprovedTool, RunTool, At_, Goto, Holding, ApiPCs
  <2>2. LogTypes'
    BY <2>1, LogUnchanged
  <2>3. HistoryTypes'
    <3>1. executed' \in [CallIds -> Nat]
      BY <1>3, <2>1, CallsRun
    <3> QED
      BY <1>1, <2>1, <3>1 DEF HistoryTypes
  <2>4. LocalTypes'
    <3>1. loop' \in LoopLocals /\ loop'.queue = loop.queue
      BY <1>2, <2>1 DEF LoopLocals, PCs
    <3> QED
      BY <1>1, <2>1, <3>1 DEF LocalTypes
  <2> QED
    BY <2>2, <2>3, <2>4, TypesInPartsNext
<1>14. CASE AppendApprovedResult \/ AppendDeniedResult
  <2>1. LogTypes'
    BY <1>3, <1>4, <1>14, OneAppended DEF AppendApprovedResult, AppendDeniedResult, At_, Holding, ApiPCs
  <2>2. LocalTypes'
    BY <1>14, Returned, OutcomesListed DEF AppendApprovedResult, AppendDeniedResult
  <2> QED
    BY <1>14, <2>1, <2>2, HistoryUnchanged, TypesInPartsNext DEF AppendApprovedResult, AppendDeniedResult
<1>15. CASE RunEntry
  <2>1. UNCHANGED logVars /\ UNCHANGED history
    BY <1>15 DEF RunEntry
  <2>2. EntryOutcome(mem) \in {"integrity_error", "runtime_failed", "awaiting_approval", "proceed", "dispatch"}
    BY DEF EntryOutcome
  <2>3. \/ \E reason \in Outcomes : Return(reason)
        \/ loop' = [loop EXCEPT !.pc = "turn", !.turn = 1] /\ UNCHANGED outcome
        \/ loop' = [loop EXCEPT !.pc = "dispatch", !.from = "entry"] /\ UNCHANGED outcome
    BY <1>15, <2>2, OutcomesListed DEF RunEntry
  <2>4. LocalTypes'
    <3>1. CASE loop' = [loop EXCEPT !.pc = "turn", !.turn = 1] /\ UNCHANGED outcome
      <4>1. loop' \in LoopLocals /\ loop'.pc = "turn"
        BY <1>2, <3>1, Bounds DEF LoopLocals, PCs
      <4> QED
        BY <1>1, <3>1, <4>1 DEF LocalTypes, Holding, ApiPCs
    <3>2. CASE loop' = [loop EXCEPT !.pc = "dispatch", !.from = "entry"] /\ UNCHANGED outcome
      <4>1. loop' \in LoopLocals /\ loop'.pc = "dispatch"
        BY <1>2, <3>2 DEF LoopLocals, PCs
      <4> QED
        BY <1>1, <3>2, <4>1 DEF LocalTypes, Holding, ApiPCs
    <3> QED
      BY <2>3, <3>1, <3>2, Returned, OutcomesListed
  <2> QED
    BY <2>1, <2>4, LogUnchanged, HistoryUnchanged, TypesInPartsNext
<1>16. CASE DecideTools
  <2>1. PICK calls \in Seq(CallIds), denied \in SUBSET CallIds :
          /\ calls # <<>>
          /\ \/ loop' = [loop EXCEPT !.pc = "ask", !.queue = calls]
             \/ loop' = [loop EXCEPT !.pc = "tools", !.queue = calls, !.ran = FALSE, !.denied = denied]
    BY <1>16, Decided
  <2>2. loop' \in LoopLocals /\ loop'.queue = calls
    <3>1. CASE loop' = [loop EXCEPT !.pc = "ask", !.queue = calls]
      BY <1>2, <3>1 DEF LoopLocals, PCs
    <3>2. CASE loop' = [loop EXCEPT !.pc = "tools", !.queue = calls, !.ran = FALSE, !.denied = denied]
      BY <1>2, <3>2 DEF LoopLocals, PCs
    <3> QED
      BY <2>1, <3>1, <3>2
  <2>3. UNCHANGED <<logVars, outcome, history>>
    BY <1>16 DEF DecideTools
  <2>4. LocalTypes'
    BY <1>1, <2>1, <2>2, <2>3 DEF LocalTypes
  <2> QED
    BY <2>3, <2>4, LogUnchanged, HistoryUnchanged, TypesInPartsNext
<1>17. CASE NoPendingTools \/ ProviderAnswersMalformed
  <2>1. UNCHANGED logVars /\ UNCHANGED history /\ \E reason \in Outcomes : Return(reason)
    BY <1>17, OutcomesListed DEF NoPendingTools, ProviderAnswersMalformed
  <2> QED
    BY <2>1, LogUnchanged, HistoryUnchanged, Returned, OutcomesListed, TypesInPartsNext
<1>18. CASE AskApproval
  <2>1. loop.pc \in Holding /\ UNCHANGED history
    BY <1>18 DEF AskApproval, At_, Holding
  <2>2. LogTypes'
    BY <1>3, <1>4, <1>18, <2>1, OneAppended DEF AskApproval
  <2>3. CASE Len(loop.queue) > 1
    <3>1. loop' = [loop EXCEPT !.queue = Tail(@)] /\ outcome' = outcome
      BY <1>18, <2>3 DEF AskApproval, NextRequest
    <3>2. Tail(loop.queue) \in Seq(CallIds) /\ Tail(loop.queue) # <<>>
      <4>1. loop.queue # <<>>
        BY <1>1, <2>1 DEF LocalTypes
      <4>2. Len(loop.queue) # 1
        <5>1. Len(loop.queue) \in Nat
          BY <1>2, SeqShape
        <5> QED
          BY <2>3, <5>1
      <4> QED
        BY <1>2, <4>1, <4>2, QueueParts
    <3>3. loop' \in LoopLocals /\ loop'.queue = Tail(loop.queue)
      BY <1>2, <3>1, <3>2 DEF LoopLocals
    <3> QED
      BY <1>1, <2>1, <2>2, <3>1, <3>2, <3>3, HistoryUnchanged, TypesInPartsNext DEF LocalTypes
  <2>4. CASE ~(Len(loop.queue) > 1)
    <3>1. \E reason \in Outcomes : Return(reason)
      BY <1>18, <2>4, OutcomesListed DEF AskApproval, NextRequest
    <3> QED
      BY <2>1, <2>2, <3>1, Returned, OutcomesListed, HistoryUnchanged, TypesInPartsNext
  <2> QED
    BY <2>3, <2>4
<1>19. CASE AppendToolResult \/ RejectTool
  <2>1. loop.pc \in Holding /\ UNCHANGED history /\ NextCall /\ UNCHANGED outcome
    BY <1>19 DEF AppendToolResult, RejectTool, At_, Holding
  <2>2. LogTypes'
    BY <1>3, <1>4, <1>19, <2>1, OneAppended DEF AppendToolResult, RejectTool
  <2>3. Tail(loop.queue) \in Seq(CallIds) /\ (Len(loop.queue) # 1 => Tail(loop.queue) # <<>>)
    BY <1>1, <1>2, <2>1, QueueParts DEF LocalTypes
  <2>4. loop' \in LoopLocals /\ loop'.queue = Tail(loop.queue)
        /\ loop'.pc = IF Len(loop.queue) = 1 THEN "dispatched" ELSE "tools"
    BY <1>2, <2>1, <2>3 DEF NextCall, LoopLocals, PCs
  <2>5. LocalTypes'
    BY <1>1, <2>1, <2>3, <2>4 DEF LocalTypes, Holding, ApiPCs
  <2> QED
    BY <2>1, <2>2, <2>5, HistoryUnchanged, TypesInPartsNext
<1>20. CASE AfterDispatch
  <2>1. UNCHANGED logVars /\ UNCHANGED history
        /\ \/ \E reason \in Outcomes : Return(reason)
           \/ ~LastTurn /\ loop' = [IdleLoop EXCEPT !.pc = "turn", !.turn = loop.turn + 1] /\ UNCHANGED outcome
    BY <1>20, OutcomesListed DEF AfterDispatch
  <2>2. ASSUME ~LastTurn, loop' = [IdleLoop EXCEPT !.pc = "turn", !.turn = loop.turn + 1], UNCHANGED outcome
        PROVE  LocalTypes'
    <3>1. loop.turn + 1 \in 0 .. MaxTurns
      <4>1. loop.turn \in 0 .. MaxTurns /\ loop.turn # MaxTurns
        BY <1>2, <2>2 DEF LastTurn, LoopLocals
      <4> QED
        BY <4>1, Bounds
    <3>2. loop' \in LoopLocals /\ loop'.pc = "turn"
      BY <2>2, <3>1, IdleLocals DEF LoopLocals, PCs
    <3> QED
      BY <1>1, <2>2, <3>2 DEF LocalTypes, Holding, ApiPCs
  <2> QED
    BY <2>1, <2>2, LogUnchanged, HistoryUnchanged, Returned, OutcomesListed, TypesInPartsNext
<1>21. CASE GuardTrips
  <2>1. LogTypes'
    BY <1>21, OneAppended, LoopEventsMade DEF GuardTrips
  <2>2. LocalTypes'
    <3>1. /\ loop' \in LoopLocals /\ loop'.queue = loop.queue
          /\ loop'.pc = "prepare" \/ loop'.pc = loop.pc
      BY <1>2, <1>21 DEF GuardTrips, LoopLocals, PCs
    <3> QED
      BY <1>1, <1>21, <3>1 DEF GuardTrips, LocalTypes, Holding, ApiPCs
  <2> QED
    BY <1>21, <2>1, <2>2, HistoryUnchanged, TypesInPartsNext DEF GuardTrips
<1>22. CASE HookFailsTurn
  <2>1. LogTypes'
    BY <1>22, OneAppended, LoopEventsMade DEF HookFailsTurn
  <2> QED
    BY <1>22, <2>1, Returned, OutcomesListed, HistoryUnchanged, TypesInPartsNext DEF HookFailsTurn
<1>23. CASE HookAppends
  <2>1. LogTypes'
    BY <1>23, OneAppended, LoopEventsMade DEF HookAppends
  <2>2. LocalTypes'
    BY <1>5, <1>23 DEF HookAppends, PCs, Holding, ApiPCs
  <2> QED
    BY <1>23, <2>1, <2>2, HistoryUnchanged, TypesInPartsNext DEF HookAppends
<1>24. ASSUME NEW n \in 0 .. MaxAttempts, NEW m \in Nat, UNCHANGED outcome,
              loop' = [loop EXCEPT !.pc = "attempt", !.attempt = n, !.prepared = m]
       PROVE  LocalTypes'
  <2>1. loop' \in LoopLocals /\ loop'.pc = "attempt"
    BY <1>2, <1>24 DEF LoopLocals, PCs
  <2> QED
    BY <1>1, <1>24, <2>1 DEF LocalTypes, Holding, ApiPCs
<1>25. CASE Prepare
  <2>1. UNCHANGED logVars /\ UNCHANGED history
        /\ \/ \E reason \in Outcomes : Return(reason)
           \/ /\ loop' = [loop EXCEPT !.pc = "attempt", !.attempt = 1, !.prepared = Len(mem)]
              /\ UNCHANGED outcome
    BY <1>25, OutcomesListed DEF Prepare
  <2>2. Len(mem) \in Nat /\ 1 \in 0 .. MaxAttempts
    <3>1. mem \in Seq(LoopEvents)
      BY <1>1 DEF LogTypes
    <3>2. Len(mem) \in Nat
      BY <3>1, SeqShape
    <3> QED
      BY <3>2, Bounds
  <2> QED
    BY <1>24, <2>1, <2>2, LogUnchanged, HistoryUnchanged, Returned, OutcomesListed, TypesInPartsNext
<1>26. CASE CallProvider
  <2>1. UNCHANGED logVars /\ UNCHANGED history
        /\ (Goto("calling") \/ \E reason \in Outcomes : Return(reason))
    BY <1>26, OutcomesListed DEF CallProvider
  <2>2. "calling" \in PCs \ Holding
    BY DEF PCs, Holding, ApiPCs
  <2> QED
    BY <1>5, <2>1, <2>2, LogUnchanged, HistoryUnchanged, Returned, OutcomesListed, TypesInPartsNext
<1>27. ASSUME NEW retryable \in BOOLEAN, ProviderFails(retryable)
       PROVE  LoopTypes'
  <2> DEFINE retry == retryable /\ loop.attempt < MaxAttempts
  <2>1. LogTypes'
    BY <1>27, OneAppended, LoopEventsMade DEF ProviderFails, Infos
  <2>2. /\ UNCHANGED history
        /\ \/ \E reason \in Outcomes : Return(reason)
           \/ /\ loop.attempt < MaxAttempts
              /\ loop' = [loop EXCEPT !.pc = "attempt", !.attempt = @ + 1, !.prepared = Len(mem')]
              /\ UNCHANGED outcome
    BY <1>27, OutcomesListed DEF ProviderFails
  <2>3. loop.attempt \in Nat /\ Len(mem') \in Nat
    <3>1. mem' \in Seq(LoopEvents)
      BY <2>1 DEF LogTypes
    <3>2. loop.attempt \in 0 .. MaxAttempts
      BY <1>2 DEF LoopLocals
    <3>3. Len(mem') \in Nat
      BY <3>1, SeqShape
    <3> QED
      BY <3>2, <3>3, AgentLoopAssumption
  <2>4. loop.attempt < MaxAttempts => loop.attempt + 1 \in 0 .. MaxAttempts
    <3>1. loop.attempt \in 0 .. MaxAttempts
      BY <1>2 DEF LoopLocals
    <3> QED
      BY <3>1, Bounds
  <2> QED
    BY <1>24, <2>1, <2>2, <2>3, <2>4, HistoryUnchanged, Returned, OutcomesListed, TypesInPartsNext
<1>28. CASE ProviderAnswers
  <2>1. PICK stop \in StopReasons, calls \in Seq(CallIds) :
          /\ issued' = issued \cup {calls[i] : i \in DOMAIN calls}
          /\ Append_(Staged(stop, calls))
          /\ IF latch' THEN Return("storage_error")
             ELSE IF stop = "tool_use"
             THEN loop' = [loop EXCEPT !.pc = "dispatch", !.from = "turn"] /\ UNCHANGED outcome
             ELSE Return(IF calls = <<>> THEN "end_turn" ELSE "incomplete_tool_batch")
          /\ UNCHANGED <<executed, runs, crashes>>
    BY <1>28, Answered
  <2>3. LogTypes'
    BY <2>1, StagedTypes, Appends DEF LogTypes
  <2>4. HistoryTypes'
    <3>1. calls \in Seq(CallIds)
      OBVIOUS
    <3>2. \A i \in DOMAIN calls : calls[i] \in CallIds
      BY <3>1, SeqShape
    <3>3. issued' \subseteq CallIds
      BY <1>1, <2>1, <3>2 DEF HistoryTypes
    <3> QED
      BY <1>1, <2>1, <3>3 DEF HistoryTypes
  <2>5. LocalTypes'
    <3>1. CASE loop' = [loop EXCEPT !.pc = "dispatch", !.from = "turn"] /\ UNCHANGED outcome
      <4>1. loop' \in LoopLocals /\ loop'.pc = "dispatch"
        BY <1>2, <3>1 DEF LoopLocals, PCs
      <4> QED
        BY <1>1, <3>1, <4>1 DEF LocalTypes, Holding, ApiPCs
    <3> QED
      BY <2>1, <3>1, Returned, OutcomesListed
  <2> QED
    BY <2>3, <2>4, <2>5, TypesInPartsNext
<1>29. CASE UNCHANGED vars
  BY <1>29 DEF LoopTypes, TypeOK, vars
<1> QED
  BY <1>7, <1>8, <1>10, <1>11, <1>12, <1>13, <1>14, <1>15, <1>16, <1>17, <1>18, <1>19, <1>20, <1>21, <1>22,
     <1>23, <1>25, <1>26, <1>27, <1>28, <1>29 DEF Next, Host, Running

-----------------------------------------------------------------------------
(* What a step does to the log. *)
Grown ==
  /\ LogTypes'
  /\ \A type : Ids(mem, type) \subseteq Ids(mem', type) /\ Ids(stored, type) \subseteq Ids(stored', type)
  /\ failures' = failures \/ failures' = failures + 1

LogSound == StorageInv /\ SoundLog(mem) /\ SoundLog(stored)

LEMMA MemInStored ==
  ASSUME LoopTypes, StorageInv
  PROVE  /\ \A type : Ids(mem, type) \subseteq Ids(stored, type)
         /\ Len(stored) = Len(mem) => stored = mem
<1>1. /\ mem \in Seq(LoopEvents) /\ stored \in Seq(LoopEvents)
      /\ Len(mem) <= Len(stored) /\ \A i \in 1 .. Len(mem) : stored[i] = mem[i]
  BY DEF LoopTypes, StorageInv
<1>2. /\ DOMAIN mem = 1 .. Len(mem) /\ DOMAIN stored = 1 .. Len(stored)
      /\ Len(mem) \in Nat /\ Len(stored) \in Nat
  BY <1>1, SeqShape
<1>3. ASSUME NEW type, NEW c \in Ids(mem, type)
      PROVE  c \in Ids(stored, type)
  <2>1. PICK i \in 1 .. Len(mem) : mem[i].type = type /\ mem[i].id = c
    BY <1>2, <1>3, IdsMembers
  <2>2. i \in DOMAIN stored /\ stored[i] = mem[i]
    BY <1>1, <1>2
  <2> QED
    BY <2>1, <2>2, IdsMembers
<1>4. Len(stored) = Len(mem) => stored = mem
  BY <1>1, SeqEqual
<1> QED
  BY <1>3, <1>4

LEMMA AppendKeeps ==
  ASSUME LoopTypes, LogSound, NEW b \in Seq(LoopEvents), SoundLog(mem \o b), Append_(b)
  PROVE  /\ Grown /\ LogSound'
         /\ Ids(stored', "tool_use") \subseteq Ids(stored, "tool_use") \cup Ids(b, "tool_use")
<1>1. /\ mem' \in Seq(LoopEvents) /\ stored' \in Seq(LoopEvents)
      /\ latch' \in BOOLEAN /\ failures' \in Nat /\ outages' \in 0 .. MaxOutages
      /\ mem' = mem \/ (mem' = mem \o b /\ stored' = stored \o b /\ Len(stored) = Len(mem))
      /\ stored' = stored \/ (stored' = stored \o b /\ Len(stored) = Len(mem))
      /\ latch => latch' /\ mem' = mem /\ stored' = stored /\ failures' = failures
      /\ ~latch /\ latch' => failures' = failures + 1 /\ mem' = mem
      /\ ~latch' => failures' = failures /\ mem' = mem \o b /\ stored' = stored \o b
                    /\ Len(stored) = Len(mem)
  BY Appends
<1>2. /\ mem \in Seq(LoopEvents) /\ stored \in Seq(LoopEvents)
      /\ latch \in BOOLEAN /\ failures \in Nat
  BY TypesInParts DEF LogTypes
<1>3. StorageInv /\ SoundLog(mem) /\ SoundLog(stored)
  BY DEF LogSound
<1>4. /\ Len(stored) = Len(mem) => stored = mem
      /\ \A type : Ids(mem, type) \subseteq Ids(stored, type)
  BY <1>3, MemInStored
<1>5. /\ mem' = mem \/ mem' = mem \o b
      /\ stored' = stored \/ (stored' = mem \o b /\ stored = mem)
      /\ mem' = mem \o b => stored' = mem \o b \/ mem' = mem
  BY <1>1, <1>4
<1>6. /\ \A type : Ids(mem \o b, type) = Ids(mem, type) \cup Ids(b, type)
      /\ Len(mem \o b) = Len(mem) + Len(b) /\ Len(mem) \in Nat /\ Len(b) \in Nat
      /\ \A i \in 1 .. Len(mem) : (mem \o b)[i] = mem[i]
  BY <1>2, IdsJoined, JoinedSeq, SeqShape
<1>7. Grown
  <2>1. LogTypes' /\ (failures' = failures \/ failures' = failures + 1)
    BY <1>1, <1>2 DEF LogTypes
  <2>2. \A type : Ids(mem, type) \subseteq Ids(mem', type) /\ Ids(stored, type) \subseteq Ids(stored', type)
    BY <1>5, <1>6
  <2> QED
    BY <2>1, <2>2 DEF Grown
<1>8. SoundLog(mem') /\ SoundLog(stored')
  BY <1>3, <1>5
<1>9. StorageInv'
  <2>1. Len(mem') <= Len(stored') /\ \A i \in 1 .. Len(mem') : stored'[i] = mem'[i]
    <3>1. CASE mem' = mem /\ stored' = stored
      BY <1>3, <3>1 DEF StorageInv
    <3>2. CASE mem' = mem /\ stored' = mem \o b
      BY <1>6, <3>2
    <3>3. CASE mem' = mem \o b /\ stored' = mem \o b
      <4>1. Len(mem') \in Nat
        BY <1>1, SeqShape
      <4> QED
        BY <3>3, <4>1
    <3> QED
      BY <1>5, <3>1, <3>2, <3>3
  <2>2. ASSUME failures' = 0
        PROVE  ~latch' /\ stored' = mem'
    <3>1. failures = 0 /\ ~latch /\ stored = mem
      BY <1>1, <1>2, <1>3, <2>2 DEF StorageInv
    <3>2. ~latch'
      BY <1>1, <1>2, <2>2, <3>1
    <3> QED
      BY <1>1, <3>1, <3>2
  <2> QED
    BY <2>1, <2>2 DEF StorageInv
<1>10. Ids(stored', "tool_use") \subseteq Ids(stored, "tool_use") \cup Ids(b, "tool_use")
  BY <1>5, <1>6
<1> QED
  BY <1>7, <1>8, <1>9, <1>10 DEF LogSound

(* An append of one event about a pending call, or about none. *)
LEMMA OneGrown ==
  ASSUME LoopTypes, LogSound, NEW e, LegalEvent(mem, e), Append_(<<e>>)
  PROVE  /\ Grown /\ LogSound' /\ Ids(stored', "tool_use") = Ids(stored, "tool_use")
         /\ mem' = mem \/ mem' = mem \o <<e>>
         /\ latch => latch' /\ mem' = mem /\ failures' = failures
         /\ ~latch /\ latch' => failures' = failures + 1 /\ mem' = mem
         /\ ~latch' => failures' = failures /\ mem' = mem \o <<e>>
<1> DEFINE b == <<e>>
<1>1. e \in LoopEvents /\ e.type # "tool_use" /\ mem \in Seq(LoopEvents) /\ SoundLog(mem)
  BY DEF LegalEvent, LoopTypes, LogSound
<1>2. b \in Seq(LoopEvents)
  BY <1>1
<1>3. SoundLog(mem \o b)
  BY <1>1, EventSound
<1>4. Ids(b, "tool_use") = {}
  BY <1>1, IdsOfOne
<1>5. Append_(b)
  OBVIOUS
<1> HIDE DEF b
<1>6. /\ Grown /\ LogSound'
      /\ Ids(stored', "tool_use") \subseteq Ids(stored, "tool_use") \cup Ids(b, "tool_use")
  BY <1>2, <1>3, <1>5, AppendKeeps
<1>7. Ids(stored', "tool_use") = Ids(stored, "tool_use")
  BY <1>4, <1>6 DEF Grown
<1>8. /\ mem' = mem \/ mem' = mem \o b
      /\ latch => latch' /\ mem' = mem /\ failures' = failures
      /\ ~latch /\ latch' => failures' = failures + 1 /\ mem' = mem
      /\ ~latch' => failures' = failures /\ mem' = mem \o b
  BY <1>2, <1>5, Appends
<1> QED
  BY <1>6, <1>7, <1>8 DEF b

(* An append of a provider step to a log without pending calls. *)
LEMMA StepGrown ==
  ASSUME LoopTypes, LogSound, NEW stop, NEW calls, LegalStep(mem, stop, calls), Append_(Staged(stop, calls))
  PROVE  /\ Grown /\ LogSound'
         /\ Ids(stored', "tool_use") \subseteq Ids(stored, "tool_use") \cup {calls[i] : i \in DOMAIN calls}
         /\ mem' = mem \/ mem' = mem \o Staged(stop, calls)
         /\ latch => latch' /\ mem' = mem /\ failures' = failures
         /\ ~latch /\ latch' => failures' = failures + 1 /\ mem' = mem
         /\ ~latch' => failures' = failures /\ mem' = mem \o Staged(stop, calls)
<1> DEFINE b == Staged(stop, calls)
<1>1. mem \in Seq(LoopEvents) /\ SoundLog(mem) /\ stop \in StopReasons /\ calls \in Seq(CallIds)
  BY DEF LegalStep, LoopTypes, LogSound
<1>2. b \in Seq(LoopEvents)
  BY <1>1, StagedTypes
<1>3. SoundLog(mem \o b)
  BY <1>1, StepSound
<1>4. Ids(b, "tool_use") = {calls[i] : i \in DOMAIN calls}
  BY <1>1, StagedIds
<1>5. Append_(b)
  OBVIOUS
<1> HIDE DEF b
<1>6. /\ Grown /\ LogSound'
      /\ Ids(stored', "tool_use") \subseteq Ids(stored, "tool_use") \cup Ids(b, "tool_use")
  BY <1>2, <1>3, <1>5, AppendKeeps
<1>8. /\ mem' = mem \/ mem' = mem \o b
      /\ latch => latch' /\ mem' = mem /\ failures' = failures
      /\ ~latch /\ latch' => failures' = failures + 1 /\ mem' = mem
      /\ ~latch' => failures' = failures /\ mem' = mem \o b
  BY <1>2, <1>5, Appends
<1> QED
  BY <1>4, <1>6, <1>8 DEF b

LEMMA ReloadGrown ==
  ASSUME LoopTypes, LogSound, Reload
  PROVE  Grown /\ LogSound' /\ stored' = stored
<1>1. /\ mem' = stored /\ stored' = stored /\ latch' = FALSE /\ failures' = failures /\ outages' = outages
      /\ StorageInv /\ SoundLog(stored)
  BY DEF Reload, LogSound
<1>2. LogTypes /\ stored \in Seq(LoopEvents)
  BY TypesInParts DEF LogTypes
<1>3. \A type : Ids(mem, type) \subseteq Ids(stored, type)
  BY <1>1, MemInStored
<1>4. Grown
  BY <1>1, <1>2, <1>3 DEF Grown, LogTypes
<1>5. StorageInv'
  <2>1. Len(stored) \in Nat
    BY <1>2, SeqShape
  <2> QED
    BY <1>1, <2>1 DEF StorageInv
<1> QED
  BY <1>1, <1>4, <1>5 DEF LogSound

LEMMA UnchangedGrown ==
  ASSUME LoopTypes, LogSound, UNCHANGED <<mem, stored, failures, outages>>, latch' = latch \/ latch' = FALSE
  PROVE  Grown /\ LogSound'
<1>1. LogTypes
  BY TypesInParts
<1>2. Grown
  BY <1>1 DEF Grown, LogTypes
<1> QED
  BY <1>2 DEF LogSound, StorageInv

-----------------------------------------------------------------------------
(* What an append changes of what is counted. *)
LEMMA CountAppended ==
  ASSUME NEW a \in Seq(LoopEvents), NEW e \in LoopEvents, NEW x
  PROVE  /\ Count(a, x) \in Nat
         /\ Count(a \o <<e>>, x) = Count(a, x) + (IF e = x THEN 1 ELSE 0)
<1> DEFINE b == a \o <<e>>
           n == Len(a)
           A == {i \in DOMAIN a : a[i] = x}
           B == {i \in DOMAIN b : b[i] = x}
<1>1. /\ DOMAIN b = 1 .. n + 1 /\ DOMAIN a = 1 .. n /\ n \in Nat
      /\ \A i \in 1 .. n : b[i] = a[i]
      /\ b[n + 1] = e
  BY EventIds, SeqShape
<1> HIDE DEF b, n
<1>2. IsFiniteSet(A) /\ n + 1 \notin A
  <2>1. IsFiniteSet(1 .. n) /\ A \in SUBSET (1 .. n)
    BY <1>1, FS_Interval
  <2>2. n + 1 \notin A
    BY <1>1
  <2> HIDE DEF A
  <2> QED
    BY <2>1, <2>2, FS_Subset
<1>3. B = IF e = x THEN A \cup {n + 1} ELSE A
  BY <1>1
<1> HIDE DEF A, B
<1>4. Cardinality(A) \in Nat /\ Cardinality(A \cup {n + 1}) = Cardinality(A) + 1
  BY <1>2, FS_AddElement, FS_CardinalityType
<1>5. Count(a, x) = Cardinality(A) /\ Count(b, x) = Cardinality(B)
  BY DEF Count, A, B
<1> QED
  BY <1>3, <1>4, <1>5 DEF b

LEMMA CountKept ==
  ASSUME NEW a \in Seq(LoopEvents), NEW b \in Seq(LoopEvents), NEW x, \A i \in DOMAIN b : b[i] # x
  PROVE  Count(a \o b, x) = Count(a, x)
<1> DEFINE ab == a \o b
<1>1. /\ DOMAIN ab = 1 .. Len(a) + Len(b)
      /\ \A i \in 1 .. Len(a) : ab[i] = a[i]
      /\ \A i \in 1 .. Len(b) : ab[Len(a) + i] = b[i]
  BY JoinedSeq
<1>2. DOMAIN a = 1 .. Len(a) /\ Len(a) \in Nat /\ DOMAIN b = 1 .. Len(b) /\ Len(b) \in Nat
  BY SeqShape
<1> HIDE DEF ab
<1>3. ASSUME NEW i \in DOMAIN ab, ab[i] = x
      PROVE  i \in DOMAIN a
  <2>1. SUFFICES ASSUME i \notin 1 .. Len(a) PROVE FALSE
    BY <1>2
  <2>2. i - Len(a) \in 1 .. Len(b) /\ Len(a) + (i - Len(a)) = i
    BY <1>1, <1>2, <2>1
  <2> QED
    BY <1>1, <1>2, <1>3, <2>2
<1>4. {i \in DOMAIN ab : ab[i] = x} = {i \in DOMAIN a : a[i] = x}
  <2>1. \A i \in DOMAIN a : i \in DOMAIN ab /\ ab[i] = a[i]
    BY <1>1, <1>2
  <2> QED
    BY <1>3, <2>1
<1> QED
  BY <1>4 DEF Count, ab

LEMMA ResultEvent ==
  ASSUME NEW c \in CallIds, NEW kind \in ResultKinds
  PROVE  /\ ToolResult(c, kind) \in LoopEvents
         /\ ToolResult(c, kind).type = "tool_result" /\ ToolResult(c, kind).id = c
         /\ ToolResult(c, kind).info = kind
<1>1. kind \in Infos
  BY DEF Infos
<1>2. ToolResult(c, kind).info = kind
  BY DEF ToolResult, MakeEvent
<1> QED
  BY <1>1, <1>2, LoopEventsMade, EventsMade

(* What is pending, open, resolved or counted after an append of one event. *)
LEMMA EventEffects ==
  ASSUME LoopTypes, NEW e, LegalEvent(mem, e), mem' = mem \/ mem' = mem \o <<e>>
  PROVE  /\ Pending(mem') \subseteq Pending(mem)
         /\ \A c \in Pending(mem) : c \in Pending(mem') \/ (e.type = "tool_result" /\ e.id = c)
         /\ \A c \in CallIds : OpenApproval(mem', c) =>
              OpenApproval(mem, c) \/ (e.type = "approval_requested" /\ e.id = c)
         /\ \A c \in CallIds : Count(mem, ToolResult(c, "done")) \in Nat
         /\ \A c \in CallIds : e # ToolResult(c, "done") =>
              Count(mem', ToolResult(c, "done")) = Count(mem, ToolResult(c, "done"))
         /\ \A c \in CallIds : e = ToolResult(c, "done") /\ mem' = mem \o <<e>> =>
              Count(mem', ToolResult(c, "done")) = Count(mem, ToolResult(c, "done")) + 1
         /\ ResolvedWithoutResult(mem') \subseteq
              ResolvedWithoutResult(mem) \cup (IF e.type = "approval_resolved" THEN {e.id} ELSE {})
         /\ Len(mem) \in Nat /\ Len(mem') \in Nat
         /\ mem' = mem \/ Len(mem') = Len(mem) + 1
<1>1. mem \in Seq(LoopEvents) /\ e \in LoopEvents
  BY DEF LoopTypes, LegalEvent
<1>2. CASE mem' = mem
  BY <1>1, <1>2, CountAppended, SeqShape
<1>3. CASE mem' = mem \o <<e>>
  <2> DEFINE b == <<e>>
  <2>1. b \in Seq(LoopEvents)
    BY <1>1
  <2>2. Pending(mem') = IF e.type = "tool_result" THEN Pending(mem) \ {e.id} ELSE Pending(mem)
    BY <1>1, <1>3, EventPending
  <2>3. \A type : Ids(mem', type) = Ids(mem, type) \cup (IF e.type = type THEN {e.id} ELSE {})
    BY <1>1, <1>3, EventIds
  <2>4. ASSUME NEW c \in CallIds, OpenApproval(mem', c)
        PROVE  OpenApproval(mem, c) \/ (e.type = "approval_requested" /\ e.id = c)
    <3>1. Ids(b, "approval_requested") = IF e.type = "approval_requested" THEN {e.id} ELSE {}
      BY IdsOfOne
    <3>2. OpenApproval(mem \o b, c)
      BY <1>3, <2>4
    <3> HIDE DEF b
    <3> QED
      BY <1>1, <2>1, <3>1, <3>2, OpenKept
  <2>5. ASSUME NEW c \in CallIds
        PROVE  /\ Count(mem, ToolResult(c, "done")) \in Nat
               /\ Count(mem', ToolResult(c, "done"))
                    = Count(mem, ToolResult(c, "done")) + (IF e = ToolResult(c, "done") THEN 1 ELSE 0)
    BY <1>1, <1>3, CountAppended
  <2>6. ResolvedWithoutResult(mem') \subseteq
          ResolvedWithoutResult(mem) \cup (IF e.type = "approval_resolved" THEN {e.id} ELSE {})
    BY <2>2, <2>3 DEF ResolvedWithoutResult
  <2>7. Len(mem) \in Nat /\ Len(mem') = Len(mem) + 1
    BY <1>1, <1>3, EventIds, SeqShape
  <2> QED
    BY <2>2, <2>4, <2>5, <2>6, <2>7
<1> QED
  BY <1>2, <1>3

LEMMA StepEffects ==
  ASSUME LoopTypes, SoundLog(mem), NEW stop, NEW calls, LegalStep(mem, stop, calls),
         mem' = mem \/ mem' = mem \o Staged(stop, calls)
  PROVE  /\ stop # "tool_use" => Pending(mem') = {}
         /\ \A c \in Pending(mem') : ~OpenApproval(mem', c)
         /\ \A c \in CallIds : Count(mem', ToolResult(c, "done")) = Count(mem, ToolResult(c, "done"))
         /\ ResolvedWithoutResult(mem') = {}
<1> DEFINE b == Staged(stop, calls)
           given == {calls[i] : i \in DOMAIN calls}
<1>1. /\ mem \in Seq(LoopEvents) /\ stop \in StopReasons /\ calls \in Seq(CallIds) /\ Pending(mem) = {}
      /\ \A type \in Approvals : Ids(mem, type) \subseteq Ids(mem, "tool_use")
  BY DEF LoopTypes, LegalStep, SoundLog, ApprovalsOfCalls
<1>2. CASE mem' = mem
  BY <1>1, <1>2 DEF ResolvedWithoutResult
<1>3. CASE mem' = mem \o b
  <2>1. /\ \A type \in Approvals : Ids(mem', type) = Ids(mem, type)
        /\ Pending(mem') \subseteq given \ Ids(mem, "tool_use")
        /\ stop # "tool_use" => Pending(mem') = {}
        /\ mem' \in Seq(LoopEvents)
    BY <1>1, <1>3, StepPending
  <2>2. \A c \in Pending(mem') : c \notin Ids(mem', "approval_requested") /\ c \notin Ids(mem', "approval_resolved")
    BY <1>1, <2>1 DEF Approvals
  <2>3. \A c \in Pending(mem') : ~OpenApproval(mem', c)
    BY <2>1, <2>2, OpenIsRequested
  <2>4. ResolvedWithoutResult(mem') = {}
    BY <2>2 DEF ResolvedWithoutResult
  <2>5. ASSUME NEW c \in CallIds
        PROVE  Count(mem', ToolResult(c, "done")) = Count(mem, ToolResult(c, "done"))
    <3>1. ToolResult(c, "done").type = "tool_result" /\ ToolResult(c, "done").info = "done"
      BY ResultEvent DEF ResultKinds
    <3>2. ASSUME NEW p \in DOMAIN b
          PROVE  b[p] # ToolResult(c, "done")
      <4>1. CASE b[p].type = "tool_result"
        <5>1. /\ p \in Len(calls) + 2 .. 2 * Len(calls) + 1
              /\ b[p] = ToolResult(calls[(p - 1) - Len(calls)], "incomplete")
          BY <1>1, <4>1, StagedShape
        <5>2. Len(calls) \in Nat /\ \A i \in 1 .. Len(calls) : calls[i] \in CallIds
          BY <1>1, SeqShape
        <5>3. calls[(p - 1) - Len(calls)] \in CallIds
          BY <5>1, <5>2
        <5>4. b[p].info = "incomplete"
          BY <5>1, <5>3, ResultEvent DEF ResultKinds
        <5> QED
          BY <3>1, <5>4
      <4>2. CASE b[p].type # "tool_result"
        BY <3>1, <4>2
      <4> QED
        BY <4>1, <4>2
    <3>3. b \in Seq(LoopEvents)
      BY <1>1, StagedTypes
    <3> HIDE DEF b
    <3> QED
      BY <1>1, <1>3, <3>2, <3>3, CountKept
  <2> QED
    BY <2>1, <2>3, <2>4, <2>5
<1> QED
  BY <1>2, <1>3

-----------------------------------------------------------------------------
(* Steps to a place where the loop holds no calls. *)
FreePCs == PCs \ (Holding \cup {"dispatch"})

CrashesCounted == crashes' = crashes \/ crashes' = crashes + 1
FailureCounted == failures' + crashes' >= failures + crashes + 1

LEMMA Numbers ==
  ASSUME LoopTypes
  PROVE  /\ failures \in Nat /\ crashes \in Nat /\ latch \in BOOLEAN
         /\ \A c \in CallIds : executed[c] \in Nat
         /\ mem \in Seq(LoopEvents) /\ stored \in Seq(LoopEvents)
         /\ loop.queue \in Seq(CallIds) /\ loop.pc \in PCs
<1>1. LogTypes /\ LocalTypes /\ HistoryTypes
  BY TypesInParts
<1>2. failures \in Nat /\ latch \in BOOLEAN /\ mem \in Seq(LoopEvents) /\ stored \in Seq(LoopEvents)
  BY <1>1 DEF LogTypes
<1>3. loop.queue \in Seq(CallIds) /\ loop.pc \in PCs
  BY <1>1 DEF LocalTypes, LoopLocals
<1>4. crashes \in Nat
  BY <1>1, AgentLoopAssumption DEF HistoryTypes
<1>5. \A c \in CallIds : executed[c] \in Nat
  BY <1>1 DEF HistoryTypes
<1> QED
  BY <1>2, <1>3, <1>4, <1>5

LEMMA NumbersNext ==
  ASSUME LoopTypes'
  PROVE  /\ failures' \in Nat /\ crashes' \in Nat /\ latch' \in BOOLEAN
         /\ \A c \in CallIds : executed'[c] \in Nat
         /\ mem' \in Seq(LoopEvents) /\ stored' \in Seq(LoopEvents)
<1>1. LogTypes' /\ LocalTypes' /\ HistoryTypes'
  BY TypesInPartsNext
<1>2. failures' \in Nat /\ latch' \in BOOLEAN /\ mem' \in Seq(LoopEvents) /\ stored' \in Seq(LoopEvents)
  BY <1>1 DEF LogTypes
<1>3. crashes' \in Nat
  BY <1>1, AgentLoopAssumption DEF HistoryTypes
<1>4. \A c \in CallIds : executed'[c] \in Nat
  BY <1>1 DEF HistoryTypes
<1> QED
  BY <1>2, <1>3, <1>4

LEMMA Sums ==
  ASSUME NEW f \in Nat, NEW g \in Nat, NEW f2 \in {f, f + 1}, NEW g2 \in {g, g + 1}
  PROVE  /\ f + g \in Nat /\ f2 + g2 \in Nat /\ f + g <= f2 + g2
         /\ f2 + g2 >= f + g + 1 => (f + g) + 1 <= f2 + g2
         /\ f2 = f + 1 \/ g2 = g + 1 => f2 + g2 >= f + g + 1
         /\ f2 + g2 = 0 => f + g = 0
         /\ f = 0 /\ g = 0 <=> f + g = 0
OBVIOUS

(* The failures and crashes only add up. *)
LEMMA FaultsGrow ==
  ASSUME LoopTypes, LoopTypes', failures' = failures \/ failures' = failures + 1, CrashesCounted
  PROVE  /\ failures + crashes \in Nat /\ failures' + crashes' \in Nat
         /\ failures + crashes <= failures' + crashes'
         /\ FailureCounted => (failures + crashes) + 1 <= failures' + crashes'
         /\ failures' = failures + 1 \/ crashes' = crashes + 1 => FailureCounted
         /\ Undisturbed' => Undisturbed
         /\ Undisturbed <=> failures + crashes = 0
<1>1. failures \in Nat /\ crashes \in Nat
  BY Numbers
<1>2. failures' \in {failures, failures + 1} /\ crashes' \in {crashes, crashes + 1}
  BY DEF CrashesCounted
<1>3. failures' \in Nat /\ crashes' \in Nat
  BY NumbersNext
<1>4. /\ failures + crashes \in Nat /\ failures' + crashes' \in Nat
      /\ failures + crashes <= failures' + crashes'
      /\ failures' + crashes' >= failures + crashes + 1 => (failures + crashes) + 1 <= failures' + crashes'
      /\ failures' = failures + 1 \/ crashes' = crashes + 1 => failures' + crashes' >= failures + crashes + 1
      /\ failures = 0 /\ crashes = 0 <=> failures + crashes = 0
  BY <1>1, <1>2, Sums
<1>5. failures' = 0 /\ crashes' = 0 => failures = 0 /\ crashes = 0
  BY <1>1, <1>2
<1> QED
  BY <1>4, <1>5 DEF FailureCounted, Undisturbed

(* Every step but an execution: the counts stay within their bound. *)
LEMMA Frame ==
  ASSUME LoopTypes, LoopCore, LoopTypes', Grown, LogSound', Ids(stored', "tool_use") \subseteq issued',
         executed' = executed, CrashesCounted, QueueInv', PreparedInv', LatchedInv',
         \A c \in CallIds : Executing(c) =>
           \/ Executing(c)' \/ c \in Ids(mem', "tool_result") \/ FailureCounted
           \/ executed[c] <= failures + crashes
  PROVE  /\ LogInv' /\ StorageInv' /\ QueueInv' /\ PreparedInv' /\ LatchedInv'
         /\ ExecutionsInv' /\ ExecutedIsDurable'
<1>1. LogInv' /\ StorageInv'
  BY DEF LogSound, LogInv
<1>2. /\ failures + crashes \in Nat /\ failures' + crashes' \in Nat
      /\ failures + crashes <= failures' + crashes' /\ \A c \in CallIds : executed[c] \in Nat
      /\ FailureCounted => (failures + crashes) + 1 <= failures' + crashes'
  BY Numbers, FaultsGrow DEF Grown
<1>3. ASSUME NEW c \in CallIds
      PROVE  /\ executed'[c] <= failures' + crashes' + 1
             /\ c \notin Ids(mem', "tool_result") /\ ~Executing(c)' => executed'[c] <= failures' + crashes'
  <2>1. executed[c] <= failures + crashes + 1
    BY DEF LoopCore, ExecutionsInv
  <2>2. c \notin Ids(mem, "tool_result") /\ ~Executing(c) => executed[c] <= failures + crashes
    BY DEF LoopCore, ExecutionsInv
  <2>3. c \in Ids(mem, "tool_result") => c \in Ids(mem', "tool_result")
    BY DEF Grown
  <2>4. executed[c] \in Nat /\ executed'[c] = executed[c]
    BY <1>2
  <2> DEFINE F == failures + crashes
             G == failures' + crashes'
  <2>5. F \in Nat /\ G \in Nat /\ F <= G
    BY <1>2
  <2>6. Executing(c) /\ ~Executing(c)' /\ c \notin Ids(mem', "tool_result") =>
          F + 1 <= G \/ executed[c] <= F
    BY <1>2
  <2>7. /\ executed[c] <= F + 1
        /\ c \notin Ids(mem, "tool_result") /\ ~Executing(c) => executed[c] <= F
    BY <2>1, <2>2
  <2> HIDE DEF F, G
  <2>8. /\ executed[c] <= G + 1
        /\ c \notin Ids(mem', "tool_result") /\ ~Executing(c)' => executed[c] <= G
    BY <2>3, <2>4, <2>5, <2>6, <2>7
  <2> QED
    BY <2>4, <2>8 DEF G
<1>4. ExecutionsInv'
  BY <1>3 DEF ExecutionsInv
<1>5. ExecutedIsDurable'
  BY DEF LoopCore, ExecutedIsDurable, Grown
<1> QED
  BY <1>1, <1>4, <1>5

LEMMA FreeHolds ==
  ASSUME loop'.pc \in FreePCs
  PROVE  QueueInv' /\ LatchedInv' /\ loop'.pc \notin {"result"} \cup ApiPCs
<1>1. loop'.pc \notin Holding \cup {"dispatch"}
  BY DEF FreePCs
<1> QED
  BY <1>1 DEF QueueInv, LatchedInv, Holding, ApiPCs

(* Between executions, and with no approval at work. *)
LEMMA Histories ==
  ASSUME LoopTypes, LoopCore, LoopTypes', Grown, executed' = executed, CrashesCounted,
         loop.pc \notin {"result"} \cup ApiPCs, loop'.pc \notin {"result"} \cup ApiPCs,
         Undisturbed' => \A c \in CallIds :
           Count(mem', ToolResult(c, "done")) = Count(mem, ToolResult(c, "done")),
         Undisturbed' => ResolvedWithoutResult(mem') \subseteq ResolvedWithoutResult(mem)
  PROVE  LogAccountsForExecutions' /\ ResolvedInv'
<1>1. Undisturbed' => Undisturbed
  BY FaultsGrow DEF Grown
<1>2. \A c \in CallIds : ~Executing(c) /\ ~Executing(c)'
  BY DEF Executing, ApiPCs
<1>3. LogAccountsForExecutions'
  BY <1>1, <1>2 DEF LoopCore, LogAccountsForExecutions
<1>4. ResolvedInv'
  <2>1. Undisturbed => ResolvedWithoutResult(mem) = {}
    BY DEF LoopCore, ResolvedInv
  <2> QED
    BY <1>1, <2>1 DEF ResolvedInv
<1> QED
  BY <1>3, <1>4

(* The steps that touch no log. *)
LEMMA Quiet ==
  ASSUME LoopTypes, LoopCore, LoopTypes', UNCHANGED logVars, UNCHANGED <<issued, executed, crashes>>,
         loop.pc \notin {"result"} \cup ApiPCs, loop'.pc \notin {"result"} \cup ApiPCs,
         QueueInv', LatchedInv', PreparedInv'
  PROVE  LoopCore'
<1>1. mem' = mem /\ stored' = stored /\ latch' = latch /\ failures' = failures /\ outages' = outages
  BY DEF logVars
<1>2. LogSound /\ Ids(stored', "tool_use") \subseteq issued'
  BY <1>1 DEF LoopCore, LogInv, LogSound
<1>3. Grown /\ LogSound'
  BY <1>1, <1>2, UnchangedGrown
<1>4. \A c \in CallIds : ~Executing(c)
  BY DEF Executing, ApiPCs
<1>5. /\ LogInv' /\ StorageInv' /\ QueueInv' /\ PreparedInv' /\ LatchedInv'
      /\ ExecutionsInv' /\ ExecutedIsDurable'
  BY <1>2, <1>3, <1>4, Frame DEF CrashesCounted
<1>6. LogAccountsForExecutions' /\ ResolvedInv'
  BY <1>1, <1>3, Histories DEF CrashesCounted
<1> QED
  BY <1>5, <1>6 DEF LoopCore

(* The append of one legal event, whatever becomes of it. *)
LEMMA EventFrame ==
  ASSUME LoopTypes, LoopCore, LoopTypes', NEW e, LegalEvent(mem, e), Append_(<<e>>),
         UNCHANGED <<issued, executed, crashes>>, QueueInv', LatchedInv', PreparedInv',
         \A c \in CallIds : Executing(c) => e.type = "tool_result" /\ e.id = c
  PROVE  /\ Grown /\ CrashesCounted
         /\ LogInv' /\ StorageInv' /\ QueueInv' /\ PreparedInv' /\ LatchedInv'
         /\ ExecutionsInv' /\ ExecutedIsDurable'
         /\ Undisturbed' => Undisturbed /\ ~latch' /\ mem' = mem \o <<e>>
<1>1. LogSound
  BY DEF LoopCore, LogInv, LogSound
<1>2. /\ Grown /\ LogSound' /\ Ids(stored', "tool_use") = Ids(stored, "tool_use")
      /\ mem' = mem \/ mem' = mem \o <<e>>
      /\ latch => latch' /\ mem' = mem /\ failures' = failures
      /\ ~latch /\ latch' => failures' = failures + 1 /\ mem' = mem
      /\ ~latch' => failures' = failures /\ mem' = mem \o <<e>>
  BY <1>1, OneGrown
<1>3. Ids(stored', "tool_use") \subseteq issued'
  BY <1>2 DEF LoopCore, LogInv
<1>4. CrashesCounted
  BY DEF CrashesCounted
<1>5. ASSUME NEW c \in CallIds, Executing(c)
      PROVE  c \in Ids(mem', "tool_result") \/ FailureCounted \/ executed[c] <= failures + crashes
  <2>1. CASE ~latch'
    <3>1. e \in LoopEvents /\ mem \in Seq(LoopEvents) /\ mem' = mem \o <<e>>
      BY <1>2, <2>1, Numbers DEF LegalEvent
    <3>2. e.type = "tool_result" /\ e.id = c
      BY <1>5
    <3> QED
      BY <3>1, <3>2, EventIds
  <2>2. CASE ~latch /\ latch'
    BY <1>2, <1>4, <2>2, FaultsGrow
  <2>3. CASE latch
    <3>1. loop.pc = "result" /\ Head(loop.queue) = c
      BY <1>5, <2>3 DEF LoopCore, LatchedInv, Executing
    <3>2. Head(loop.queue) = loop.queue[1] /\ 1 \in DOMAIN loop.queue
      BY <3>1, Numbers, QueueParts DEF LoopTypes, Holding
    <3> QED
      BY <2>3, <3>1, <3>2 DEF LoopCore, LatchedInv
  <2> QED
    BY <2>1, <2>2, <2>3, Numbers
<1>6. /\ LogInv' /\ StorageInv' /\ QueueInv' /\ PreparedInv' /\ LatchedInv'
      /\ ExecutionsInv' /\ ExecutedIsDurable'
  BY <1>2, <1>3, <1>4, <1>5, Frame
<1>7. Undisturbed' => Undisturbed /\ ~latch'
  BY <1>4, <1>2, <1>6, FaultsGrow DEF StorageInv, Undisturbed
<1> QED
  BY <1>2, <1>4, <1>6, <1>7

LEMMA PlainIsLegal ==
  ASSUME NEW e \in PlainEvents
  PROVE  /\ e \in LoopEvents /\ \A events : LegalEvent(events, e)
         /\ e.type \notin AboutCalls /\ \A c \in CallIds : e # ToolResult(c, "done")
<1>1. e \in LoopEvents /\ e.type \notin AboutCalls /\ e.type # "assistant_message"
  BY DEF PlainEvents
<1>2. \A c \in CallIds : ToolResult(c, "done").type = "tool_result"
  BY ResultEvent DEF ResultKinds
<1> QED
  BY <1>1, <1>2 DEF LegalEvent, AboutCalls

(* An event that is neither a result of an execution nor a resolution. *)
LEMMA EventStep ==
  ASSUME LoopTypes, LoopCore, LoopTypes', NEW e, LegalEvent(mem, e), Append_(<<e>>),
         \A c \in CallIds : e # ToolResult(c, "done"), e.type # "approval_resolved",
         UNCHANGED <<issued, executed, crashes>>, QueueInv', LatchedInv', PreparedInv',
         loop.pc \notin {"result"} \cup ApiPCs, loop'.pc \notin {"result"} \cup ApiPCs
  PROVE  LoopCore'
<1>1. \A c \in CallIds : ~Executing(c)
  BY DEF Executing, ApiPCs
<1>2. /\ Grown /\ CrashesCounted
      /\ LogInv' /\ StorageInv' /\ QueueInv' /\ PreparedInv' /\ LatchedInv'
      /\ ExecutionsInv' /\ ExecutedIsDurable'
      /\ Undisturbed' => mem' = mem \o <<e>>
  BY <1>1, EventFrame
<1>3. Undisturbed' => /\ \A c \in CallIds : Count(mem', ToolResult(c, "done")) = Count(mem, ToolResult(c, "done"))
                      /\ ResolvedWithoutResult(mem') \subseteq ResolvedWithoutResult(mem)
  BY <1>2, EventEffects
<1>4. LogAccountsForExecutions' /\ ResolvedInv'
  BY <1>2, <1>3, Histories
<1> QED
  BY <1>2, <1>4 DEF LoopCore

LEMMA PlainStep ==
  ASSUME LoopTypes, LoopCore, LoopTypes', NEW e \in PlainEvents, Append_(<<e>>),
         UNCHANGED <<issued, executed, crashes>>,
         loop.pc \notin {"result"} \cup ApiPCs, loop'.pc \in FreePCs, PreparedInv'
  PROVE  LoopCore'
<1>1. LegalEvent(mem, e) /\ e.type # "approval_resolved" /\ \A c \in CallIds : e # ToolResult(c, "done")
  BY PlainIsLegal DEF AboutCalls
<1> QED
  BY <1>1, FreeHolds, EventStep

LEMMA PlainEventsMade ==
  /\ UserMessage \in PlainEvents /\ Annotation \in PlainEvents /\ RuntimeError \in PlainEvents
  /\ \A info \in Infos : ProviderError(info) \in PlainEvents
<1>1. /\ UserMessage.type = "user_message" /\ Annotation.type = "annotation"
      /\ RuntimeError.type = "runtime_error"
      /\ \A info \in Infos : ProviderError(info).type = "provider_error"
  BY DEF UserMessage, Annotation, RuntimeError, ProviderError, MakeEvent
<1> QED
  BY <1>1, LoopEventsMade DEF PlainEvents, AboutCalls

-----------------------------------------------------------------------------
(* The actions, one group after the other. *)
NotPrepared == loop.pc \notin {"attempt", "invoke", "calling"}

LEMMA NothingPrepared ==
  ASSUME NotPrepared'
  PROVE  PreparedInv'
BY DEF NotPrepared, PreparedInv

LEMMA IdleNext ==
  ASSUME NEW reason, Return(reason)
  PROVE  loop'.pc \in FreePCs /\ NotPrepared' /\ outcome' = reason
BY DEF Return, IdleLoop, FreePCs, PCs, Holding, ApiPCs, NotPrepared

LEMMA GotoNext ==
  ASSUME LoopTypes, NEW pc, Goto(pc)
  PROVE  /\ loop'.pc = pc /\ loop'.queue = loop.queue /\ loop'.prepared = loop.prepared
         /\ outcome' = outcome
BY DEF LoopTypes, TypeOK, Goto

LEMMA StartKeeps ==
  ASSUME LoopTypes, LoopCore, LoopTypes', Chat \/ Resume
  PROVE  LoopCore'
<1>1. /\ loop.pc = "idle" /\ loop'.pc = "entry" /\ UNCHANGED <<issued, executed, crashes>>
      /\ Append_(<<UserMessage>>) \/ UNCHANGED logVars
  BY DEF Chat, Resume, StartRun, At_, IdleLoop
<1>2. loop.pc \notin {"result"} \cup ApiPCs /\ loop'.pc \in FreePCs /\ PreparedInv'
  BY <1>1, NothingPrepared DEF FreePCs, PCs, Holding, ApiPCs, NotPrepared
<1>3. CASE Append_(<<UserMessage>>)
  BY <1>1, <1>2, <1>3, PlainStep, PlainEventsMade
<1>4. CASE UNCHANGED logVars
  BY <1>1, <1>2, <1>4, Quiet, FreeHolds
<1> QED
  BY <1>1, <1>3, <1>4

LEMMA HookFailsKeeps ==
  ASSUME LoopTypes, LoopCore, LoopTypes', HookFailsTurn
  PROVE  LoopCore'
<1>1. /\ loop.pc \notin {"result"} \cup ApiPCs /\ UNCHANGED <<issued, executed, crashes>>
      /\ Append_(<<RuntimeError>>) /\ Return("runtime_failed")
  BY DEF HookFailsTurn, At_, AfterATool, ApiPCs, history
<1> QED
  BY <1>1, IdleNext, NothingPrepared, PlainStep, PlainEventsMade

(* What is prepared stays the log, or falls behind it. *)
LEMMA HookAppendsKeeps ==
  ASSUME LoopTypes, LoopCore, LoopTypes', HookAppends
  PROVE  LoopCore'
<1>1. /\ loop.pc = "attempt" /\ UNCHANGED <<issued, executed, crashes>>
      /\ Append_(<<Annotation>>) /\ loop'.pc = "invoke" /\ loop'.prepared = loop.prepared
  BY GotoNext DEF HookAppends, At_, history
<1>2. /\ mem' = mem \/ Len(mem') = Len(mem) + 1
      /\ Len(mem) \in Nat
  <2>1. Annotation \in LoopEvents /\ <<Annotation>> \in Seq(LoopEvents)
    BY LoopEventsMade
  <2>2. mem' = mem \/ mem' = mem \o <<Annotation>>
    BY <1>1, <2>1, Appends
  <2>3. mem \in Seq(LoopEvents)
    BY Numbers
  <2> QED
    BY <2>1, <2>2, <2>3, EventIds, SeqShape
<1>3. PreparedInv'
  <2>1. loop.prepared <= Len(mem) /\ (loop.prepared = Len(mem) => ProviderReady(mem))
    BY <1>1 DEF LoopCore, PreparedInv
  <2>2. loop.prepared \in Nat
    BY DEF LoopTypes, TypeOK
  <2>3. loop.prepared <= Len(mem') /\ (loop.prepared = Len(mem') => ProviderReady(mem'))
    BY <1>2, <2>1, <2>2
  <2> QED
    BY <1>1, <2>3 DEF PreparedInv
<1>4. loop.pc \notin {"result"} \cup ApiPCs /\ loop'.pc \in FreePCs
  BY <1>1 DEF FreePCs, PCs, Holding, ApiPCs
<1> QED
  BY <1>1, <1>3, <1>4, PlainStep, PlainEventsMade

LEMMA ProviderFailsKeeps ==
  ASSUME LoopTypes, LoopCore, LoopTypes', NEW retryable \in BOOLEAN, ProviderFails(retryable)
  PROVE  LoopCore'
<1> DEFINE info == IF retryable /\ loop.attempt < MaxAttempts THEN "retried" ELSE "final"
<1>1. info \in Infos /\ ProviderError(info) \in PlainEvents
  BY PlainEventsMade DEF Infos
<1>2. /\ loop.pc = "calling" /\ UNCHANGED <<issued, executed, crashes>> /\ Append_(<<ProviderError(info)>>)
      /\ \/ \E reason : Return(reason)
         \/ /\ ProviderReady(mem')
            /\ loop' = [loop EXCEPT !.pc = "attempt", !.attempt = @ + 1, !.prepared = Len(mem')]
  BY DEF ProviderFails, At_, history
<1>3. loop'.pc \in FreePCs /\ PreparedInv'
  <2>1. CASE \E reason : Return(reason)
    BY <2>1, IdleNext, NothingPrepared
  <2>2. CASE /\ ProviderReady(mem')
             /\ loop' = [loop EXCEPT !.pc = "attempt", !.attempt = @ + 1, !.prepared = Len(mem')]
    <3>1. loop'.pc = "attempt" /\ loop'.prepared = Len(mem')
      BY <2>2 DEF LoopTypes, TypeOK
    <3>2. Len(mem') \in Nat
      BY NumbersNext, SeqShape
    <3>3. Len(mem') <= Len(mem')
      BY <3>2
    <3>4. loop'.pc \in FreePCs
      BY <3>1 DEF FreePCs, PCs, Holding, ApiPCs
    <3> QED
      BY <2>2, <3>1, <3>3, <3>4 DEF PreparedInv
  <2> QED
    BY <1>2, <2>1, <2>2
<1>4. loop.pc \notin {"result"} \cup ApiPCs
  BY <1>2 DEF ApiPCs
<1> QED
  BY <1>1, <1>2, <1>3, <1>4, PlainStep

LEMMA EntryKeeps ==
  ASSUME LoopTypes, LoopCore, LoopTypes', RunEntry
  PROVE  LoopCore'
<1>1. /\ loop.pc = "entry" /\ UNCHANGED logVars /\ UNCHANGED <<issued, executed, crashes>> /\ mem' = mem
      /\ \/ \E reason : Return(reason)
         \/ loop' = [loop EXCEPT !.pc = "turn", !.turn = 1]
         \/ /\ ~latch /\ EntryOutcome(mem) = "dispatch"
            /\ loop' = [loop EXCEPT !.pc = "dispatch", !.from = "entry"]
  BY DEF RunEntry, At_, history, logVars
<1>2. loop.pc \notin {"result"} \cup ApiPCs
  BY <1>1 DEF ApiPCs
<1>3. CASE \E reason : Return(reason)
  BY <1>1, <1>2, <1>3, IdleNext, NothingPrepared, FreeHolds, Quiet
<1>4. CASE loop' = [loop EXCEPT !.pc = "turn", !.turn = 1]
  <2>1. loop'.pc = "turn"
    BY <1>4 DEF LoopTypes, TypeOK
  <2>2. loop'.pc \in FreePCs /\ NotPrepared'
    BY <2>1 DEF FreePCs, PCs, Holding, ApiPCs, NotPrepared
  <2> QED
    BY <1>1, <1>2, <2>2, NothingPrepared, FreeHolds, Quiet
<1>5. CASE /\ ~latch /\ EntryOutcome(mem) = "dispatch"
           /\ loop' = [loop EXCEPT !.pc = "dispatch", !.from = "entry"]
  <2>1. loop'.pc = "dispatch" /\ latch' = latch
    BY <1>1, <1>5 DEF LoopTypes, TypeOK, logVars
  <2>2. Awaiting(mem) = {}
    BY <1>5 DEF EntryOutcome
  <2>3. \A c \in Pending(mem) : ~OpenApproval(mem, c)
    BY <2>2, Numbers, OpenIsAwaiting
  <2>4. QueueInv'
    BY <1>1, <2>1, <2>3 DEF QueueInv, Holding, ApiPCs
  <2>5. LatchedInv'
    BY <1>5, <2>1 DEF LatchedInv
  <2>6. PreparedInv' /\ loop'.pc \notin {"result"} \cup ApiPCs
    BY <2>1 DEF PreparedInv, ApiPCs
  <2> QED
    BY <1>1, <1>2, <2>4, <2>5, <2>6, Quiet
<1> QED
  BY <1>1, <1>3, <1>4, <1>5

LEMMA ReturnKeeps ==
  ASSUME LoopTypes, LoopCore, LoopTypes', UNCHANGED logVars, UNCHANGED history,
         loop.pc \notin {"result"} \cup ApiPCs, NEW reason, Return(reason)
  PROVE  LoopCore'
BY IdleNext, NothingPrepared, FreeHolds, Quiet DEF history

LEMMA DispatchKeeps ==
  ASSUME LoopTypes, LoopCore, LoopTypes', NoPendingTools \/ AfterDispatch
  PROVE  LoopCore'
<1>1. /\ loop.pc \in {"dispatch", "dispatched"} /\ UNCHANGED logVars /\ UNCHANGED history
      /\ \/ \E reason : Return(reason)
         \/ loop' = [IdleLoop EXCEPT !.pc = "turn", !.turn = loop.turn + 1]
  BY DEF NoPendingTools, AfterDispatch, At_
<1>2. loop.pc \notin {"result"} \cup ApiPCs
  BY <1>1 DEF ApiPCs
<1>3. CASE \E reason : Return(reason)
  BY <1>1, <1>2, <1>3, ReturnKeeps
<1>4. CASE loop' = [IdleLoop EXCEPT !.pc = "turn", !.turn = loop.turn + 1]
  <2>1. loop'.pc = "turn"
    BY <1>4 DEF IdleLoop
  <2>2. loop'.pc \in FreePCs /\ NotPrepared'
    BY <2>1 DEF FreePCs, PCs, Holding, ApiPCs, NotPrepared
  <2> QED
    BY <1>1, <1>2, <2>2, NothingPrepared, FreeHolds, Quiet DEF history
<1> QED
  BY <1>1, <1>3, <1>4

LEMMA PrepareKeeps ==
  ASSUME LoopTypes, LoopCore, LoopTypes', Prepare
  PROVE  LoopCore'
<1>1. /\ loop.pc \in {"turn", "prepare"} /\ UNCHANGED logVars /\ UNCHANGED history /\ mem' = mem
      /\ \/ \E reason : Return(reason)
         \/ /\ ProviderReady(mem)
            /\ loop' = [loop EXCEPT !.pc = "attempt", !.attempt = 1, !.prepared = Len(mem)]
  BY DEF Prepare, At_, logVars
<1>2. loop.pc \notin {"result"} \cup ApiPCs
  BY <1>1 DEF ApiPCs
<1>3. CASE \E reason : Return(reason)
  BY <1>1, <1>2, <1>3, ReturnKeeps
<1>4. CASE /\ ProviderReady(mem)
           /\ loop' = [loop EXCEPT !.pc = "attempt", !.attempt = 1, !.prepared = Len(mem)]
  <2>1. loop'.pc = "attempt" /\ loop'.prepared = Len(mem)
    BY <1>4 DEF LoopTypes, TypeOK
  <2>2. Len(mem) \in Nat
    BY Numbers, SeqShape
  <2>3. Len(mem) <= Len(mem)
    BY <2>2
  <2>4. PreparedInv'
    BY <1>1, <1>4, <2>1, <2>3 DEF PreparedInv
  <2>5. loop'.pc \in FreePCs
    BY <2>1 DEF FreePCs, PCs, Holding, ApiPCs
  <2> QED
    BY <1>1, <1>2, <2>4, <2>5, FreeHolds, Quiet DEF history
<1> QED
  BY <1>1, <1>3, <1>4

LEMMA CallKeeps ==
  ASSUME LoopTypes, LoopCore, LoopTypes', CallProvider \/ ProviderAnswersMalformed
  PROVE  LoopCore'
<1>1. /\ loop.pc \in {"attempt", "invoke", "calling"} /\ UNCHANGED logVars /\ UNCHANGED history /\ mem' = mem
      /\ \/ \E reason : Return(reason)
         \/ loop.prepared = Len(mem) /\ Goto("calling")
  BY DEF CallProvider, ProviderAnswersMalformed, Current, At_, logVars
<1>2. loop.pc \notin {"result"} \cup ApiPCs
  BY <1>1 DEF ApiPCs
<1>3. CASE \E reason : Return(reason)
  BY <1>1, <1>2, <1>3, ReturnKeeps
<1>4. CASE loop.prepared = Len(mem) /\ Goto("calling")
  <2>1. loop'.pc = "calling" /\ loop'.prepared = loop.prepared
    BY <1>4, GotoNext
  <2>2. PreparedInv'
    BY <1>1, <1>4, <2>1 DEF LoopCore, PreparedInv
  <2>3. loop'.pc \in FreePCs
    BY <2>1 DEF FreePCs, PCs, Holding, ApiPCs
  <2> QED
    BY <1>1, <1>2, <2>2, <2>3, FreeHolds, Quiet DEF history
<1> QED
  BY <1>1, <1>3, <1>4

(* Every call decided on is pending, and no approval of it is open. *)
LEMMA DecideKeeps ==
  ASSUME LoopTypes, LoopCore, LoopTypes', DecideTools
  PROVE  LoopCore'
<1>1. /\ loop.pc = "dispatch" /\ UNCHANGED logVars /\ UNCHANGED <<issued, executed, crashes>>
      /\ mem' = mem /\ latch' = latch
  BY DEF DecideTools, At_, history, logVars
<1>2. PICK calls \in Seq(CallIds), denied \in SUBSET CallIds :
        /\ calls # <<>> /\ Distinct(calls) /\ \A i \in DOMAIN calls : calls[i] \in Pending(mem)
        /\ \/ loop' = [loop EXCEPT !.pc = "ask", !.queue = calls]
           \/ loop' = [loop EXCEPT !.pc = "tools", !.queue = calls, !.ran = FALSE, !.denied = denied]
  BY Decided
<1>3. loop'.pc \in {"ask", "tools"} /\ loop'.queue = calls
  BY <1>2 DEF LoopTypes, TypeOK
<1>4. ~latch /\ \A c \in Pending(mem) : ~OpenApproval(mem, c)
  BY <1>1 DEF LoopCore, LatchedInv, QueueInv
<1>5. QueueInv'
  BY <1>1, <1>2, <1>3, <1>4 DEF QueueInv, Holding, ApiPCs
<1>6. LatchedInv'
  BY <1>1, <1>3, <1>4 DEF LatchedInv
<1>7. PreparedInv' /\ loop'.pc \notin {"result"} \cup ApiPCs /\ loop.pc \notin {"result"} \cup ApiPCs
  BY <1>1, <1>3 DEF PreparedInv, ApiPCs
<1> QED
  BY <1>1, <1>5, <1>6, <1>7, Quiet

LEMMA AboutPending ==
  ASSUME LoopTypes, NEW c \in Pending(mem)
  PROVE  /\ c \in CallIds
         /\ LegalEvent(mem, ApprovalRequested(c)) /\ LegalEvent(mem, ApprovalResolved(c))
         /\ \A kind \in ResultKinds : LegalEvent(mem, ToolResult(c, kind))
         /\ \A d \in CallIds : /\ ApprovalRequested(c) # ToolResult(d, "done")
                               /\ ApprovalResolved(c) # ToolResult(d, "done")
                               /\ ToolResult(c, "rejected") # ToolResult(d, "done")
                               /\ d # c => ToolResult(c, "done") # ToolResult(d, "done")
<1>1. c \in CallIds
  BY Numbers, PendingIsCall
<1>2. LegalEvent(mem, ApprovalRequested(c)) /\ LegalEvent(mem, ApprovalResolved(c))
  BY <1>1, LoopEventsMade, EventsMade DEF LegalEvent
<1>3. \A kind \in ResultKinds : LegalEvent(mem, ToolResult(c, kind))
  BY <1>1, ResultEvent DEF LegalEvent
<1>4. ASSUME NEW d \in CallIds
      PROVE  /\ ApprovalRequested(c) # ToolResult(d, "done") /\ ApprovalResolved(c) # ToolResult(d, "done")
             /\ ToolResult(c, "rejected") # ToolResult(d, "done")
             /\ d # c => ToolResult(c, "done") # ToolResult(d, "done")
  BY <1>1, EventsMade, ResultEvent DEF ResultKinds
<1> QED
  BY <1>1, <1>2, <1>3, <1>4

LEMMA AccountsKept ==
  ASSUME LoopCore, Undisturbed' => Undisturbed, executed' = executed,
         \A c \in CallIds : ~Executing(c) /\ ~Executing(c)',
         Undisturbed' => \A c \in CallIds :
           Count(mem', ToolResult(c, "done")) = Count(mem, ToolResult(c, "done"))
  PROVE  LogAccountsForExecutions'
BY DEF LoopCore, LogAccountsForExecutions

(* The two ways to resolve an approval, up to the call's own result. *)
LEMMA ResolveKeeps ==
  ASSUME LoopTypes, LoopCore, LoopTypes', NEW c \in CallIds, ApproveToolUse(c) \/ DenyToolUse(c)
  PROVE  LoopCore'
<1> DEFINE e == ApprovalResolved(c)
<1>1. /\ loop.pc = "idle" /\ c \in Pending(mem) /\ Append_(<<e>>) /\ UNCHANGED <<issued, executed, crashes>>
      /\ \/ latch' /\ \E reason : Return(reason)
         \/ ~latch' /\ loop' = [IdleLoop EXCEPT !.pc = "approved", !.queue = <<c>>]
         \/ loop' = [IdleLoop EXCEPT !.pc = "denied", !.queue = <<c>>]
  BY DEF ApproveToolUse, DenyToolUse, At_, Approvable
<1>2. LegalEvent(mem, e) /\ e.type = "approval_resolved" /\ e.id = c /\ \A d \in CallIds : e # ToolResult(d, "done")
  BY <1>1, AboutPending, EventsMade
<1>3. LogSound
  BY DEF LoopCore, LogInv, LogSound
<1>4. /\ mem' = mem \/ mem' = mem \o <<e>>
      /\ ~latch' => mem' = mem \o <<e>>
  BY <1>1, <1>2, <1>3, OneGrown
<1>5. /\ c \in Pending(mem')
      /\ \A d \in CallIds : Count(mem', ToolResult(d, "done")) = Count(mem, ToolResult(d, "done"))
      /\ ResolvedWithoutResult(mem') \subseteq ResolvedWithoutResult(mem) \cup {c}
  BY <1>1, <1>2, <1>4, EventEffects
<1>6. \A d \in CallIds : ~Executing(d)
  BY <1>1 DEF Executing
<1>7. Undisturbed => ResolvedWithoutResult(mem) = {}
  BY <1>1 DEF LoopCore, ResolvedInv, ApiPCs
<1>8. CASE latch' /\ \E reason : Return(reason)
  <2>1. loop'.pc \in FreePCs /\ PreparedInv' /\ QueueInv' /\ LatchedInv' /\ loop'.pc \notin {"result"} \cup ApiPCs
    BY <1>8, IdleNext, NothingPrepared, FreeHolds
  <2>2. /\ LogInv' /\ StorageInv' /\ QueueInv' /\ PreparedInv' /\ LatchedInv'
        /\ ExecutionsInv' /\ ExecutedIsDurable'
        /\ Undisturbed' => ~latch'
    BY <1>1, <1>2, <1>6, <2>1, EventFrame
  <2>3. LogAccountsForExecutions' /\ ResolvedInv'
    BY <1>8, <2>2 DEF LogAccountsForExecutions, ResolvedInv
  <2> QED
    BY <2>2, <2>3 DEF LoopCore
<1>9. ASSUME NEW pc \in {"approved", "denied"}, pc = "approved" => ~latch',
             loop' = [IdleLoop EXCEPT !.pc = pc, !.queue = <<c>>]
      PROVE  LoopCore'
  <2>1. loop'.pc = pc /\ loop'.queue = <<c>>
    BY <1>9 DEF IdleLoop
  <2>2. DOMAIN loop'.queue = {1} /\ loop'.queue[1] = c /\ Len(loop'.queue) = 1 /\ Head(loop'.queue) = c
    BY <2>1, OneCall
  <2>3. pc = "approved" => ~OpenApproval(mem', c)
    BY <1>4, <1>9, Numbers, ResolvedCloses
  <2>4. Distinct(loop'.queue)
    BY <2>2 DEF Distinct
  <2>5. QueueInv'
    BY <1>5, <2>1, <2>2, <2>3, <2>4 DEF QueueInv, Holding, ApiPCs
  <2>6. LatchedInv'
    BY <1>9, <2>1 DEF LatchedInv
  <2>7. PreparedInv' /\ \A d \in CallIds : ~Executing(d)'
    BY <2>1 DEF PreparedInv, Executing
  <2>8. /\ LogInv' /\ StorageInv' /\ QueueInv' /\ PreparedInv' /\ LatchedInv'
        /\ ExecutionsInv' /\ ExecutedIsDurable'
        /\ Undisturbed' => Undisturbed
    BY <1>1, <1>2, <1>6, <2>5, <2>6, <2>7, EventFrame
  <2>9. LogAccountsForExecutions'
    BY <1>1, <1>5, <1>6, <2>7, <2>8, AccountsKept
  <2>10. ResolvedInv'
    BY <1>5, <1>7, <2>1, <2>2, <2>8 DEF ResolvedInv, ApiPCs
  <2> QED
    BY <2>8, <2>9, <2>10 DEF LoopCore
<1> QED
  BY <1>1, <1>8, <1>9

(* The result that ends ApproveToolUse or DenyToolUse. *)
LEMMA ResultOfApproval ==
  ASSUME LoopTypes, LoopCore, LoopTypes', AppendApprovedResult \/ AppendDeniedResult
  PROVE  LoopCore'
<1> DEFINE c == Head(loop.queue)
           kind == IF loop.pc = "denied" THEN "rejected" ELSE "done"
           e == ToolResult(c, kind)
<1>1. /\ loop.pc \in {"approved result", "denied"} /\ UNCHANGED <<issued, executed, crashes>>
      /\ Append_(<<e>>) /\ \E reason : Return(reason)
  BY DEF AppendApprovedResult, AppendDeniedResult, At_, history
<1>2. c \in Pending(mem)
  <2>1. c = loop.queue[1] /\ 1 \in DOMAIN loop.queue
    BY <1>1, Numbers, QueueParts DEF LoopTypes, Holding, ApiPCs
  <2> QED
    BY <1>1, <2>1 DEF LoopCore, QueueInv, Holding, ApiPCs
<1>3. /\ c \in CallIds /\ LegalEvent(mem, e) /\ e.type = "tool_result" /\ e.id = c
      /\ kind = "rejected" => \A d \in CallIds : e # ToolResult(d, "done")
      /\ \A d \in CallIds \ {c} : e # ToolResult(d, "done")
  BY <1>2, AboutPending, ResultEvent DEF ResultKinds
<1>4. /\ loop'.pc \in FreePCs /\ PreparedInv' /\ QueueInv' /\ LatchedInv'
      /\ loop'.pc \notin {"result"} \cup ApiPCs
  BY <1>1, IdleNext, NothingPrepared, FreeHolds
<1>5. \A d \in CallIds : (Executing(d) <=> d = c /\ loop.pc = "approved result") /\ ~Executing(d)'
  BY <1>1, <1>4 DEF Executing, FreePCs, Holding, ApiPCs
<1>6. /\ LogInv' /\ StorageInv' /\ QueueInv' /\ PreparedInv' /\ LatchedInv'
      /\ ExecutionsInv' /\ ExecutedIsDurable'
      /\ Undisturbed' => Undisturbed /\ mem' = mem \o <<e>>
  BY <1>1, <1>3, <1>4, <1>5, EventFrame
<1>7. ASSUME Undisturbed'
      PROVE  /\ \A d \in CallIds : executed'[d] = Count(mem', ToolResult(d, "done"))
             /\ ResolvedWithoutResult(mem') = {}
  <2>1. Undisturbed /\ mem' = mem \o <<e>>
    BY <1>6, <1>7
  <2>2. /\ \A d \in CallIds : e # ToolResult(d, "done") =>
             Count(mem', ToolResult(d, "done")) = Count(mem, ToolResult(d, "done"))
        /\ \A d \in CallIds : e = ToolResult(d, "done") =>
             Count(mem', ToolResult(d, "done")) = Count(mem, ToolResult(d, "done")) + 1
        /\ \A d \in CallIds : Count(mem, ToolResult(d, "done")) \in Nat
        /\ ResolvedWithoutResult(mem') \subseteq ResolvedWithoutResult(mem)
    BY <1>3, <2>1, EventEffects
  <2>3. ASSUME NEW d \in CallIds
        PROVE  executed'[d] = Count(mem', ToolResult(d, "done"))
    <3>1. /\ executed'[d] = executed[d]
          /\ executed[d] = Count(mem, ToolResult(d, "done")) + (IF Executing(d) THEN 1 ELSE 0)
      BY <1>1, <2>1 DEF LoopCore, LogAccountsForExecutions
    <3>2. Executing(d) <=> e = ToolResult(d, "done")
      BY <1>1, <1>3, <1>5
    <3> QED
      BY <2>2, <3>1, <3>2
  <2>4. ResolvedWithoutResult(mem) \subseteq {c}
    BY <2>1 DEF LoopCore, ResolvedInv
  <2>5. c \notin Pending(mem')
    BY <1>3, <2>1, Numbers, EventPending
  <2> QED
    BY <2>2, <2>3, <2>4, <2>5 DEF ResolvedWithoutResult
<1>8. LogAccountsForExecutions' /\ ResolvedInv'
  <2>1. ASSUME Undisturbed', NEW d \in CallIds
        PROVE  executed'[d] = Count(mem', ToolResult(d, "done")) + 0
    <3>1. executed'[d] = Count(mem', ToolResult(d, "done")) /\ executed'[d] \in Nat
      BY <1>7, <2>1, NumbersNext
    <3> QED
      BY <3>1
  <2> QED
    BY <1>5, <1>7, <2>1 DEF LogAccountsForExecutions, ResolvedInv
<1> QED
  BY <1>6, <1>8 DEF LoopCore

(* The calls the loop holds, while it holds any. *)
LEMMA Held ==
  ASSUME LoopTypes, LoopCore, loop.pc \in Holding
  PROVE  /\ loop.queue \in Seq(CallIds) /\ loop.queue # <<>>
         /\ Head(loop.queue) = loop.queue[1] /\ 1 \in DOMAIN loop.queue
         /\ Head(loop.queue) \in Pending(mem) /\ Head(loop.queue) \in CallIds
         /\ Distinct(loop.queue)
         /\ \A i \in DOMAIN loop.queue : loop.queue[i] \in Pending(mem) /\ loop.queue[i] \in CallIds
<1>1. loop.queue \in Seq(CallIds) /\ loop.queue # <<>>
  BY Numbers DEF LoopTypes
<1>2. Head(loop.queue) = loop.queue[1] /\ 1 \in DOMAIN loop.queue /\ Head(loop.queue) \in CallIds
  BY <1>1, QueueParts
<1>3. Distinct(loop.queue) /\ \A i \in DOMAIN loop.queue : loop.queue[i] \in Pending(mem)
  BY DEF LoopCore, QueueInv
<1>4. \A i \in DOMAIN loop.queue : loop.queue[i] \in CallIds
  BY <1>3, Numbers, PendingIsCall
<1> QED
  BY <1>1, <1>2, <1>3, <1>4

(* The execution of the call at the head of the queue. *)
LEMMA ExecutionKeeps ==
  ASSUME LoopTypes, LoopCore, LoopTypes', RunTool \/ RunApprovedTool
  PROVE  LoopCore'
<1> DEFINE h == Head(loop.queue)
<1>1. /\ \/ loop.pc = "tools" /\ loop'.pc = "result"
         \/ loop.pc = "approved" /\ loop'.pc = "approved result"
      /\ loop'.queue = loop.queue
      /\ executed' = [executed EXCEPT ![h] = @ + 1]
      /\ mem' = mem /\ stored' = stored /\ latch' = latch /\ failures' = failures /\ outages' = outages
      /\ issued' = issued /\ crashes' = crashes
  <2>1. CASE RunTool
    <3>1. /\ loop.pc = "tools" /\ Goto("result") /\ executed' = [executed EXCEPT ![h] = @ + 1]
          /\ UNCHANGED logVars /\ issued' = issued /\ crashes' = crashes
      BY <2>1 DEF RunTool, At_
    <3>2. loop'.pc = "result" /\ loop'.queue = loop.queue
      BY <3>1, GotoNext
    <3>3. mem' = mem /\ stored' = stored /\ latch' = latch /\ failures' = failures /\ outages' = outages
      BY <3>1 DEF logVars
    <3> QED
      BY <3>1, <3>2, <3>3
  <2>2. CASE RunApprovedTool
    BY <2>2, GotoNext DEF RunApprovedTool, At_, logVars
  <2> QED
    BY <2>1, <2>2
<1>2. h \in CallIds /\ h \in Pending(mem)
  BY <1>1, Held DEF Holding, ApiPCs
<1>3. executed'[h] = executed[h] + 1 /\ \A c \in CallIds \ {h} : executed'[c] = executed[c]
  BY <1>1, <1>2, CallsRun
<1>4. \A c \in CallIds : ~Executing(c) /\ (Executing(c)' <=> c = h)
  BY <1>1 DEF Executing
<1>5. /\ failures + crashes \in Nat /\ \A c \in CallIds : executed[c] \in Nat
  BY Numbers
<1>6. LogInv' /\ StorageInv' /\ QueueInv' /\ PreparedInv'
  <2>1. LogInv' /\ StorageInv'
    BY <1>1 DEF LoopCore, LogInv, StorageInv
  <2>2. QueueInv'
    BY <1>1 DEF LoopCore, QueueInv, Holding, ApiPCs
  <2>3. PreparedInv'
    BY <1>1 DEF PreparedInv
  <2> QED
    BY <2>1, <2>2, <2>3
<1>7. h \notin Ids(mem, "tool_result") /\ h \in Ids(stored, "tool_use")
  <2>1. Ids(mem, "tool_use") \subseteq Ids(stored, "tool_use")
    BY MemInStored DEF LoopCore
  <2> QED
    BY <1>2, <2>1 DEF Pending
<1>8. ExecutionsInv'
  <2> DEFINE F == failures + crashes
  <2>1. \A c \in CallIds : /\ executed[c] <= F + 1
                           /\ c \notin Ids(mem, "tool_result") => executed[c] <= F
    BY <1>4 DEF LoopCore, ExecutionsInv
  <2>2. F \in Nat /\ failures' + crashes' = F
    BY <1>1, <1>5
  <2> HIDE DEF F
  <2>3. ASSUME NEW c \in CallIds
        PROVE  executed'[c] <= F + 1 /\ (c \notin Ids(mem', "tool_result") /\ ~Executing(c)' => executed'[c] <= F)
    <3>1. CASE c = h
      BY <1>2, <1>3, <1>4, <1>5, <1>7, <2>1, <2>2, <3>1
    <3>2. CASE c # h
      BY <1>1, <1>3, <2>1, <3>2
    <3> QED
      BY <3>1, <3>2
  <2> QED
    BY <2>2, <2>3 DEF ExecutionsInv
<1>9. LatchedInv'
  <2>1. CASE loop.pc = "approved"
    BY <1>1, <2>1 DEF LoopCore, LatchedInv
  <2>2. CASE loop.pc = "tools"
    <3> DEFINE F == failures + crashes
    <3>1. latch => \A i \in DOMAIN loop.queue : loop.queue[i] \in CallIds /\ executed[loop.queue[i]] + 1 <= F
      BY <1>4, <2>2, Held DEF LoopCore, LatchedInv, Holding
    <3>2. F \in Nat /\ failures' + crashes' = F
      BY <1>1, <1>5
    <3> HIDE DEF F
    <3>3. ASSUME NEW c \in CallIds, executed[c] + 1 <= F
          PROVE  executed'[c] <= F /\ (c # h => executed'[c] + 1 <= F)
      <4>1. executed[c] \in Nat
        BY <1>5
      <4>2. c # h => executed'[c] = executed[c]
        BY <1>3
      <4>3. c = h => executed'[c] = executed[c] + 1
        BY <1>3
      <4> QED
        BY <3>2, <3>3, <4>1, <4>2, <4>3
    <3>4. \A i \in DOMAIN loop.queue : Executing(loop.queue[i])' <=> loop.queue[i] = h
      BY <1>1, <2>2 DEF Executing
    <3>5. latch' => \A i \in DOMAIN loop.queue :
            executed'[loop.queue[i]] <= F /\ (loop.queue[i] # h => executed'[loop.queue[i]] + 1 <= F)
      BY <1>1, <3>1, <3>3
    <3> QED
      BY <1>1, <2>2, <3>2, <3>4, <3>5 DEF LatchedInv
  <2> QED
    BY <1>1, <2>1, <2>2
<1>10. ExecutedIsDurable'
  BY <1>1, <1>3, <1>7 DEF LoopCore, ExecutedIsDurable
<1>11. LogAccountsForExecutions'
  <2>1. ASSUME Undisturbed', NEW c \in CallIds
        PROVE  executed'[c] = Count(mem', ToolResult(c, "done")) + (IF Executing(c)' THEN 1 ELSE 0)
    <3>1. executed[c] = Count(mem, ToolResult(c, "done")) + (IF Executing(c) THEN 1 ELSE 0)
      BY <1>1, <2>1 DEF LoopCore, LogAccountsForExecutions, Undisturbed
    <3>2. Count(mem, ToolResult(c, "done")) \in Nat
      BY Numbers, CountAppended, LoopEventsMade
    <3> DEFINE n == Count(mem, ToolResult(c, "done"))
    <3>3. executed[c] = n /\ n \in Nat
      BY <1>4, <3>1, <3>2
    <3>4. Count(mem', ToolResult(c, "done")) = n
      BY <1>1
    <3>5. CASE c = h
      <4>1. Executing(c)' /\ executed'[c] = n + 1
        BY <1>3, <1>4, <3>3, <3>5
      <4> QED
        BY <3>4, <4>1
    <3>6. CASE c # h
      <4>1. ~Executing(c)' /\ executed'[c] = n
        BY <1>3, <1>4, <3>3, <3>6
      <4> QED
        BY <3>3, <3>4, <4>1
    <3> QED
      BY <3>5, <3>6
  <2> QED
    BY <2>1 DEF LogAccountsForExecutions
<1>12. ResolvedInv'
  BY <1>1 DEF LoopCore, ResolvedInv, Undisturbed, ApiPCs
<1> QED
  BY <1>6, <1>8, <1>9, <1>10, <1>11, <1>12 DEF LoopCore

(* What is left of the queue once its head is dealt with. *)
LEMMA TailHeld ==
  ASSUME LoopTypes, LoopCore, loop.pc \in Holding, Len(loop.queue) # 1
  PROVE  /\ Distinct(Tail(loop.queue))
         /\ \A i \in DOMAIN Tail(loop.queue) :
              /\ Tail(loop.queue)[i] \in Pending(mem) /\ Tail(loop.queue)[i] \in CallIds
              /\ Tail(loop.queue)[i] # Head(loop.queue)
              /\ \E j \in DOMAIN loop.queue : loop.queue[j] = Tail(loop.queue)[i]
<1> DEFINE q == loop.queue
<1>1. /\ q \in Seq(CallIds) /\ q # <<>> /\ Head(q) = q[1] /\ 1 \in DOMAIN q /\ Distinct(q)
      /\ \A i \in DOMAIN q : q[i] \in Pending(mem) /\ q[i] \in CallIds
  BY Held
<1>2. \A i \in DOMAIN Tail(q) : i + 1 \in DOMAIN q /\ Tail(q)[i] = q[i + 1]
  BY <1>1, QueueParts
<1>3. \A i \in DOMAIN Tail(q) : i \in Nat \ {0}
  <2>1. Tail(q) \in Seq(CallIds)
    BY <1>1, QueueParts
  <2> HIDE DEF q
  <2> QED
    BY <2>1, SeqShape
<1> HIDE DEF q
<1>4. \A i, j \in DOMAIN Tail(q) : Tail(q)[i] = Tail(q)[j] => i = j
  <2>1. ASSUME NEW i \in DOMAIN Tail(q), NEW j \in DOMAIN Tail(q), Tail(q)[i] = Tail(q)[j]
        PROVE  i = j
    <3>1. i + 1 \in DOMAIN q /\ j + 1 \in DOMAIN q /\ q[i + 1] = q[j + 1]
      BY <1>2, <2>1
    <3>2. i + 1 = j + 1
      BY <1>1, <3>1 DEF Distinct
    <3>3. i \in Nat /\ j \in Nat
      BY <1>3
    <3> QED
      BY <3>2, <3>3
  <2> QED
    BY <2>1
<1>5. ASSUME NEW i \in DOMAIN Tail(q)
      PROVE  Tail(q)[i] # Head(q)
  <2>1. i + 1 \in DOMAIN q /\ Tail(q)[i] = q[i + 1] /\ i \in Nat \ {0}
    BY <1>2, <1>3
  <2>2. i + 1 # 1
    BY <2>1
  <2>3. q[i + 1] # q[1]
    BY <1>1, <2>1, <2>2 DEF Distinct
  <2> QED
    BY <1>1, <2>1, <2>3
<1>6. Distinct(Tail(q))
  BY <1>4 DEF Distinct
<1> QED
  BY <1>1, <1>2, <1>5, <1>6 DEF q

LEMMA AskKeeps ==
  ASSUME LoopTypes, LoopCore, LoopTypes', AskApproval
  PROVE  LoopCore'
<1> DEFINE h == Head(loop.queue)
           e == ApprovalRequested(h)
<1>1. /\ loop.pc = "ask" /\ UNCHANGED <<issued, executed, crashes>> /\ Append_(<<e>>)
      /\ \/ \E reason : Return(reason)
         \/ /\ Len(loop.queue) > 1
            /\ loop' = [loop EXCEPT !.queue = Tail(@)]
  BY DEF AskApproval, NextRequest, At_, history
<1>2. h \in Pending(mem) /\ h \in CallIds
  BY <1>1, Held DEF Holding
<1>3. LegalEvent(mem, e) /\ e.type = "approval_requested" /\ \A c \in CallIds : e # ToolResult(c, "done")
  BY <1>2, AboutPending, EventsMade
<1>4. loop.pc \notin {"result"} \cup ApiPCs
  BY <1>1 DEF ApiPCs
<1>5. CASE \E reason : Return(reason)
  BY <1>1, <1>3, <1>4, <1>5, IdleNext, NothingPrepared, FreeHolds, EventStep
<1>6. CASE Len(loop.queue) > 1 /\ loop' = [loop EXCEPT !.queue = Tail(@)]
  <2>1. loop'.pc = "ask" /\ loop'.queue = Tail(loop.queue)
    BY <1>1, <1>6 DEF LoopTypes, TypeOK
  <2>2. Len(loop.queue) # 1
    <3> DEFINE n == Len(loop.queue)
    <3>1. n \in Nat /\ n > 1
      BY <1>6, Numbers, SeqShape
    <3> HIDE DEF n
    <3>2. n # 1
      BY <3>1
    <3> QED
      BY <3>2 DEF n
  <2>3. /\ Distinct(Tail(loop.queue))
        /\ \A i \in DOMAIN Tail(loop.queue) : Tail(loop.queue)[i] \in Pending(mem)
    BY <1>1, <2>2, TailHeld DEF Holding
  <2>4. Pending(mem) \subseteq Pending(mem')
    <3>1. mem' = mem \/ mem' = mem \o <<e>>
      BY <1>1, <1>3, OneGrown DEF LoopCore, LogInv, LogSound
    <3> QED
      BY <1>3, <3>1, EventEffects
  <2>5. QueueInv'
    BY <2>1, <2>3, <2>4 DEF QueueInv, Holding, ApiPCs
  <2>6. LatchedInv' /\ PreparedInv' /\ loop'.pc \notin {"result"} \cup ApiPCs
    BY <2>1 DEF LatchedInv, PreparedInv, ApiPCs
  <2> QED
    BY <1>1, <1>3, <1>4, <2>5, <2>6, EventStep
<1> QED
  BY <1>1, <1>5, <1>6

(* A call held when the write fails: its execution is covered. *)
LEMMA LatchCovers ==
  ASSUME LoopTypes, LoopCore, LoopTypes', loop.pc \in {"tools", "result"}, executed' = executed, crashes' = crashes,
         latch => failures' = failures, ~latch /\ latch' => failures' = failures + 1, latch',
         NEW i \in DOMAIN loop.queue, ~Executing(loop.queue[i])
  PROVE  executed'[loop.queue[i]] <= failures' + crashes' /\ executed'[loop.queue[i]] + 1 <= failures' + crashes'
<1> DEFINE c == loop.queue[i]
           F == failures + crashes
           G == failures' + crashes'
<1>1. c \in Pending(mem) /\ c \in CallIds
  BY Held DEF Holding
<1>2. executed'[c] = executed[c] /\ executed[c] \in Nat /\ F \in Nat
  BY <1>1, Numbers
<1>3. latch => G = F /\ executed[c] + 1 <= F
  BY DEF LoopCore, LatchedInv
<1>4. ~latch => G = F + 1 /\ executed[c] <= F
  <2>1. executed[c] <= F
    BY <1>1 DEF LoopCore, ExecutionsInv, Pending
  <2>2. ~latch => G = F + 1
    BY Numbers
  <2> QED
    BY <2>1, <2>2
<1> HIDE DEF F, G, c
<1>5. executed'[c] + 1 <= G
  BY <1>2, <1>3, <1>4, Numbers
<1>6. G \in Nat
  BY <1>2, <1>3, <1>4, Numbers
<1>7. executed'[c] <= G
  BY <1>2, <1>5, <1>6
<1> QED
  BY <1>5, <1>7 DEF c, G

(* A result is appended, or lost to the storage, and the next call is up. *)
LEMMA ResultKeeps ==
  ASSUME LoopTypes, LoopCore, LoopTypes', AppendToolResult \/ RejectTool
  PROVE  LoopCore'
<1> DEFINE h == Head(loop.queue)
           kind == IF loop.pc = "result" THEN "done" ELSE "rejected"
           e == ToolResult(h, kind)
<1>1. /\ loop.pc \in {"tools", "result"} /\ UNCHANGED <<issued, executed, crashes>> /\ Append_(<<e>>)
      /\ NextCall
  BY DEF AppendToolResult, RejectTool, At_, history
<1>2. /\ loop'.pc = IF Len(loop.queue) = 1 THEN "dispatched" ELSE "tools"
      /\ loop'.queue = Tail(loop.queue)
  BY <1>1 DEF NextCall, LoopTypes, TypeOK
<1>3. h \in Pending(mem) /\ h \in CallIds
  BY <1>1, Held DEF Holding
<1>4. /\ LegalEvent(mem, e) /\ e.type = "tool_result" /\ e.id = h
      /\ kind = "rejected" => \A c \in CallIds : e # ToolResult(c, "done")
      /\ \A c \in CallIds \ {h} : e # ToolResult(c, "done")
  BY <1>3, AboutPending, ResultEvent DEF ResultKinds
<1>5. /\ mem' = mem \/ mem' = mem \o <<e>>
      /\ latch => latch' /\ mem' = mem /\ failures' = failures
      /\ ~latch /\ latch' => failures' = failures + 1
  BY <1>1, <1>4, OneGrown DEF LoopCore, LogInv, LogSound
<1>6. /\ Pending(mem) \subseteq Pending(mem') \cup {h}
      /\ \A c \in CallIds : OpenApproval(mem', c) => OpenApproval(mem, c)
  BY <1>4, <1>5, EventEffects
<1>7. \A c \in CallIds : (Executing(c) <=> c = h /\ loop.pc = "result") /\ ~Executing(c)'
  BY <1>1, <1>2 DEF Executing
<1>8. QueueInv' /\ LatchedInv'
  <2>1. CASE Len(loop.queue) = 1
    <3>1. loop'.pc \in FreePCs
      BY <1>2, <2>1 DEF FreePCs, PCs, Holding, ApiPCs
    <3> QED
      BY <3>1, FreeHolds
  <2>2. CASE Len(loop.queue) # 1
    <3>1. loop'.pc = "tools"
      BY <1>2, <2>2
    <3>2. /\ Distinct(loop'.queue)
          /\ \A i \in DOMAIN loop'.queue :
               /\ loop'.queue[i] \in Pending(mem) /\ loop'.queue[i] \in CallIds
               /\ loop'.queue[i] # h
               /\ \E j \in DOMAIN loop.queue : loop.queue[j] = loop'.queue[i]
      BY <1>1, <1>2, <2>2, TailHeld DEF Holding
    <3>3. \A i \in DOMAIN loop.queue : ~OpenApproval(mem, loop.queue[i])
      BY <1>1 DEF LoopCore, QueueInv
    <3>4. \A i \in DOMAIN loop'.queue : loop'.queue[i] \in Pending(mem') /\ ~OpenApproval(mem', loop'.queue[i])
      BY <1>6, <3>2, <3>3
    <3>5. QueueInv'
      BY <3>1, <3>2, <3>4 DEF QueueInv, Holding, ApiPCs
    <3>6. ASSUME latch', NEW i \in DOMAIN loop'.queue
          PROVE  /\ executed'[loop'.queue[i]] <= failures' + crashes'
                 /\ executed'[loop'.queue[i]] + 1 <= failures' + crashes'
      <4>1. PICK j \in DOMAIN loop.queue : loop.queue[j] = loop'.queue[i]
        BY <3>2
      <4>2. ~Executing(loop.queue[j])
        BY <1>7, <3>2, <4>1
      <4>3. executed' = executed /\ crashes' = crashes
        BY <1>1
      <4>4. /\ executed'[loop.queue[j]] <= failures' + crashes'
            /\ executed'[loop.queue[j]] + 1 <= failures' + crashes'
        BY <1>1, <1>5, <3>6, <4>2, <4>3, LatchCovers
      <4> QED
        BY <4>1, <4>4
    <3>7. LatchedInv'
      BY <3>1, <3>6 DEF LatchedInv
    <3> QED
      BY <3>5, <3>7
  <2> QED
    BY <2>1, <2>2
<1>9. PreparedInv' /\ loop'.pc \notin ApiPCs
  BY <1>2 DEF PreparedInv, ApiPCs
<1>10. /\ LogInv' /\ StorageInv' /\ QueueInv' /\ PreparedInv' /\ LatchedInv'
       /\ ExecutionsInv' /\ ExecutedIsDurable'
       /\ Undisturbed' => Undisturbed /\ mem' = mem \o <<e>>
  BY <1>1, <1>4, <1>7, <1>8, <1>9, EventFrame
<1>11. LogAccountsForExecutions'
  <2>1. ASSUME Undisturbed', NEW c \in CallIds
        PROVE  executed'[c] = Count(mem', ToolResult(c, "done")) + 0
    <3> DEFINE n == Count(mem, ToolResult(c, "done"))
    <3>1. /\ executed'[c] = executed[c]
          /\ executed[c] = n + (IF Executing(c) THEN 1 ELSE 0)
      BY <1>1, <1>10, <2>1 DEF LoopCore, LogAccountsForExecutions
    <3>2. Executing(c) <=> e = ToolResult(c, "done")
      BY <1>1, <1>4, <1>7
    <3>3. /\ n \in Nat
          /\ Count(mem', ToolResult(c, "done")) = IF e = ToolResult(c, "done") THEN n + 1 ELSE n
      BY <1>4, <1>10, <2>1, EventEffects
    <3> HIDE DEF n, e
    <3> QED
      BY <3>1, <3>2, <3>3
  <2> QED
    BY <1>7, <2>1 DEF LogAccountsForExecutions
<1>12. ResolvedInv'
  <2>1. Undisturbed => ResolvedWithoutResult(mem) = {}
    BY <1>1 DEF LoopCore, ResolvedInv, ApiPCs
  <2>2. ResolvedWithoutResult(mem') \subseteq ResolvedWithoutResult(mem)
    BY <1>4, <1>5, EventEffects
  <2> QED
    BY <1>10, <2>1, <2>2 DEF ResolvedInv
<1> QED
  BY <1>10, <1>11, <1>12 DEF LoopCore

LEMMA GuardKeeps ==
  ASSUME LoopTypes, LoopCore, LoopTypes', GuardTrips
  PROVE  LoopCore'
<1> DEFINE e == RuntimeError
<1>1. /\ loop.pc \in {"turn", "dispatched", "tools"} /\ UNCHANGED <<issued, executed, crashes>> /\ Append_(<<e>>)
      /\ loop' = IF loop.pc = "turn" THEN [loop EXCEPT !.pc = "prepare"] ELSE [loop EXCEPT !.ran = FALSE]
  BY DEF GuardTrips, AfterATool, At_, history
<1>2. /\ loop'.pc = IF loop.pc = "turn" THEN "prepare" ELSE loop.pc
      /\ loop'.queue = loop.queue
  BY <1>1 DEF LoopTypes, TypeOK
<1>3. loop.pc \notin {"result"} \cup ApiPCs /\ loop'.pc \notin {"result"} \cup ApiPCs /\ PreparedInv'
  <2>1. loop'.pc \in {"prepare", "dispatched", "tools"}
    BY <1>1, <1>2
  <2> QED
    BY <1>1, <2>1 DEF ApiPCs, PreparedInv
<1>4. CASE loop.pc \in {"turn", "dispatched"}
  <2>1. loop'.pc \in FreePCs
    BY <1>2, <1>4 DEF FreePCs, PCs, Holding, ApiPCs
  <2> QED
    BY <1>1, <1>3, <2>1, PlainStep, PlainEventsMade
<1>5. CASE loop.pc = "tools"
  <2>1. LegalEvent(mem, e) /\ e.type \notin AboutCalls /\ \A c \in CallIds : e # ToolResult(c, "done")
    BY PlainIsLegal, PlainEventsMade
  <2>2. /\ mem' = mem \/ mem' = mem \o <<e>>
        /\ latch => latch' /\ mem' = mem /\ failures' = failures
        /\ ~latch /\ latch' => failures' = failures + 1
    BY <1>1, <2>1, OneGrown DEF LoopCore, LogInv, LogSound
  <2>3. /\ Pending(mem) \subseteq Pending(mem')
        /\ \A c \in CallIds : OpenApproval(mem', c) => OpenApproval(mem, c)
    BY <2>1, <2>2, EventEffects DEF AboutCalls
  <2>4. /\ Distinct(loop.queue)
        /\ \A i \in DOMAIN loop.queue : /\ loop.queue[i] \in Pending(mem) /\ loop.queue[i] \in CallIds
                                        /\ ~OpenApproval(mem, loop.queue[i])
    BY <1>5, Held DEF LoopCore, QueueInv, Holding
  <2>5. QueueInv'
    BY <1>2, <1>5, <2>3, <2>4 DEF QueueInv, Holding, ApiPCs
  <2>6. \A c \in CallIds : ~Executing(c)
    BY <1>5 DEF Executing
  <2>7. ASSUME latch', NEW i \in DOMAIN loop.queue
        PROVE  /\ executed'[loop.queue[i]] <= failures' + crashes'
               /\ executed'[loop.queue[i]] + 1 <= failures' + crashes'
    <3>1. executed' = executed /\ crashes' = crashes /\ ~Executing(loop.queue[i])
      BY <1>1, <2>4, <2>6
    <3> QED
      BY <1>5, <2>2, <2>7, <3>1, LatchCovers
  <2>8. LatchedInv'
    BY <1>2, <1>5, <2>7 DEF LatchedInv
  <2> QED
    BY <1>1, <1>3, <2>1, <2>5, <2>8, EventStep DEF AboutCalls
<1> QED
  BY <1>1, <1>4, <1>5

(* The answer of the provider goes to a log whose calls all have results. *)
LEMMA AnswerLegal ==
  ASSUME LoopTypes, LoopCore, ProviderAnswers
  PROVE  \E stop \in StopReasons, calls \in Seq(CallIds) :
           /\ LegalStep(mem, stop, calls)
           /\ issued' = issued \cup {calls[i] : i \in DOMAIN calls}
           /\ Append_(Staged(stop, calls))
           /\ IF latch' THEN Return("storage_error")
              ELSE IF stop = "tool_use"
              THEN loop' = [loop EXCEPT !.pc = "dispatch", !.from = "turn"] /\ UNCHANGED outcome
              ELSE Return(IF calls = <<>> THEN "end_turn" ELSE "incomplete_tool_batch")
           /\ UNCHANGED <<executed, runs, crashes>>
<1>1. loop.pc = "calling"
  BY DEF ProviderAnswers, At_
<1>2. PICK stop \in StopReasons, calls \in Seq(CallIds) :
        /\ Distinct(calls) /\ (UniqueIds => \A i \in DOMAIN calls : calls[i] \notin issued)
        /\ issued' = issued \cup {calls[i] : i \in DOMAIN calls}
        /\ Append_(Staged(stop, calls))
        /\ IF latch' THEN Return("storage_error")
           ELSE IF stop = "tool_use"
           THEN loop' = [loop EXCEPT !.pc = "dispatch", !.from = "turn"] /\ UNCHANGED outcome
           ELSE Return(IF calls = <<>> THEN "end_turn" ELSE "incomplete_tool_batch")
        /\ UNCHANGED <<executed, runs, crashes>>
  BY Answered
<1>3. LogSound /\ SoundLog(mem) /\ Ids(stored, "tool_use") \subseteq issued
  BY DEF LoopCore, LogInv, LogSound
<1>4. LegalStep(mem, stop, calls)
  <2>1. ProviderReady(mem) /\ mem \in Seq(LoopEvents)
    BY <1>1, Numbers DEF LoopCore, PreparedInv
  <2>2. Pending(mem) = {}
    BY <2>1, ReadyMeans
  <2>3. Ids(mem, "tool_use") \subseteq issued
    BY <1>3, MemInStored DEF LoopCore
  <2> QED
    BY <1>2, <2>2, <2>3 DEF LegalStep
<1> QED
  BY <1>2, <1>4

LEMMA AnswerKeeps ==
  ASSUME LoopTypes, LoopCore, LoopTypes', ProviderAnswers
  PROVE  LoopCore'
<1>1. loop.pc = "calling"
  BY DEF ProviderAnswers, At_
<1>2. PICK stop \in StopReasons, calls \in Seq(CallIds) :
        /\ LegalStep(mem, stop, calls)
        /\ issued' = issued \cup {calls[i] : i \in DOMAIN calls}
        /\ Append_(Staged(stop, calls))
        /\ IF latch' THEN Return("storage_error")
           ELSE IF stop = "tool_use"
           THEN loop' = [loop EXCEPT !.pc = "dispatch", !.from = "turn"] /\ UNCHANGED outcome
           ELSE Return(IF calls = <<>> THEN "end_turn" ELSE "incomplete_tool_batch")
        /\ UNCHANGED <<executed, runs, crashes>>
  BY AnswerLegal
<1>3. LogSound /\ SoundLog(mem) /\ Ids(stored, "tool_use") \subseteq issued
  BY DEF LoopCore, LogInv, LogSound
<1>4. LegalStep(mem, stop, calls)
  BY <1>2
<1>5. /\ Grown /\ LogSound'
      /\ Ids(stored', "tool_use") \subseteq Ids(stored, "tool_use") \cup {calls[i] : i \in DOMAIN calls}
      /\ mem' = mem \/ mem' = mem \o Staged(stop, calls)
  BY <1>2, <1>3, <1>4, StepGrown
<1>6. /\ \A c \in Pending(mem') : ~OpenApproval(mem', c)
      /\ \A c \in CallIds : Count(mem', ToolResult(c, "done")) = Count(mem, ToolResult(c, "done"))
      /\ ResolvedWithoutResult(mem') = {}
  BY <1>3, <1>4, <1>5, StepEffects
<1>7. executed' = executed /\ CrashesCounted /\ Ids(stored', "tool_use") \subseteq issued'
  BY <1>2, <1>3, <1>5 DEF CrashesCounted
<1>8. /\ loop'.pc \in FreePCs \/ (loop'.pc = "dispatch" /\ ~latch')
      /\ NotPrepared'
  <2>1. \/ \E reason : Return(reason)
        \/ ~latch' /\ loop' = [loop EXCEPT !.pc = "dispatch", !.from = "turn"]
    BY <1>2
  <2>2. CASE \E reason : Return(reason)
    BY <2>2, IdleNext
  <2>3. CASE ~latch' /\ loop' = [loop EXCEPT !.pc = "dispatch", !.from = "turn"]
    <3>1. loop'.pc = "dispatch"
      BY <2>3 DEF LoopTypes, TypeOK
    <3> QED
      BY <2>3, <3>1 DEF NotPrepared
  <2> QED
    BY <2>1, <2>2, <2>3
<1>9. QueueInv' /\ LatchedInv' /\ loop'.pc \notin {"result"} \cup ApiPCs
  <2>1. CASE loop'.pc \in FreePCs
    BY <2>1, FreeHolds
  <2>2. CASE loop'.pc = "dispatch" /\ ~latch'
    <3>1. QueueInv'
      BY <1>6, <2>2 DEF QueueInv, Holding, ApiPCs
    <3>2. LatchedInv'
      BY <2>2 DEF LatchedInv
    <3> QED
      BY <2>2, <3>1, <3>2 DEF ApiPCs
  <2> QED
    BY <1>8, <2>1, <2>2
<1>10. loop.pc \notin {"result"} \cup ApiPCs /\ \A c \in CallIds : ~Executing(c)
  BY <1>1 DEF ApiPCs, Executing
<1>11. /\ LogInv' /\ StorageInv' /\ QueueInv' /\ PreparedInv' /\ LatchedInv'
       /\ ExecutionsInv' /\ ExecutedIsDurable'
  BY <1>5, <1>7, <1>8, <1>9, <1>10, NothingPrepared, Frame
<1>12. LogAccountsForExecutions' /\ ResolvedInv'
  BY <1>5, <1>6, <1>7, <1>9, <1>10, Histories
<1> QED
  BY <1>11, <1>12 DEF LoopCore

(* The host forgives the latch, or starts again from the stored rows; so    *)
(* does whoever finds the process dead.                                    *)
LEMMA AgainKeeps ==
  ASSUME LoopTypes, LoopCore, LoopTypes', ClearStorageErr \/ ReloadSession \/ Crash
  PROVE  LoopCore'
<1>1. LogSound /\ Ids(stored, "tool_use") \subseteq issued
  BY DEF LoopCore, LogInv, LogSound
<1>2. Grown /\ LogSound' /\ stored' = stored
  <2>1. CASE ClearStorageErr
    <3>1. UNCHANGED <<mem, stored, failures, outages>> /\ latch' = FALSE
      BY <2>1 DEF ClearStorageErr
    <3> QED
      BY <1>1, <3>1, UnchangedGrown
  <2>2. CASE ReloadSession \/ Crash
    BY <1>1, <2>2, ReloadGrown DEF ReloadSession, Crash
  <2> QED
    BY <2>1, <2>2
<1>3. issued' = issued /\ executed' = executed /\ CrashesCounted
  BY DEF ClearStorageErr, ReloadSession, Crash, history, CrashesCounted
<1>4. loop'.pc = "idle" /\ loop'.pc \in FreePCs /\ NotPrepared'
  <2>1. CASE Crash
    BY <2>1, IdleNext DEF Crash, Return, IdleLoop
  <2>2. CASE ClearStorageErr \/ ReloadSession
    <3>1. loop' = loop /\ loop.pc = "idle"
      BY <2>2 DEF ClearStorageErr, ReloadSession, At_
    <3>2. loop'.pc = "idle"
      BY <3>1
    <3> QED
      BY <3>2 DEF FreePCs, PCs, Holding, ApiPCs, NotPrepared
  <2> QED
    BY <2>1, <2>2
<1>5. \/ loop.pc = "idle" /\ latch /\ failures' = failures
      \/ crashes' = crashes + 1
  BY DEF ClearStorageErr, ReloadSession, Crash, At_, Reload
<1>6. ~Undisturbed'
  <2>1. CASE loop.pc = "idle" /\ latch /\ failures' = failures
    <3>1. failures # 0
      BY <2>1 DEF LoopCore, StorageInv
    <3> QED
      BY <2>1, <3>1 DEF Undisturbed
  <2>2. CASE crashes' = crashes + 1
    <3>1. crashes \in Nat
      BY Numbers
    <3>2. crashes' # 0
      BY <2>2, <3>1
    <3> QED
      BY <3>2 DEF Undisturbed
  <2> QED
    BY <1>5, <2>1, <2>2
<1>7. \A c \in CallIds : Executing(c) => FailureCounted
  <2>1. CASE loop.pc = "idle"
    BY <2>1 DEF Executing
  <2>2. CASE crashes' = crashes + 1
    BY <1>2, <1>3, <2>2, FaultsGrow DEF Grown
  <2> QED
    BY <1>5, <2>1, <2>2
<1>8. /\ LogInv' /\ StorageInv' /\ QueueInv' /\ PreparedInv' /\ LatchedInv'
      /\ ExecutionsInv' /\ ExecutedIsDurable'
  <2>1. QueueInv' /\ LatchedInv' /\ PreparedInv'
    BY <1>4, FreeHolds, NothingPrepared
  <2>2. Ids(stored', "tool_use") \subseteq issued'
    BY <1>1, <1>2, <1>3
  <2> QED
    BY <1>2, <1>3, <1>7, <2>1, <2>2, Frame
<1>9. LogAccountsForExecutions' /\ ResolvedInv'
  BY <1>6 DEF LogAccountsForExecutions, ResolvedInv
<1> QED
  BY <1>8, <1>9 DEF LoopCore

-----------------------------------------------------------------------------
(* What the calls return. *)
LEMMA StillRunning ==
  ASSUME outcome' = ""
  PROVE  OutcomeInv'
BY DEF OutcomeInv, OutcomeIsTrue, Promises

LEMMA PromisesNothing ==
  ASSUME NEW reason, Return(reason), reason \notin Promises
  PROVE  OutcomeInv'
<1>1. loop'.pc = "idle" /\ outcome' = reason
  BY DEF Return, IdleLoop
<1> QED
  BY <1>1 DEF OutcomeInv, OutcomeIsTrue, Promises

LEMMA RunningSays ==
  ASSUME OutcomeInv, loop.pc # "idle"
  PROVE  outcome = ""
BY DEF OutcomeInv

LEMMA EntryTrue ==
  ASSUME LoopTypes, OutcomeInv, RunEntry
  PROVE  OutcomeInv'
<1>1. loop.pc = "entry" /\ outcome = "" /\ mem' = mem /\ latch' = latch
  BY RunningSays DEF RunEntry, At_, logVars
<1>2. \/ latch /\ Return("storage_error")
      \/ outcome' = outcome
      \/ ~latch /\ EntryOutcome(mem) \notin {"proceed", "dispatch"} /\ Return(EntryOutcome(mem))
  BY DEF RunEntry
<1>3. CASE ~latch /\ EntryOutcome(mem) \notin {"proceed", "dispatch"} /\ Return(EntryOutcome(mem))
  <2>1. /\ EntryOutcome(mem) \in {"integrity_error", "runtime_failed", "awaiting_approval"}
        /\ EntryOutcome(mem) = "awaiting_approval" => Awaiting(mem) # {}
    BY <1>3 DEF EntryOutcome
  <2>2. loop'.pc = "idle" /\ outcome' = EntryOutcome(mem)
    BY <1>3 DEF Return, IdleLoop
  <2> QED
    BY <1>1, <1>3, <2>1, <2>2 DEF OutcomeInv, OutcomeIsTrue, Promises
<1> QED
  BY <1>1, <1>2, <1>3, StillRunning, PromisesNothing DEF Promises

LEMMA DispatchTrue ==
  ASSUME LoopTypes, OutcomeInv, AfterDispatch
  PROVE  OutcomeInv'
<1>1. loop.pc = "dispatched" /\ outcome = "" /\ mem' = mem /\ latch' = latch
  BY RunningSays DEF AfterDispatch, At_, logVars
<1>2. \/ \E reason : Return(reason) /\ reason \notin Promises
      \/ outcome' = outcome
      \/ ~latch /\ Pending(mem) = {} /\ Return("max_turns_reached")
  BY DEF AfterDispatch, Promises
<1>3. CASE ~latch /\ Pending(mem) = {} /\ Return("max_turns_reached")
  <2>1. loop'.pc = "idle" /\ outcome' = "max_turns_reached"
    BY <1>3 DEF Return, IdleLoop
  <2> QED
    BY <1>1, <1>3, <2>1 DEF OutcomeInv, OutcomeIsTrue
<1> QED
  BY <1>1, <1>2, <1>3, StillRunning, PromisesNothing

(* The request that ends the Run is in the log, and nothing answers it yet. *)
LEMMA AskTrue ==
  ASSUME LoopTypes, OutcomeInv, LoopCore, AskApproval
  PROVE  OutcomeInv'
<1> DEFINE h == Head(loop.queue)
           e == ApprovalRequested(h)
<1>1. /\ loop.pc = "ask" /\ outcome = "" /\ Append_(<<e>>)
      /\ \/ outcome' = outcome
         \/ latch' /\ Return("storage_error")
         \/ ~latch' /\ Return("awaiting_approval")
  BY RunningSays DEF AskApproval, NextRequest, At_
<1>2. CASE ~latch' /\ Return("awaiting_approval")
  <2>1. h \in Pending(mem) /\ h \in CallIds
    BY <1>1, Held DEF Holding
  <2>2. LegalEvent(mem, e) /\ e.type = "approval_requested"
    BY <2>1, AboutPending, EventsMade
  <2>3. mem' = mem \o <<e>>
    BY <1>1, <1>2, <2>2, OneGrown DEF LoopCore, LogInv, LogSound
  <2>4. h \in Pending(mem')
    BY <2>1, <2>2, <2>3, EventEffects
  <2>5. OpenApproval(mem', h)
    BY <2>1, <2>3, Numbers, RequestOpens
  <2>6. mem' \in Seq(LoopEvents)
    BY <2>2, <2>3, Numbers, EventIds DEF LegalEvent
  <2>7. Awaiting(mem') # {}
    BY <2>4, <2>5, <2>6, OpenIsAwaiting
  <2>8. loop'.pc = "idle" /\ outcome' = "awaiting_approval"
    BY <1>2 DEF Return, IdleLoop
  <2> QED
    BY <1>2, <2>7, <2>8 DEF OutcomeInv, OutcomeIsTrue
<1> QED
  BY <1>1, <1>2, StillRunning, PromisesNothing DEF Promises

LEMMA AnswerTrue ==
  ASSUME LoopTypes, OutcomeInv, LoopCore, ProviderAnswers
  PROVE  OutcomeInv'
<1>1. loop.pc = "calling" /\ outcome = ""
  BY RunningSays DEF ProviderAnswers, At_
<1>2. PICK stop \in StopReasons, calls \in Seq(CallIds) :
        /\ LegalStep(mem, stop, calls)
        /\ Append_(Staged(stop, calls))
        /\ IF latch' THEN Return("storage_error")
           ELSE IF stop = "tool_use"
           THEN loop' = [loop EXCEPT !.pc = "dispatch", !.from = "turn"] /\ UNCHANGED outcome
           ELSE Return(IF calls = <<>> THEN "end_turn" ELSE "incomplete_tool_batch")
  BY AnswerLegal
<1>3. CASE ~latch' /\ stop # "tool_use"
  <2>1. LogSound /\ SoundLog(mem)
    BY DEF LoopCore, LogInv, LogSound
  <2>2. mem' = mem \o Staged(stop, calls)
    BY <1>2, <1>3, <2>1, StepGrown
  <2>3. Pending(mem') = {}
    BY <1>2, <1>3, <2>1, <2>2, StepEffects
  <2>4. PICK reason \in {"end_turn", "incomplete_tool_batch"} : Return(reason)
    BY <1>2, <1>3
  <2>5. loop'.pc = "idle" /\ outcome' \in {"end_turn", "incomplete_tool_batch"}
    BY <2>4 DEF Return, IdleLoop
  <2> QED
    BY <1>3, <2>3, <2>5 DEF OutcomeInv, OutcomeIsTrue
<1>4. CASE latch'
  <2>1. Return("storage_error")
    BY <1>2, <1>4
  <2> QED
    BY <2>1, PromisesNothing DEF Promises
<1>5. CASE ~latch' /\ stop = "tool_use"
  <2>1. outcome' = ""
    BY <1>1, <1>2, <1>5
  <2> QED
    BY <2>1, StillRunning
<1> QED
  BY <1>3, <1>4, <1>5

LEMMA OutcomeStep ==
  ASSUME LoopTypes, OutcomeInv, LoopCore, Next
  PROVE  OutcomeInv'
<1>1. CASE Chat \/ Resume \/ \E c \in CallIds : ApproveToolUse(c) \/ DenyToolUse(c)
  <2>1. outcome' = "" \/ Return("storage_error")
    BY <1>1 DEF Chat, Resume, StartRun, ApproveToolUse, DenyToolUse
  <2> QED
    BY <2>1, StillRunning, PromisesNothing DEF Promises
<1>2. CASE ClearStorageErr \/ ReloadSession
  <2>1. latch /\ outcome' = outcome
    BY <1>2 DEF ClearStorageErr, ReloadSession
  <2>2. outcome' \notin Promises
    BY <2>1 DEF OutcomeInv
  <2>3. loop.pc = "idle" /\ loop' = loop
    BY <1>2 DEF ClearStorageErr, ReloadSession, At_
  <2>4. loop'.pc = "idle"
    BY <2>3
  <2> QED
    BY <2>2, <2>4 DEF OutcomeInv, OutcomeIsTrue, Promises
<1>3. CASE Crash \/ AppendApprovedResult \/ AppendDeniedResult \/ NoPendingTools \/ HookFailsTurn
           \/ ProviderAnswersMalformed
  <2> DEFINE Silent == {"crashed", "storage_error", "resolved", "no_pending_tools", "runtime_failed",
                        "response_error"}
  <2>1. CASE Crash \/ NoPendingTools \/ HookFailsTurn
    <3>1. \E reason \in Silent : Return(reason)
      BY <2>1 DEF Crash, NoPendingTools, HookFailsTurn
    <3> QED
      BY <3>1, PromisesNothing DEF Promises
  <2>2. CASE AppendApprovedResult \/ AppendDeniedResult \/ ProviderAnswersMalformed
    <3>1. \/ Return(IF latch' THEN "storage_error" ELSE "resolved")
          \/ Return(IF latch THEN "storage_error" ELSE "response_error")
      BY <2>2 DEF AppendApprovedResult, AppendDeniedResult, ProviderAnswersMalformed
    <3>2. /\ (IF latch' THEN "storage_error" ELSE "resolved") \notin Promises
          /\ (IF latch THEN "storage_error" ELSE "response_error") \notin Promises
      BY DEF Promises
    <3> QED
      BY <3>1, <3>2, PromisesNothing
  <2> QED
    BY <1>3, <2>1, <2>2
<1>4. CASE RunApprovedTool \/ DecideTools \/ RunTool \/ AppendToolResult \/ RejectTool \/ GuardTrips \/ HookAppends
  <2>1. outcome' = outcome
    BY <1>4 DEF RunApprovedTool, DecideTools, RunTool, AppendToolResult, RejectTool, GuardTrips, HookAppends, Goto
  <2>2. loop.pc # "idle"
    BY <1>4 DEF RunApprovedTool, DecideTools, RunTool, AppendToolResult, RejectTool, GuardTrips, HookAppends,
                At_, AfterATool
  <2> QED
    BY <2>1, <2>2, RunningSays, StillRunning
<1>5. CASE Prepare \/ CallProvider \/ \E retryable \in BOOLEAN : ProviderFails(retryable)
  <2>1. \/ outcome' = outcome \/ Return("runtime_failed") \/ Return("integrity_error")
        \/ Return("storage_error") \/ Return("provider_failed")
    BY <1>5 DEF Prepare, CallProvider, ProviderFails, Goto
  <2>2. loop.pc # "idle"
    BY <1>5 DEF Prepare, CallProvider, ProviderFails, At_
  <2> QED
    BY <2>1, <2>2, RunningSays, StillRunning, PromisesNothing DEF Promises
<1>6. CASE RunEntry \/ AfterDispatch \/ AskApproval \/ ProviderAnswers
  BY <1>6, EntryTrue, DispatchTrue, AskTrue, AnswerTrue
<1> QED
  BY <1>1, <1>2, <1>3, <1>4, <1>5, <1>6 DEF Next, Host, Running

LEMMA CoreStep ==
  ASSUME LoopTypes, LoopCore, LoopTypes', Next
  PROVE  LoopCore'
<1>1. CASE Host
  BY <1>1, StartKeeps, ResolveKeeps, AgainKeeps DEF Host
<1>2. CASE Running
  BY <1>2, ExecutionKeeps, ResultOfApproval, EntryKeeps, DecideKeeps, DispatchKeeps, AskKeeps, ResultKeeps,
     GuardKeeps, HookFailsKeeps, HookAppendsKeeps, PrepareKeeps, CallKeeps, ProviderFailsKeeps, AnswerKeeps
     DEF Running
<1>3. CASE Crash
  BY <1>3, AgainKeeps
<1> QED
  BY <1>1, <1>2, <1>3 DEF Next

LEMMA Zero == 0 + 0 = 0
OBVIOUS

LEMMA LoopInit ==
  ASSUME Init
  PROVE  LoopInv
<1>1. LoopTypes
  BY TypesInit
<1>2. /\ mem = <<>> /\ stored = <<>> /\ latch = FALSE /\ loop.pc = "idle" /\ outcome = "" /\ issued = {}
      /\ failures = 0 /\ crashes = 0 /\ \A c \in CallIds : executed[c] = 0
  BY DEF Init, IdleLoop
<1>3. Len(mem) = 0 /\ Len(stored) = 0 /\ DOMAIN mem = {} /\ DOMAIN stored = {} /\ stored = mem
  <2>1. Len(<<>>) = 0 /\ DOMAIN <<>> = {}
    OBVIOUS
  <2> QED
    BY <1>2, <2>1
<1>4. \A type : Ids(mem, type) = {} /\ Ids(stored, type) = {}
  BY <1>3, IdsMembers
<1>5. Pending(mem) = {} /\ Pending(stored) = {} /\ ResolvedWithoutResult(mem) = {}
  BY <1>4 DEF Pending, ResolvedWithoutResult
<1>6. SoundLog(mem) /\ SoundLog(stored)
  <2>1. ApprovalsOfCalls(mem) /\ ApprovalsOfCalls(stored)
    BY <1>4 DEF ApprovalsOfCalls
  <2>2. Paired(mem) /\ Paired(stored)
    BY <1>3 DEF Paired
  <2> QED
    BY <1>5, <2>1, <2>2 DEF SoundLog
<1>7. LogInv /\ StorageInv
  <2>1. LogInv
    BY <1>4, <1>6 DEF LogInv
  <2>2. ~latch
    BY <1>2
  <2> QED
    BY <1>3, <2>1, <2>2 DEF StorageInv
<1>8. QueueInv /\ PreparedInv /\ LatchedInv /\ OutcomeInv /\ \A c \in CallIds : ~Executing(c)
  <2>1. QueueInv /\ PreparedInv /\ LatchedInv
    BY <1>2 DEF QueueInv, PreparedInv, LatchedInv, Holding, ApiPCs
  <2>2. OutcomeInv
    BY <1>2 DEF OutcomeInv, OutcomeIsTrue, Promises
  <2> QED
    BY <1>2, <2>1, <2>2 DEF Executing
<1>9. ExecutionsInv /\ ExecutedIsDurable
  <2>1. failures + crashes = 0 /\ failures + crashes + 1 = 1
    <3>1. failures = 0 /\ crashes = 0
      BY <1>2
    <3> QED
      BY <3>1
  <2>2. \A c \in CallIds : executed[c] = 0
    BY <1>2
  <2> QED
    BY <2>1, <2>2 DEF ExecutionsInv, ExecutedIsDurable
<1>10. LogAccountsForExecutions
  <2>1. \A c \in CallIds : Count(mem, ToolResult(c, "done")) = 0
    BY <1>3, FS_EmptySet DEF Count
  <2> QED
    BY <1>2, <1>8, <2>1, Zero DEF LogAccountsForExecutions
<1>11. ResolvedInv
  BY <1>5 DEF ResolvedInv
<1> QED
  BY <1>1, <1>7, <1>8, <1>9, <1>10, <1>11 DEF LoopInv, LoopCore

LEMMA LoopStep ==
  ASSUME LoopInv, [Next]_vars
  PROVE  LoopInv'
<1>1. LoopTypes /\ OutcomeInv /\ LoopCore
  BY DEF LoopInv
<1>2. LoopTypes'
  BY <1>1, TypesStep
<1>3. CASE Next
  BY <1>1, <1>2, <1>3, OutcomeStep, CoreStep DEF LoopInv
<1>4. CASE UNCHANGED vars
  <2>1. OutcomeInv'
    BY <1>1, <1>4 DEF vars, OutcomeInv, OutcomeIsTrue
  <2>2. LogInv' /\ StorageInv' /\ QueueInv' /\ PreparedInv'
    BY <1>1, <1>4 DEF vars, LoopCore, LogInv, StorageInv, QueueInv, PreparedInv
  <2>3. ExecutionsInv' /\ LatchedInv' /\ ExecutedIsDurable'
    BY <1>1, <1>4 DEF vars, LoopCore, ExecutionsInv, LatchedInv, ExecutedIsDurable, Executing
  <2>4. LogAccountsForExecutions' /\ ResolvedInv'
    BY <1>1, <1>4 DEF vars, LoopCore, LogAccountsForExecutions, ResolvedInv, Undisturbed, Executing
  <2> QED
    BY <1>2, <2>1, <2>2, <2>3, <2>4 DEF LoopInv, LoopCore
<1> QED
  BY <1>3, <1>4

-----------------------------------------------------------------------------
(* The inductive invariant: what every step of Run, of the approval API and *)
(* of their host keeps, through any outage and any crash.                   *)
THEOREM Invariant == Spec => []LoopInv
<1>1. Init => LoopInv
  BY LoopInit
<1>2. LoopInv /\ [Next]_vars => LoopInv'
  BY LoopStep
<1> QED
  BY <1>1, <1>2, PTL DEF Spec

(* Type correctness of Run's locals, of the log and of the histories; with   *)
(* LoopTypes, Run takes the head of a batch only where a call is left.      *)
THEOREM TypeCorrect == Spec => []TypeOK
<1>1. LoopInv => TypeOK
  BY DEF LoopInv, LoopTypes
<1> QED
  BY <1>1, Invariant, PTL

(* An open approval keeps the call from being executed: of all steps only    *)
(* RunTool and RunApprovedTool execute, the head of their queue, and its    *)
(* approval is not open there (QueueInv).                                  *)
THEOREM AwaitingHolds == Spec => AwaitingNeverExecutes
<1> DEFINE Held_ == \A c \in CallIds : OpenApproval(mem, c) => executed'[c] = executed[c]
<1>1. LoopInv /\ [Next]_vars => [Held_]_vars
  <2> SUFFICES ASSUME LoopInv, Next
               PROVE  Held_
    OBVIOUS
  <2>1. LoopTypes /\ LoopCore
    BY DEF LoopInv
  <2>2. CASE RunTool \/ RunApprovedTool
    <3> DEFINE h == Head(loop.queue)
    <3>1. loop.pc \in {"tools", "approved"} /\ executed' = [executed EXCEPT ![h] = @ + 1]
      BY <2>2 DEF RunTool, RunApprovedTool, At_
    <3>2. h = loop.queue[1] /\ 1 \in DOMAIN loop.queue /\ h \in CallIds
      BY <2>1, <3>1, Held DEF Holding, ApiPCs
    <3>3. ~OpenApproval(mem, h)
      BY <2>1, <3>1, <3>2 DEF LoopCore, QueueInv
    <3>4. \A c \in CallIds \ {h} : executed'[c] = executed[c]
      BY <2>1, <3>1, <3>2, CallsRun
    <3> QED
      BY <3>3, <3>4
  <2>3. CASE ~(RunTool \/ RunApprovedTool)
    <3>1. CASE Host \/ Crash
      BY <3>1 DEF Host, Chat, Resume, StartRun, ClearStorageErr, ReloadSession, ApproveToolUse, DenyToolUse,
                  Crash, history
    <3>2. CASE Running
      BY <2>3, <3>2 DEF Running, AppendApprovedResult, AppendDeniedResult, RunEntry, DecideTools,
         NoPendingTools, AskApproval, AppendToolResult, RejectTool, AfterDispatch, GuardTrips, HookFailsTurn,
         HookAppends, Prepare, CallProvider, ProviderFails, ProviderAnswers, ProviderAnswersMalformed, history
    <3> QED
      BY <3>1, <3>2 DEF Next
  <2> QED
    BY <2>2, <2>3
<1> QED
  BY <1>1, Invariant, PTL DEF Spec, AwaitingNeverExecutes

(* Each failed or refused write and each crash lets a call run once more,   *)
(* and nothing else does: the retries, resumptions and approvals of a       *)
(* session without them execute every call at most once.                   *)
THEOREM BoundedExecutions == Spec => []ExecutionsBounded
<1>1. LoopInv => ExecutionsBounded
  <2> SUFFICES ASSUME LoopInv, NEW c \in CallIds
               PROVE  executed[c] <= 1 + failures + crashes
    BY DEF ExecutionsBounded
  <2>1. executed[c] <= failures + crashes + 1 /\ failures \in Nat /\ crashes \in Nat
    BY Numbers DEF LoopInv, LoopCore, ExecutionsInv
  <2>2. failures + crashes + 1 = 1 + failures + crashes
    BY <2>1
  <2> QED
    BY <2>1, <2>2
<1> QED
  BY <1>1, Invariant, PTL

(* A call is written through before it is executed: no crash and no failed   *)
(* write can leave an execution that the stored log does not name.          *)
THEOREM DurableBeforeExecution == Spec => []ExecutedIsDurable
<1>1. LoopInv => ExecutedIsDurable
  BY DEF LoopInv, LoopCore
<1> QED
  BY <1>1, Invariant, PTL

(* Undisturbed, the log is the exact account of what has been executed.     *)
THEOREM ExactAccounts == Spec => []LogAccountsForExecutions
<1>1. LoopInv => LogAccountsForExecutions
  BY DEF LoopInv, LoopCore
<1> QED
  BY <1>1, Invariant, PTL

(* awaiting_approval, end_turn, incomplete_tool_batch and max_turns_reached  *)
(* are true of the log they leave, until the next call.                     *)
THEOREM TrueOutcomes == Spec => []OutcomeIsTrue
<1>1. LoopInv => OutcomeIsTrue
  BY DEF LoopInv, OutcomeInv
<1> QED
  BY <1>1, Invariant, PTL

(* While callProvider is out, the prepared request is the whole log, and     *)
(* every call in it has its one result, after it.                          *)
THEOREM WholeLogSeen == Spec => []ProviderSeesWholeLog
<1>1. LoopInv => ProviderSeesWholeLog
  <2> SUFFICES ASSUME LoopInv, At_("calling")
               PROVE  /\ loop.prepared = Len(mem)
                      /\ \A i \in DOMAIN mem : mem[i].type = "tool_use" =>
                           \E j \in i + 1 .. Len(mem) :
                             /\ mem[j].type = "tool_result" /\ mem[j].id = mem[i].id
                             /\ \A k \in DOMAIN mem \ {i, j} : mem[k].type \in {"tool_use", "tool_result"}
                                                               => mem[k].id # mem[i].id
    BY DEF ProviderSeesWholeLog
  <2>1. loop.prepared = Len(mem) /\ ProviderReady(mem) /\ mem \in Seq(LoopEvents)
    BY Numbers DEF LoopInv, LoopCore, PreparedInv, At_
  <2> QED
    BY <2>1, ReadyMeans
<1> QED
  BY <1>1, Invariant, PTL

(* With a provider that does not reuse call ids, the stored log always      *)
(* passes AnalyzeDurableLog: each call is in it once, its result once and    *)
(* after it, whatever was retried, approved, lost or reloaded.              *)
THEOREM StoredStaysIntact ==
  ASSUME UniqueIds
  PROVE  Spec => []StoredIntact
<1>1. LoopInv => StoredIntact
  <2> SUFFICES ASSUME LoopInv
               PROVE  DurableIntact(stored)
    BY DEF StoredIntact
  <2>1. Paired(stored) /\ stored \in Seq(LoopEvents)
    BY DEF LoopInv, LoopTypes, LoopCore, LogInv, SoundLog
  <2> QED
    BY <2>1, PairedIntact
<1> QED
  BY <1>1, Invariant, PTL

(* With such a provider, prepareRunEntry ends an idle session with           *)
(* integrity_error only for an approval resolved whose result a failure      *)
(* took away: not for a log that is not intact, and not for pending calls   *)
(* without a step that asked for them.                                      *)
THEOREM SeldomWedged ==
  ASSUME UniqueIds
  PROVE  Spec => []NeverWedged
<1>1. LoopInv => NeverWedged
  <2> SUFFICES ASSUME LoopInv, At_("idle"), EntryOutcome(mem) = "integrity_error"
               PROVE  ~Undisturbed /\ ResolvedWithoutResult(mem) # {}
    BY DEF NeverWedged
  <2>1. Paired(mem) /\ mem \in Seq(LoopEvents) /\ (Pending(mem) # {} => AskedLast(mem))
    BY DEF LoopInv, LoopTypes, LoopCore, LogInv, SoundLog
  <2>2. DurableIntact(mem)
    BY <2>1, PairedIntact
  <2>3. Pending(mem) # {} => LastStop(mem) = "tool_use"
    BY <2>1, AskedLastStop
  <2>4. ResolvedWithoutResult(mem) # {}
    BY <2>2, <2>3 DEF EntryOutcome
  <2>5. Undisturbed => ResolvedWithoutResult(mem) = {}
    BY DEF LoopInv, LoopCore, ResolvedInv, ApiPCs, At_
  <2> QED
    BY <2>4, <2>5
<1> QED
  BY <1>1, Invariant, PTL
=============================================================================
