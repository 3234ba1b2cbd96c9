---------------------------- MODULE Compaction ----------------------------
(***************************************************************************)
(* The compaction strategies (strategies.go), which run before each        *)
(* provider call and append `compact' events, over a session's log as the  *)
(* agent loop and its host grow it; and the requests the projections       *)
(* (projection_*.go) make of what is then visible.                         *)
(*                                                                         *)
(* The loop is AgentLoop's without its failures: a batch of calls is       *)
(* dispatched at once, or held and approved call by call in any order      *)
(* while the host may go on chatting.  The approval events, which nothing  *)
(* here reads, are left out of the log.                                    *)
(***************************************************************************)
EXTENDS Transcript, FiniteSets

CONSTANTS StrategyLists, \* the lists of strategies a session may have
          MaxBatch,      \* bound: calls in one step
          MaxLog,        \* bound: length of the log to which a step is added
          MaxReverts     \* bound: compactions the host reverts

(* MarkerTail and SummaryTail compact more than max messages,               *)
(* TokenMarkerTail what weighs more; each keeps the recent ones.           *)
StrategyNames == {"MarkerTail", "TokenMarkerTail", "SummaryTail", "ToolOutputCap"}
Strategies == [name : StrategyNames, max : Nat, keep : Nat]

ASSUME CompactionAssumption ==
  /\ IsFiniteSet(CallIds) /\ NoCall \notin CallIds
  /\ StrategyLists \subseteq Seq(Strategies) \ {<<>>}
  /\ MaxBatch \in Nat /\ MaxLog \in Nat /\ MaxReverts \in Nat

VARIABLES log,         \* Session.Log
          strategies,  \* the strategies installed, in the manifest's order
          hook,        \* the one whose hook is next, before a provider call
          step         \* where the host and the loop are

compactionVars == <<log, strategies, hook, step>>

CompactionInit ==
  /\ strategies \in StrategyLists
  /\ log = <<>> /\ hook = 1 /\ step = "idle"

-----------------------------------------------------------------------------
(* What a strategy sees.  A replaced event stays replaced for it, whether   *)
(* or not the compact is reverted.  The mutant forgets earlier compacts.   *)
Replaced(events) == UNION {events[i].span : i \in At(events, DOMAIN events, "compact")}

Select(events, Test(_)) == InOrder({i \in DOMAIN events : Test(i)})

MessageTypes == {"user_message", "assistant_message", "tool_use", "tool_result"}

MessageEventsAgain(events) == Select(events, LAMBDA i : events[i].type \in MessageTypes)

MessageEvents(events) ==
  LET replaced == Replaced(events)
  IN  Select(events, LAMBDA i : events[i].type \in MessageTypes /\ i \notin replaced)

SeqOfFirst(seq, n) == IF n <= 0 THEN <<>> ELSE SubSeq(seq, 1, n)
Elements(seq) == {seq[i] : i \in DOMAIN seq}

(* estimateTokens, where a huge output weighs three messages. *)
Weight(events, seqs) ==
  Cardinality(Elements(seqs))
    + 2 * Cardinality({i \in Elements(seqs) : events[i].info = "huge"})

(* toolPairSafeRange: of the candidates, a call goes with its result or not *)
(* at all.                                                                 *)
Unpaired(candidates, events) == candidates

SafeRange(candidates, events) ==
  {i \in candidates :
     LET partner(type) == {j \in At(events, DOMAIN events, type) : events[j].id = events[i].id}
     IN  CASE events[i].type = "tool_use" ->
                partner("tool_result") # {} /\ partner("tool_result") \subseteq candidates
           [] events[i].type = "tool_result" -> partner("tool_use") \subseteq candidates
           [] OTHER -> TRUE}

CompactIf(events, replaces) == IF replaces = {} THEN events ELSE Append(events, Compact(replaces))

(* The messages before the recent ones. *)
Older(events, keep) ==
  LET messages == MessageEvents(events)
  IN  Elements(SeqOfFirst(messages, Len(messages) - keep))

TooMany(events, max) == Len(MessageEvents(events)) > max

(* With just the recent ones to keep, MarkerTail compacts nothing, and says *)
(* so; with fewer it panics, and the hook is isolated.                     *)
MarkerTail(events, max, keep) ==
  IF TooMany(events, max) /\ Len(MessageEvents(events)) >= keep
  THEN Append(events, Compact(Older(events, keep))) ELSE events

TokenMarkerTail(events, max, keep) ==
  IF Weight(events, MessageEvents(events)) > max
  THEN CompactIf(events, SafeRange(Older(events, keep), events)) ELSE events

(* SummaryTail asks a provider for the summary of a log of its own; no      *)
(* answer, no compaction.                                                  *)
SummaryTail(events, max, keep, answered) ==
  IF TooMany(events, max) /\ answered
  THEN CompactIf(events, SafeRange(Older(events, keep), events)) ELSE events

SubLog(events, keep) ==
  LET seqs == SafeRange(Older(events, keep), events)
  IN  ItemsAt(events, seqs) \o <<UserMessage>>

(* ToolOutputCap: each output too large is hidden with its call, which it   *)
(* looks for in the whole log, hidden or not.                              *)
ToolOutputCap(events) ==
  LET use(i) == {j \in At(events, DOMAIN events, "tool_use") : events[j].id = events[i].id}
      huge == Select(events, LAMBDA i :
                /\ events[i].type = "tool_result" /\ events[i].info = "huge"
                /\ i \notin Replaced(events) /\ use(i) # {})
  IN  events \o [n \in DOMAIN huge |-> Compact({huge[n]} \cup use(huge[n]))]

Apply(strategy, events, answered) ==
  CASE strategy.name = "MarkerTail" -> MarkerTail(events, strategy.max, strategy.keep)
    [] strategy.name = "TokenMarkerTail" -> TokenMarkerTail(events, strategy.max, strategy.keep)
    [] strategy.name = "SummaryTail" -> SummaryTail(events, strategy.max, strategy.keep, answered)
    [] strategy.name = "ToolOutputCap" -> ToolOutputCap(events)

-----------------------------------------------------------------------------
(* The host. *)
AtRest == step \in {"idle", "refused"}
Room == Len(log) < MaxLog

(* Agent.Chat appends its message before Run finds the calls on hold. *)
Say ==
  /\ AtRest /\ Room
  /\ log' = Append(log, UserMessage)
  /\ step' = IF Pending(log) = {} THEN "turn" ELSE "idle"
  /\ UNCHANGED <<strategies, hook>>

ResumeTurn ==
  /\ AtRest /\ Room /\ log # <<>> /\ Pending(log) = {}
  /\ step' = "turn"
  /\ UNCHANGED <<log, strategies, hook>>

Sizes == {"done", "huge"}

Approve(c) ==
  /\ AtRest /\ c \in Pending(log)
  /\ \E size \in Sizes : log' = Append(log, ToolResult(c, size))
  /\ step' = "idle"
  /\ UNCHANGED <<strategies, hook>>

Reverts == Cardinality(At(log, DOMAIN log, "revert"))

RevertCompact(i) ==
  /\ AtRest /\ Reverts < MaxReverts
  /\ i \in ActiveCompacts(log)
  /\ log' = Append(log, Revert(i))
  /\ step' = "idle"
  /\ UNCHANGED <<strategies, hook>>

(* The loop: the pre_projection hooks in turn, then PrepareProviderCall. *)
PreProjection ==
  /\ step = "turn"
  /\ \E answered \in BOOLEAN : log' = Apply(strategies[hook], log, answered)
  /\ IF hook < Len(strategies)
     THEN hook' = hook + 1 /\ UNCHANGED step
     ELSE hook' = 1 /\ step' = IF ProviderReady(log') THEN "called" ELSE "refused"
  /\ UNCHANGED strategies

(* Ids are fresh and taken in a fixed order, which nothing here tells apart. *)
IdOrder == CHOOSE order \in [1 .. Cardinality(CallIds) -> CallIds] :
             \A i, j \in DOMAIN order : order[i] = order[j] => i = j

ProviderStep ==
  /\ step = "called"
  /\ LET used == Cardinality(Ids(log, "tool_use"))
     IN  \E n \in 0 .. MaxBatch :
           /\ used + n \in 0 .. Len(IdOrder)
           /\ log' = log \o <<AssistantMessage(IF n = 0 THEN "end_turn" ELSE "tool_use")>>
                         \o [k \in 1 .. n |-> ToolUse(IdOrder[used + k])]
           /\ step' = IF n = 0 THEN "idle" ELSE "tools"
  /\ UNCHANGED <<strategies, hook>>

Dispatch ==
  /\ step = "tools"
  /\ \E size \in [Pending(log) -> Sizes] :
       LET uses == PendingToolUses(log)
       IN  log' = log \o [i \in DOMAIN uses |-> ToolResult(uses[i].id, size[uses[i].id])]
  /\ step' = "turn"
  /\ UNCHANGED <<strategies, hook>>

HoldForApproval ==
  /\ step = "tools"
  /\ step' = "idle"
  /\ UNCHANGED <<log, strategies, hook>>

CompactionNext ==
  \/ Say \/ ResumeTurn \/ PreProjection \/ ProviderStep \/ Dispatch \/ HoldForApproval
  \/ \E c \in CallIds : Approve(c)
  \/ \E i \in DOMAIN log : RevertCompact(i)

CompactionSpec == CompactionInit /\ [][CompactionNext]_compactionVars

-----------------------------------------------------------------------------
(* The projections: ApplyMutations, with a summary in the place of the      *)
(* first event its compact replaces, then a provider's messages.           *)
FirstOf(S) == CHOOSE i \in S : \A j \in S : i <= j

Summarised(events) == {FirstOf(events[i].span) : i \in ActiveCompacts(events)}

Projected(events) ==
  LET summarised == Summarised(events)
      visible == Visible(events)
      shown == Select(events, LAMBDA i : \/ i \in summarised
                                         \/ i \in visible /\ events[i].type \in MessageTypes)
      item(i) == IF i \in summarised
                 THEN [type |-> "summary", id |-> NoCall]
                 ELSE [type |-> events[i].type, id |-> events[i].id]
  IN  [n \in DOMAIN shown |-> item(shown[n])]

Role(item) == IF item.type \in {"assistant_message", "tool_use"} THEN "assistant" ELSE "user"

(* Anthropic: neighbours of one role share a message.  OpenAI and Gemini:   *)
(* a call joins the assistant's message before it, all else stands alone.  *)
(* JoinsAfterMessage, the mutant, lets a call join no other call.               *)
JoinsAnthropic(before, item) == Role(before) = Role(item)
JoinsAfterMessage(before, item) == item.type = "tool_use" /\ before.type = "assistant_message"
JoinsAssistant(before, item) == item.type = "tool_use" /\ Role(before) = "assistant"

(* The messages: the items from one that joins nothing to the next. *)
Messages(items, Joins(_, _)) ==
  LET starts == Select(items, LAMBDA i : i = 1 \/ ~Joins(items[i - 1], items[i]))
      end(n) == IF n = Len(starts) THEN Len(items) ELSE starts[n + 1] - 1
  IN  [n \in DOMAIN starts |-> SubSeq(items, starts[n], end(n))]

AnthropicMessages(events) == Messages(Projected(events), JoinsAnthropic)
OpenAIMessages(events) == Messages(Projected(events), JoinsAssistant)
GeminiMessages(events) == Messages(Projected(events), JoinsAssistant)

Carried(message, type) == {message[i].id : i \in {j \in DOMAIN message : message[j].type = type}}

(* What the providers' interfaces ask for.  Anthropic: the message after    *)
(* one with calls starts with their results.  OpenAI: a message with calls  *)
(* is followed by a message with the result of each.  Gemini: a result     *)
(* carries the name of its function, known from a call before it.          *)
AnthropicAccepts(messages) ==
  /\ \A n \in DOMAIN messages : Carried(messages[n], "tool_use") # {} =>
       /\ n < Len(messages)
       /\ Carried(messages[n], "tool_use") = Carried(messages[n + 1], "tool_result")
       /\ LET k == Cardinality(Carried(messages[n], "tool_use"))
          IN  \A i \in 1 .. k : messages[n + 1][i].type = "tool_result"
  /\ \A n \in DOMAIN messages : Carried(messages[n], "tool_result") # {} =>
       n > 1 /\ Carried(messages[n - 1], "tool_use") # {}

OpenAIAccepts(messages) ==
  \A n \in DOMAIN messages :
    LET uses == Carried(messages[n], "tool_use")
        after == n + 1 .. n + Cardinality(uses)
    IN  /\ after \subseteq DOMAIN messages
        /\ uses = UNION {Carried(messages[k], "tool_result") : k \in after}

GeminiAccepts(messages) ==
  \A n \in DOMAIN messages :
    Carried(messages[n], "tool_result") \subseteq UNION {Carried(messages[k], "tool_use") : k \in 1 .. n}

-----------------------------------------------------------------------------
(* A call and its result, of which just one is hidden. *)
SplitPair(events) ==
  \E i \in At(events, DOMAIN events, "tool_use"), j \in At(events, DOMAIN events, "tool_result") :
    events[i].id = events[j].id /\ (i \in Visible(events)) # (j \in Visible(events))

(* README: every provider call is "pair-closed".  The strategies of a       *)
(* session whose durable log is sound never make the loop refuse to call,   *)
(* and SummaryTail's own log is never refused, except for MarkerTail, which *)
(* cuts where it must count and may leave a result without its call.       *)
OnlyMarkerTailRefuses ==
  /\ step = "refused" =>
       (\E n \in DOMAIN strategies : strategies[n].name = "MarkerTail") /\ SplitPair(log)
  /\ step = "turn" /\ strategies[hook].name = "SummaryTail" =>
       ProviderReady(SubLog(log, strategies[hook].keep))

(* A MarkerTail that no ToolOutputCap goes before, and one comes after. *)
CutsBeforeCap ==
  \E n, m \in DOMAIN strategies :
    /\ n < m /\ strategies[n].name = "MarkerTail" /\ strategies[m].name = "ToolOutputCap"
    /\ \A l \in 1 .. n : strategies[l].name # "ToolOutputCap"

(* Compact k cut call i from its huge result, which compact m then replaces *)
(* together with the call.                                                 *)
CutThenCapped(k, m, i) ==
  /\ CutsBeforeCap /\ k < m
  /\ log[i].type = "tool_use" /\ i \in log[k].span
  /\ \E j \in At(log, DOMAIN log, "tool_result") :
       /\ log[j].id = log[i].id /\ log[j].info = "huge"
       /\ j \notin log[k].span /\ log[m].span = {i, j}

(* A message is in the view, or behind exactly one summary of it, and each  *)
(* summary has a place of its own: no compaction, repeated, combined or     *)
(* reverted, loses or repeats a part of the conversation.  But for a call   *)
(* that MarkerTail cut from a result which ToolOutputCap, next in the same  *)
(* manifest, caps: it is behind two, and their summaries may be shown as    *)
(* one.                                                                    *)
EachMessageShownOnce ==
  LET active == ActiveCompacts(log)
      hiding(i) == {k \in active : i \in log[k].span}
  IN  /\ \A i \in DOMAIN log \ Visible(log) : log[i].type \in MessageTypes =>
           \/ Cardinality(hiding(i)) = 1
           \/ \E k, m \in active : hiding(i) = {k, m} /\ CutThenCapped(k, m, i)
      /\ \/ Cardinality(Summarised(log)) = Cardinality(active)
         \/ \E k, m \in active : CutThenCapped(k, m, FirstOf(log[k].span))

(* A user message, or a summary, stands between a call and its result. *)
SpokenOver(events) ==
  \E i, k, j \in DOMAIN events :
    /\ i < k /\ k < j
    /\ events[i].type = "tool_use" /\ events[j].type = "tool_result"
    /\ events[i].id = events[j].id
    /\ events[k].type = "user_message"

SummarisedOver(events) ==
  \E i \in Visible(events), k \in Summarised(events), j \in Visible(events) :
    /\ i < k /\ k < j
    /\ events[i].type = "tool_use" /\ events[j].type = "tool_result"
    /\ events[i].id = events[j].id

(* A request that PrepareProviderCall let by pairs its calls as the         *)
(* providers ask, except that it does not see what stands between a call    *)
(* and its result: a message chatted while the call was on hold, or the     *)
(* summary of another call of the same step.                               *)
RequestPairsCalls ==
  step = "called" /\ ~SpokenOver(log) /\ ~SummarisedOver(log) =>
    /\ AnthropicAccepts(AnthropicMessages(log))
    /\ OpenAIAccepts(OpenAIMessages(log))
    /\ GeminiAccepts(GeminiMessages(log))
=============================================================================
