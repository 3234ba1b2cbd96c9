-------------------------- MODULE ProviderStream --------------------------
(***************************************************************************)
(* How a provider's answer becomes events: the streaming providers         *)
(* (provider_stream.go), which tell observers of a turn while it arrives   *)
(* and stage its events when it is whole, and the buffered path, which     *)
(* ingests one response (ingestor_*.go).  Both end in closeProviderStep.   *)
(*                                                                         *)
(* The server sends any frames in any order and may break off anywhere.    *)
(* Of a frame only what the state machines read is kept; the chunks of a   *)
(* call's arguments are "empty", "whole" (a JSON object) or "broken".      *)
(***************************************************************************)
EXTENDS Naturals, Sequences, FiniteSets, Selection

CONSTANTS MaxCalls,     \* bound: calls in one answer
          MaxText,      \* bound: text chunks in one answer
          MaxAnswers,   \* bound: provider attempts of the session
          MaxRestarts   \* bound: restarts of the process

ASSUME ProviderStreamAssumption ==
  MaxCalls \in Nat /\ MaxText \in Nat /\ MaxAnswers \in Nat /\ MaxRestarts \in Nat

VARIABLES provider,  \* the session's provider
          stream,    \* the provider's state machine for the attempt
          observed,  \* what observers of the attempt were told
          staged,    \* what the attempt hands to closeProviderStep
          callIds,   \* ids in the session's log that this program numbered
          recurred,  \* those in it more than once
          counter,   \* GeminiIngestor.counter
          streams,   \* history: answers streamed, and attempts made
          attempts, restarts

streamVars == <<provider, stream, observed, staged, callIds, recurred, counter,
                streams, attempts, restarts>>

Indexes == 0 .. MaxCalls - 1

(* An id the server chose, or one numbered by the Gemini stream or ingestor. *)
CallId == [by : {"server", "stream", "ingestor"}, n : Nat]

NoTool == [id |-> [by |-> "server", n |-> 0], named |-> FALSE, args |-> "none"]
NoId == NoTool.id

NewStream == [phase |-> "open", started |-> FALSE, stopped |-> FALSE,
              finish |-> "none", why |-> "none", odd |-> FALSE, thought |-> FALSE,
              block |-> [i \in Indexes |-> "none"],
              tools |-> [i \in Indexes |-> NoTool]]

StreamInit ==
  /\ provider \in {"anthropic", "openai", "gemini"}
  /\ stream = [NewStream EXCEPT !.phase = "idle"]
  /\ observed = <<>> /\ staged = <<>>
  /\ callIds = {} /\ recurred = {} /\ counter = 0
  /\ streams = 0 /\ attempts = 0 /\ restarts = 0

session == <<provider, callIds, recurred, counter, streams, attempts, restarts>>

-----------------------------------------------------------------------------
(* Stop reasons.  OpenAIStopOld, a mutant, knows function_call only. *)
AnthropicStops == {"end_turn", "max_tokens", "tool_use"}
OpenAIStops == {"stop", "length", "tool_calls"}
GeminiStops == {"STOP", "MAX_TOKENS"}

Stops == CASE provider = "anthropic" -> AnthropicStops
           [] provider = "openai" -> OpenAIStops
           [] provider = "gemini" -> GeminiStops

StopReason(finish) ==
  CASE finish \in {"end_turn", "stop", "STOP"} -> "end_turn"
    [] finish \in {"max_tokens", "length", "MAX_TOKENS"} -> "max_tokens"
    [] finish \in {"tool_use", "tool_calls"} -> "tool_use"
    [] OTHER -> "other"

OpenAIStopOld(finish) ==
  CASE finish = "function_call" -> "tool_use" [] finish = "stop" -> "end_turn"
    [] OTHER -> "other"

NormalizeOpenAIStop(finish) ==
  CASE finish = "tool_calls" -> "tool_use" [] finish = "stop" -> "end_turn"
    [] OTHER -> "other"

NormalizeGeminiStop(finish, hasToolUse) ==
  IF hasToolUse THEN "tool_use" ELSE IF finish = "STOP" THEN "end_turn" ELSE "other"

-----------------------------------------------------------------------------
(* What a step stages, and what closeProviderStep makes of it: calls to     *)
(* dispatch, calls to close as incomplete, a final answer or a refusal.    *)
Message(stop, chunks, thought) ==
  [type |-> "assistant_message", id |-> NoId, named |-> FALSE,
   info |-> stop, chunks |-> chunks, thought |-> thought]
Use(id, named, args) ==
  [type |-> "tool_use", id |-> id, named |-> named,
   info |-> args, chunks |-> 0, thought |-> FALSE]

Uses(events) == ItemsAt(events, {i \in DOMAIN events : events[i].type = "tool_use"})

CloseProviderStep(events) ==
  LET uses == Uses(events)
      stop == Head(events).info
  IN  IF \/ events = <<>> \/ Head(events).type # "assistant_message"
         \/ Len(uses) # Len(events) - 1
         \/ \E i \in DOMAIN uses : uses[i].id = NoId \/ ~uses[i].named
         \/ \E i, j \in DOMAIN uses : i # j /\ uses[i].id = uses[j].id
         \/ stop = "tool_use" /\ uses = <<>>
      THEN "refused"
      ELSE IF uses = <<>> THEN "final"
      ELSE IF stop = "tool_use" THEN "dispatch" ELSE "closed"

(* The tools of a stream in index order. *)
Called(tools) == ItemsAt(tools, {i \in Indexes : tools[i] # NoTool})

(* Ingest of the same answer, unstreamed, with what the model thought.      *)
(* OpenAI's arguments are text, and what does not parse becomes an empty    *)
(* object; Gemini numbers its calls; an answer without a finish reason has  *)
(* another.  NextNumberStuck, the mutant, is a counter that does not move. *)
NextNumberStuck(number, n) == number
NextNumber(number, n) == number + n

AnthropicIngest(finish, calls, chunks, thought) ==
  <<Message(IF finish = "none" THEN "other" ELSE finish, chunks, thought)>>
  \o [n \in DOMAIN calls |-> Use(calls[n].id, calls[n].named, calls[n].args)]

OpenAIIngest(finish, calls, chunks, thought) ==
  <<Message(NormalizeOpenAIStop(finish), chunks, thought)>>
  \o [n \in DOMAIN calls |->
        Use(calls[n].id, calls[n].named, IF calls[n].args = "whole" THEN "whole" ELSE "empty")]

GeminiIngest(finish, calls, chunks, thought) ==
  <<Message(NormalizeGeminiStop(finish, calls # <<>>), chunks, thought)>>
  \o [n \in DOMAIN calls |->
        Use([by |-> "ingestor", n |-> counter + n], calls[n].named, calls[n].args)]

Ingested(finish, calls, chunks, thought) ==
  CASE provider = "anthropic" -> AnthropicIngest(finish, calls, chunks, thought)
    [] provider = "openai" -> OpenAIIngest(finish, calls, chunks, thought)
    [] provider = "gemini" -> GeminiIngest(finish, calls, chunks, thought)

-----------------------------------------------------------------------------
(* The frame of every streamed call (streamSSE).                           *)
Intact == recurred = {}

StreamOpen == stream.phase = "open"
Tell(events) == observed' = observed \o events

(* A new attempt, with a turn id of its own: of a first step or a later one *)
(* of the session, which PrepareProviderCall lets by, or after a failure.  *)
StartStream ==
  /\ stream.phase \in {"idle", "failed"} /\ Intact
  /\ attempts < MaxAnswers /\ attempts' = attempts + 1
  /\ stream' = NewStream
  /\ observed' = <<<<"started">>>> /\ staged' = <<>>
  /\ UNCHANGED <<provider, callIds, recurred, counter, streams, restarts>>

FailAfter(events, why) ==
  /\ stream' = [stream EXCEPT !.phase = "failed", !.why = why]
  /\ Tell(events \o <<<<"failed">>>>)
  /\ staged' = <<>>

Fail(why) == FailAfter(<<>>, why)

(* A frame the state machine accepts, or a protocol error. *)
Accept(ok, next, events) ==
  IF ok THEN stream' = next /\ Tell(events) /\ UNCHANGED staged ELSE Fail("protocol")

(* The request fails, the connection breaks, a line is too long, a frame is *)
(* not JSON or reports an error.                                           *)
StreamBreaks == StreamOpen /\ Fail("broken") /\ UNCHANGED session

(* Ids of the server, and others for the same indexes: in the session, they *)
(* are taken to be fresh (AgentLoop has the case that they are not).       *)
ServerId(i) == [by |-> "server", n |-> 1 + i]
AnotherId(i) == [by |-> "server", n |-> 1 + i + MaxCalls]

Texts == Cardinality({i \in DOMAIN observed : observed[i][1] = "text"})

ArgsAfterChunk(args) == IF args = "whole" THEN {"broken"} ELSE {"broken", "whole"}
Parsed(args) == args \in {"empty", "whole"}

-----------------------------------------------------------------------------
(* anthropicStreamState.Data *)
Active == stream.started /\ ~stream.stopped

MessageStart == Accept(~stream.started, [stream EXCEPT !.started = TRUE], <<>>)

(* An index is refused while its block is open only: reusing a closed one  *)
(* is odd, and drops the tool it held.  A thinking block opens and closes   *)
(* like any other, and leaves nothing.                                     *)
ContentBlockStart(i, type, named) ==
  LET reused == stream.tools[i] # NoTool
      opened == [stream EXCEPT !.block[i] = type, !.odd = @ \/ reused,
                               !.thought = @ \/ type = "thinking"]
      tool == [id |-> IF reused THEN AnotherId(i) ELSE ServerId(i),
               named |-> TRUE, args |-> "empty"]
  IN  /\ Len(observed) < 2 * MaxCalls + MaxText + 1
      /\ IF Active /\ stream.block[i] = "none" /\ type = "tool" /\ ~named
         THEN Fail("unnamed")
         ELSE Accept(Active /\ stream.block[i] = "none",
                     IF type = "tool" THEN [opened EXCEPT !.tools[i] = tool] ELSE opened,
                     IF type = "tool" THEN <<<<"begin", tool.id>>>> ELSE <<>>)

(* Text is welcome in any block but a tool's; in a thinking one it is odd. *)
TextDelta(i) ==
  /\ Texts < MaxText
  /\ Accept(Active /\ stream.block[i] \in {"text", "thinking"},
            [stream EXCEPT !.odd = @ \/ stream.block[i] = "thinking"], <<<<"text">>>>)

(* thinking_delta, signature_delta, citations_delta.                       *)
OtherDelta(i) == Fail(IF Active /\ stream.block[i] # "none" THEN "delta" ELSE "protocol")

InputJSONDelta(i) ==
  \E args \in ArgsAfterChunk(stream.tools[i].args) :
    Accept(Active /\ stream.block[i] # "none" /\ stream.tools[i] # NoTool,
           [stream EXCEPT !.tools[i].args = args], <<>>)

ContentBlockStop(i) ==
  LET tool == stream.tools[i]
  IN  IF Active /\ stream.block[i] # "none" /\ tool # NoTool /\ ~Parsed(tool.args)
      THEN Fail("arguments")
      ELSE Accept(Active /\ stream.block[i] # "none",
                  [stream EXCEPT !.block[i] = "none"],
                  IF tool # NoTool THEN <<<<"end", tool.id>>>> ELSE <<>>)

MessageDelta(finish) ==
  Accept(Active /\ stream.finish = "none", [stream EXCEPT !.finish = finish], <<>>)

MessageStop ==
  LET closed == Active /\ \A i \in Indexes : stream.block[i] = "none"
  IN  IF closed /\ stream.finish = "none" THEN Fail("unfinished")
      ELSE Accept(closed, [stream EXCEPT !.stopped = TRUE], <<>>)

AnthropicFrame ==
  /\ provider = "anthropic" /\ StreamOpen
  /\ \/ MessageStart \/ MessageStop
     \/ \E finish \in AnthropicStops : MessageDelta(finish)
     \/ \E i \in Indexes :
          \/ TextDelta(i) \/ OtherDelta(i) \/ InputJSONDelta(i) \/ ContentBlockStop(i)
          \/ \E type \in {"text", "thinking", "tool"}, named \in BOOLEAN : ContentBlockStart(i, type, named)
  /\ UNCHANGED session

-----------------------------------------------------------------------------
(* openAIStreamState.Data.  `started' of a stream is not used; `stopped' is *)
(* doneSeen.                                                               *)
ContentDelta ==
  /\ Texts < MaxText
  /\ Accept(~stream.stopped /\ stream.finish = "none", stream, <<<<"text">>>>)

(* What the model thought, in a delta or in a part: heard, and dropped.     *)
Thought(ok) == Accept(ok, [stream EXCEPT !.thought = TRUE], <<>>)

ReasoningDelta == Thought(~stream.stopped /\ stream.finish = "none")

(* handleDelta of a piece of a call: the id and the name may come late; an  *)
(* id may come again, and another one is odd.                              *)
ToolCallDelta(i, id, named, chunk) ==
  LET old == stream.tools[i]
      known == [id |-> IF id = NoId THEN old.id ELSE id, named |-> old.named \/ named,
                args |-> IF old = NoTool THEN "empty" ELSE old.args]
      complete(tool) == tool.id # NoId /\ tool.named
      renamed == complete(old) /\ known.id # old.id
      begun == IF complete(known) /\ ~complete(old) THEN <<<<"begin", known.id>>>> ELSE <<>>
      next == [stream EXCEPT !.tools[i] = known, !.odd = @ \/ renamed]
  IN  IF ~chunk THEN Accept(~stream.stopped /\ stream.finish = "none", next, begun)
      ELSE \E args \in ArgsAfterChunk(known.args) :
             Accept(~stream.stopped /\ stream.finish = "none" /\ complete(known),
                    [next EXCEPT !.tools[i].args = args], begun)

(* The calls are ended in the order of a map; one that has no id and name,  *)
(* or arguments that do not parse, ends the stream.                        *)
FinishReason(finish) ==
  \E order \in {o \in [DOMAIN Called(stream.tools) -> DOMAIN Called(stream.tools)] :
                  \A m, n \in DOMAIN o : o[m] = o[n] => m = n} :
    LET tools == [n \in DOMAIN order |-> Called(stream.tools)[order[n]]]
        bad == {n \in DOMAIN tools : tools[n].id = NoId \/ ~tools[n].named \/ ~Parsed(tools[n].args)}
        ends(n) == [m \in 1 .. n |-> <<"end", tools[m].id>>]
    IN  IF stream.stopped \/ stream.finish # "none" THEN Fail("protocol")
        ELSE IF bad = {}
        THEN /\ stream' = [stream EXCEPT !.finish = finish]
             /\ Tell(ends(Len(tools))) /\ UNCHANGED staged
        ELSE LET n == CHOOSE k \in bad : \A m \in bad : k <= m
                 named == tools[n].id # NoId /\ tools[n].named
             IN  /\ stream' = [stream EXCEPT !.phase = "failed", !.finish = finish,
                                             !.why = IF named THEN "arguments" ELSE "unnamed"]
                 /\ Tell(ends(n - 1) \o <<<<"failed">>>>) /\ staged' = <<>>

Done == Accept(~stream.stopped, [stream EXCEPT !.stopped = TRUE], <<>>)

OpenAIFrame ==
  /\ provider = "openai" /\ StreamOpen
  /\ \/ ContentDelta \/ ReasoningDelta \/ Done
     \/ \E finish \in OpenAIStops : FinishReason(finish)
     \/ \E i \in Indexes, named \in BOOLEAN, chunk \in BOOLEAN :
          \E id \in {NoId, ServerId(i)} \cup {AnotherId(j) : j \in {i} \ {k \in Indexes : stream.tools[k].id = NoId}} :
            ToolCallDelta(i, id, named, chunk)
  /\ UNCHANGED session

-----------------------------------------------------------------------------
(* geminiStreamState.Data: a frame carries text, a whole call, the finish   *)
(* reason, or a call and the finish reason.                                *)
GeminiData(text, call, named, finish) ==
  LET n == Len(Called(stream.tools))
      tool == [id |-> [by |-> "stream", n |-> n], named |-> TRUE, args |-> "whole"]
      heard == IF call THEN [stream EXCEPT !.tools[n] = tool] ELSE stream
      texts == IF text THEN <<<<"text">>>> ELSE <<>>
  IN  /\ text => Texts < MaxText
      /\ call => n < MaxCalls
      /\ IF stream.finish = "none" /\ call /\ ~named THEN FailAfter(texts, "unnamed")
         ELSE Accept(stream.finish = "none",
                     IF finish = "none" THEN heard ELSE [heard EXCEPT !.finish = finish],
                     texts \o IF call THEN <<<<"begin", tool.id>>, <<"end", tool.id>>>> ELSE <<>>)

GeminiFrame ==
  /\ provider = "gemini" /\ StreamOpen
  /\ \/ Thought(stream.finish = "none")
     \/ \E text, call, named \in BOOLEAN : \E finish \in GeminiStops \cup {"none"} :
          GeminiData(text, call, named, finish)
  /\ UNCHANGED session

-----------------------------------------------------------------------------
(* The body ends: Complete, of each provider, then the events of the turn.  *)
(* WholeEnough, the mutant, takes a finish reason for the end.             *)
WholeEnough == stream.finish # "none"
Whole == stream.finish # "none" /\ (provider # "gemini" => stream.stopped)

StreamEnds ==
  /\ StreamOpen
  /\ LET calls == Called(stream.tools)
     IN  IF Whole
         THEN /\ stream' = [stream EXCEPT !.phase = "done"]
              /\ Tell(<<<<"done">>>>)
              /\ staged' = <<Message(StopReason(stream.finish), Texts, FALSE)>>
                           \o [n \in DOMAIN calls |->
                                 Use(calls[n].id, calls[n].named, calls[n].args)]
         ELSE Fail(IF provider # "gemini" => stream.stopped THEN "unfinished" ELSE "protocol")
  /\ UNCHANGED session

(* AgentLoop.Run appends the step, the calls of one that is not dispatched  *)
(* closed by results, or refuses it.                                       *)
AppendStep(events) ==
  LET ids == {Uses(events)[n].id : n \in DOMAIN Uses(events)} \ [by : {"server"}, n : 1 .. 2 * MaxCalls]
  IN  /\ callIds' = callIds \cup ids
      /\ recurred' = recurred \cup (callIds \cap ids)

StageStream ==
  /\ stream.phase = "done"
  /\ IF CloseProviderStep(staged) = "refused" THEN UNCHANGED <<callIds, recurred>>
     ELSE AppendStep(staged)
  /\ streams' = streams + 1
  /\ stream' = [NewStream EXCEPT !.phase = "idle"]
  /\ observed' = <<>> /\ staged' = <<>>
  /\ UNCHANGED <<provider, counter, attempts, restarts>>

(* A buffered step: Provider.Call, Ingest and the append. *)
BufferedStep ==
  /\ stream.phase = "idle" /\ Intact
  /\ attempts < MaxAnswers /\ attempts' = attempts + 1
  /\ \E n \in 0 .. MaxCalls : \E finish \in Stops :
       LET calls == [k \in 1 .. n |->
                       [id |-> ServerId(k - 1),
                        named |-> TRUE, args |-> "whole"]]
           events == Ingested(finish, calls, 0, FALSE)
       IN  /\ CloseProviderStep(events) # "refused"
           /\ AppendStep(events)
           /\ counter' = IF provider = "gemini" THEN NextNumber(counter, n) ELSE counter
  /\ UNCHANGED <<provider, stream, observed, staged, streams, restarts>>

(* A new process has a new ingestor (IngestorFor), which shows only when    *)
(* the old one had counted.                                                *)
Restart ==
  /\ stream.phase \in {"idle", "failed"} /\ restarts < MaxRestarts /\ counter > 0
  /\ restarts' = restarts + 1 /\ counter' = 0
  /\ stream' = [NewStream EXCEPT !.phase = "idle"]
  /\ observed' = <<>> /\ staged' = <<>>
  /\ UNCHANGED <<provider, callIds, recurred, streams, attempts>>

StreamNext ==
  \/ StartStream \/ StreamBreaks \/ AnthropicFrame \/ OpenAIFrame \/ GeminiFrame
  \/ StreamEnds \/ StageStream \/ BufferedStep \/ Restart

StreamSpec == StreamInit /\ [][StreamNext]_streamVars

-----------------------------------------------------------------------------
Told(kind) == {i \in DOMAIN observed : observed[i][1] = kind}

(* What observers were told of a turn is what the log gets of it: nothing   *)
(* is staged and no ending told while it streams; a failed turn ends in one *)
(* failure and stages nothing; a completed one ends in one "done" and       *)
(* stages its message, of the chunks told, and each call that was begun and *)
(* then ended, once ("Provider responses ... are staged", CHANGELOG), but   *)
(* for a server that reuses an index or renames a call.                     *)
ObserversAgreeWithLog ==
  LET ends == Told("done") \cup Told("failed")
  IN  CASE stream.phase \in {"idle", "open"} -> staged = <<>> /\ ends = {}
        [] stream.phase = "failed" ->
             staged = <<>> /\ ends = Told("failed") /\ ends = {Len(observed)}
        [] stream.phase = "done" ->
             /\ ends = Told("done") /\ ends = {Len(observed)}
             /\ Head(staged).chunks = Texts
             /\ ~stream.odd =>
                  /\ CloseProviderStep(staged) = "refused" =>
                       Uses(staged) = <<>> /\ Head(staged).info = "tool_use"
                  /\ Cardinality(Told("end")) = Len(Uses(staged))
                  /\ \A n \in DOMAIN Uses(staged) :
                       \E b \in Told("begin") : \E e \in Told("end") :
                         /\ b < e
                         /\ observed[b][2] = Uses(staged)[n].id
                         /\ observed[e][2] = Uses(staged)[n].id

(* The two paths compared: what the stream heard, ingested as an answer.    *)
Unnamed == [id |-> NoId, named |-> FALSE, args |-> "whole"]

Complete(calls) == \A n \in DOMAIN calls : calls[n].id # NoId /\ calls[n].named

Buffered(finish, calls) == CloseProviderStep(Ingested(finish, calls, Texts, stream.thought))

(* The streamed step is the buffered one, but for what the model thought,   *)
(* which is only ingested; for a stop at a limit, which OpenAI's ingestor   *)
(* and Gemini's do not know; and for Gemini's stop with calls.             *)
SameStep(streamed, whole, calls) ==
  LET limited == provider # "anthropic" /\ stream.finish \in {"length", "MAX_TOKENS"}
  IN  /\ Head(streamed).chunks = Head(whole).chunks
      /\ ~Head(streamed).thought /\ Head(whole).thought = stream.thought
      /\ \/ Head(streamed).info = Head(whole).info
         \/ limited
         \/ provider = "gemini" /\ calls # <<>>
      /\ Len(streamed) = Len(whole)
      /\ provider # "gemini" => Uses(streamed) = Uses(whole)

(* CHANGELOG: "Provider responses from buffered and streaming paths are     *)
(* staged identically".  The loop goes the same way with the same answer    *)
(* streamed or buffered, but for these: the Gemini stream closes calls that *)
(* the ingestor dispatches; a stream fails with arguments that do not parse,*)
(* where OpenAI's ingestor makes an empty object of them, with a thinking   *)
(* block that Anthropic's ingests, without a finish reason, which the       *)
(* ingestors do without, and with a call that has no name, which refuses    *)
(* the buffered step and with it the run.                                  *)
StreamedLikeBuffered ==
  LET calls == Called(stream.tools)
      whole == Ingested(stream.finish, calls, Texts, stream.thought)
      heard == IF provider = "openai" THEN calls ELSE Append(calls, Unnamed)
  IN  ~stream.odd =>
        /\ stream.phase = "done" =>
             /\ SameStep(staged, whole, calls)
             /\ IF provider = "gemini" /\ calls # <<>>
                THEN CloseProviderStep(staged) = "closed" /\ CloseProviderStep(whole) = "dispatch"
                ELSE CloseProviderStep(staged) = CloseProviderStep(whole)
        /\ stream.why = "arguments" /\ provider = "openai" =>
             \E n \in DOMAIN calls : ~Parsed(calls[n].args) /\ Uses(whole)[n].info = "empty"
        /\ stream.why = "delta" =>
             \A finish \in Stops : (finish = "tool_use" => calls # <<>>) =>
               Buffered(finish, calls) # "refused"
        /\ stream.why = "unfinished" =>
             (Buffered(stream.finish, calls) = "refused" <=> ~Complete(calls))
        /\ stream.why = "unnamed" => Buffered(stream.finish, heard) = "refused"

(* A call id that recurs is duplicate_tool_use_id, and the session is lost. *)
(* It recurs with Gemini only: when a second answer with calls is streamed, *)
(* and when a restarted process counts anew.                               *)
IdsRecurOnlyFromGemini ==
  \A id \in recurred :
    \/ id.by = "stream" /\ streams >= 2
    \/ id.by = "ingestor" /\ restarts > 0
=============================================================================
