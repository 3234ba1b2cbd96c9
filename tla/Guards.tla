------------------------------- MODULE Guards -------------------------------
(***************************************************************************)
(* The strategies that judge tool calls and turns (strategies.go), as the  *)
(* manifest installs them on a session's hooks (hooks.go, manifest.go) and *)
(* dispatchPendingTools composes their decisions, with approvals and       *)
(* restarts in between.  One hook handler of one call is one step.         *)
(*                                                                         *)
(* To each strategy a call is "good", "bad" or "other".  The strike guards  *)
(* are the sandboxes, which have nothing to say of other tools, and         *)
(* credential/proxy, which has nothing to say of a call that matches no     *)
(* route, injects a credential or misses it; a route to a tool it cannot    *)
(* serve makes a call "unsupported".  They count the bad calls, which they  *)
(* refuse, in a closure that a good one resets.  A bad call is one that     *)
(* permission/deny refuses and permission/approval asks for;                *)
(* guard/repetition tells two calls apart.                                 *)
(***************************************************************************)
EXTENDS Naturals, Sequences, FiniteSets

CONSTANTS Manifests,        \* the lists of strategies a session may have
          StrikeLimit,      \* consecutive refusals a strike guard stands
          MaxIdenticalCalls, MaxConsecutiveFailures, MaxConsecutiveRejections,
          MaxTokens,        \* of the cost budget
          MaxToolCalls,     \* bound: calls of the session
          MaxGuardRestarts  \* bound: restarts of the process

Sandboxes == {"sandbox/write", "sandbox/network"}
StrikeKinds == Sandboxes \cup {"credential/proxy"}
CallKinds == {"permission/deny", "permission/approval", "guard/repetition"}
TurnKinds == {"guard/timeout", "guard/cost_budget", "guard/health"}
Strategy == [kind : StrikeKinds \cup CallKinds \cup TurnKinds, onError : {"isolate", "fail_turn"}]

Classes == {"good", "bad", "other", "unsupported"}

ASSUME GuardsAssumption ==
  /\ Manifests \subseteq Seq(Strategy) \ {<<>>}
  /\ StrikeLimit \in Nat \ {0} /\ MaxIdenticalCalls \in Nat \ {0}
  /\ MaxConsecutiveFailures \in Nat \ {0} /\ MaxConsecutiveRejections \in Nat \ {0}
  /\ MaxTokens \in Nat /\ MaxToolCalls \in Nat /\ MaxGuardRestarts \in Nat

VARIABLES installed,    \* the manifest's strategies, in order
          memory,       \* the counters in the closures of each
          calls,        \* the tool calls in the log, with what became of them
          runtimeError, \* the strategies whose terminal runtime_error is in the log
          at,           \* where the loop is
          expired,      \* the timeout guard's time is over
          guardRestarts

guardsVars == <<installed, memory, calls, runtimeError, at, expired, guardRestarts>>

-----------------------------------------------------------------------------
(* Hooks keep a handler's options by the code of its closure, which all     *)
(* strategies of a kind share.  Hooks.On stores "isolate"; markNewHandlers  *)
(* puts what the manifest asks in its place, for code it has not seen.      *)
(* PolicyForgotten, the mutant, is what On stores.                         *)
PolicyForgotten(n) == "isolate"

Policy(n) ==
  IF \E m \in DOMAIN installed \ {n} : installed[m].kind = installed[n].kind
  THEN "isolate" ELSE installed[n].onError

Installed(kinds) == \E n \in DOMAIN installed : installed[n].kind \in kinds

NoMemory == [strikes |-> 0, seen |-> [class \in Classes |-> 0],
             failures |-> 0, rejections |-> 0, checks |-> 0]

(* The loop, and the decisions of the batch it judges. *)
AtIdle == [pc |-> "idle", call |-> 0, handler |-> 0, refused |-> {}, asked |-> {}]

Closures == [n \in DOMAIN installed |-> NoMemory]

GuardsInit ==
  /\ installed \in Manifests
  /\ memory = Closures
  /\ calls = <<>> /\ runtimeError = {} /\ at = AtIdle
  /\ expired = FALSE /\ guardRestarts = 0

-----------------------------------------------------------------------------
NewCall(class) == [class |-> class, state |-> "pending", judged |-> 0, failed |-> FALSE]

Open(k) == calls[k].state \in {"pending", "asked"}
OpenCalls == {k \in DOMAIN calls : Open(k)}
FirstOpen(from) == {k \in OpenCalls : k >= from /\ \A j \in OpenCalls : j >= from => k <= j}

Tripped == runtimeError # {}

Stop == at' = AtIdle

(* AgentLoop.Run at its entry: what is open is dispatched, unless some of   *)
(* it awaits an approval.                                                  *)
RunAgain ==
  /\ at.pc = "idle" /\ ~Tripped
  /\ \A k \in OpenCalls : calls[k].state = "pending"
  /\ at' = [AtIdle EXCEPT !.pc = IF OpenCalls = {} THEN "turn" ELSE "judge"]
  /\ UNCHANGED <<installed, memory, calls, runtimeError, expired, guardRestarts>>

TimePasses ==
  /\ ~expired /\ Installed({"guard/timeout"})
  /\ expired' = TRUE
  /\ UNCHANGED <<installed, memory, calls, runtimeError, at, guardRestarts>>

(* The pre_projection hooks, all of which run before the loop looks: usage  *)
(* is counted from the log; the first check of the health guard, and of a   *)
(* timeout of zero seconds, is skipped.                                    *)
TurnGuardTrips(n, healthy) ==
  LET kind == installed[n].kind
  IN  \/ kind = "guard/timeout" /\ expired
      \/ kind = "guard/cost_budget" /\ Len(calls) > MaxTokens
      \/ kind = "guard/health" /\ memory[n].checks > 0 /\ ~healthy

PreProjectionHooks ==
  /\ at.pc = "turn"
  /\ \E healthy \in BOOLEAN :
       LET tripping == {n \in DOMAIN installed : TurnGuardTrips(n, healthy)}
       IN  /\ runtimeError' = runtimeError \cup tripping
           /\ at' = IF tripping = {} THEN [at EXCEPT !.pc = "provider"] ELSE AtIdle
  /\ memory' = [n \in DOMAIN installed |-> [memory[n] EXCEPT !.checks = 1]]
  /\ UNCHANGED <<installed, calls, expired, guardRestarts>>

(* A step of one or two calls, or the end of the turn.  The calls are of    *)
(* all the kinds that the strategies in place tell apart.                  *)
ClassesFor(kind) ==
  {class \in Classes : \/ class = "good"
                       \/ class = "bad" /\ kind \notin TurnKinds
                       \/ class = "other" /\ kind \in StrikeKinds
                       \/ class = "unsupported" /\ kind = "credential/proxy"}

NewCalls ==
  {NewCall(class) : class \in {c \in [DOMAIN installed -> Classes] :
                                 \A n \in DOMAIN installed : c[n] \in ClassesFor(installed[n].kind)}}

ProviderCalls ==
  /\ at.pc = "provider"
  /\ \/ Stop /\ UNCHANGED calls
     \/ \E new \in UNION {[1 .. n -> NewCalls] : n \in 1 .. 2} :
          /\ Len(calls) + Len(new) <= MaxToolCalls
          /\ calls' = calls \o new
          /\ at' = [AtIdle EXCEPT !.pc = "judge"]
  /\ UNCHANGED <<installed, memory, runtimeError, expired, guardRestarts>>

-----------------------------------------------------------------------------
(* dispatchPendingTools, first pass: Hooks.Invoke("pre_tool_use"), for each *)
(* open call and each handler in turn.                                      *)
Judging(k, n) == at.pc = "judging" /\ at.call = k /\ at.handler = n

StartJudging ==
  /\ at.pc = "judge"
  /\ \E k \in FirstOpen(at.call + 1) :
       /\ at' = [at EXCEPT !.pc = "judging", !.call = k, !.handler = 1]
       /\ calls' = [calls EXCEPT ![k].judged = @ + 1]
  /\ UNCHANGED <<installed, memory, runtimeError, expired, guardRestarts>>

ThenNext(n, judging) ==
  at' = IF n < Len(installed) THEN [judging EXCEPT !.handler = n + 1]
        ELSE [judging EXCEPT !.pc = "judge"]

Allow(n) == ThenNext(n, at)
Refuse(k, n) == ThenNext(n, [at EXCEPT !.refused = @ \cup {k}])
Ask(k, n) == ThenNext(n, [at EXCEPT !.asked = @ \cup {k}])

(* A handler panics.  invokeHookHandler recovers: the decision is lost, and *)
(* the turn fails only if the policy says so.                              *)
Panic(n) == IF Policy(n) = "fail_turn" THEN Stop ELSE Allow(n)

(* StrikeForgiven, the mutant, lets only a new process forget the strikes. *)
StrikeForgiven(strikes) == strikes
StrikeReset(strikes) == 0

Strike(k, n) ==
  /\ memory' = [memory EXCEPT ![n].strikes = @ + 1]
  /\ IF memory'[n].strikes < StrikeLimit
     THEN Refuse(k, n) /\ UNCHANGED runtimeError
     ELSE Panic(n) /\ runtimeError' = runtimeError \cup {n}

Good(n) ==
  /\ memory' = [memory EXCEPT ![n].strikes = StrikeReset(@)]
  /\ Allow(n) /\ UNCHANGED runtimeError

SandboxJudges(k, n) ==
  /\ Judging(k, n) /\ installed[n].kind \in Sandboxes
  /\ CASE calls[k].class[n] = "bad" -> Strike(k, n)
       [] calls[k].class[n] = "good" -> Good(n)
       [] OTHER -> Allow(n) /\ UNCHANGED <<memory, runtimeError>>
  /\ UNCHANGED <<installed, calls, expired, guardRestarts>>

CredentialProxyJudges(k, n) ==
  /\ Judging(k, n) /\ installed[n].kind = "credential/proxy"
  /\ CASE calls[k].class[n] = "bad" -> Strike(k, n)
       [] calls[k].class[n] = "good" -> Good(n)
       [] calls[k].class[n] = "unsupported" -> Refuse(k, n) /\ UNCHANGED <<memory, runtimeError>>
       [] calls[k].class[n] = "other" -> Allow(n) /\ UNCHANGED <<memory, runtimeError>>
  /\ UNCHANGED <<installed, calls, expired, guardRestarts>>

(* DenyByName, and HumanApproval where the human declines. *)
DenialJudges(k, n) ==
  /\ Judging(k, n) /\ installed[n].kind = "permission/deny"
  /\ IF calls[k].class[n] = "bad" THEN Refuse(k, n) ELSE Allow(n)
  /\ UNCHANGED <<installed, memory, calls, runtimeError, expired, guardRestarts>>

RequireApprovalJudges(k, n) ==
  /\ Judging(k, n) /\ installed[n].kind = "permission/approval"
  /\ IF calls[k].class[n] = "bad" THEN Ask(k, n) ELSE Allow(n)
  /\ UNCHANGED <<installed, memory, calls, runtimeError, expired, guardRestarts>>

(* RepetitionGuard counts, and gives no decision. *)
RepetitionGuardCounts(k, n) ==
  /\ Judging(k, n) /\ installed[n].kind = "guard/repetition"
  /\ memory' = [memory EXCEPT ![n].seen[calls[k].class[n]] = @ + 1]
  /\ runtimeError' = IF memory'[n].seen[calls[k].class[n]] >= MaxIdenticalCalls
                     THEN runtimeError \cup {n} ELSE runtimeError
  /\ Allow(n)
  /\ UNCHANGED <<installed, calls, expired, guardRestarts>>

TurnGuardStays(k, n) ==
  /\ Judging(k, n) /\ installed[n].kind \in TurnKinds
  /\ Allow(n)
  /\ UNCHANGED <<installed, memory, calls, runtimeError, expired, guardRestarts>>

(* A refusal goes before a request, which goes before what allows; one      *)
(* request holds the whole batch.  AskFirst, the mutant, asks for a call    *)
(* that was refused.                                                       *)
AskFirst == at.asked
ToAsk == at.asked \ at.refused

EndJudging ==
  /\ at.pc = "judge" /\ FirstOpen(at.call + 1) = {}
  /\ IF ToAsk = {}
     THEN at' = [at EXCEPT !.pc = "tools", !.call = 0] /\ UNCHANGED calls
     ELSE /\ calls' = [k \in DOMAIN calls |->
                         IF k \in ToAsk THEN [calls[k] EXCEPT !.state = "asked"] ELSE calls[k]]
          /\ Stop
  /\ UNCHANGED <<installed, memory, runtimeError, expired, guardRestarts>>

(* Second pass: each call runs or is refused, whatever its guards recorded  *)
(* in the meantime, and the post_tool_use hooks look at its result; that a  *)
(* tool fails matters to the repetition guard alone.                       *)
CountResult(n, failed, refused) ==
  [memory[n] EXCEPT !.failures = IF failed THEN @ + 1 ELSE 0,
                    !.rejections = IF refused THEN @ + 1 ELSE 0]

FinishCall ==
  /\ at.pc = "tools"
  /\ \E k \in FirstOpen(at.call + 1), failed \in BOOLEAN :
       LET refused == k \in at.refused
           repetition == {n \in DOMAIN installed : installed[n].kind = "guard/repetition"}
       IN  /\ refused => failed
           /\ failed => refused \/ repetition # {}
           /\ calls' = [calls EXCEPT ![k].failed = failed,
                                      ![k].state = IF refused THEN "refused" ELSE "executed"]
           /\ memory' = [n \in DOMAIN installed |->
                           IF n \in repetition THEN CountResult(n, failed, refused) ELSE memory[n]]
           /\ runtimeError' = runtimeError \cup
                {n \in repetition : \/ memory'[n].failures >= MaxConsecutiveFailures
                                    \/ memory'[n].rejections >= MaxConsecutiveRejections}
           /\ at' = [at EXCEPT !.call = k]
  /\ UNCHANGED <<installed, expired, guardRestarts>>

EndBatch ==
  /\ at.pc = "tools" /\ OpenCalls = {}
  /\ at' = IF Tripped THEN AtIdle ELSE [AtIdle EXCEPT !.pc = "turn"]
  /\ UNCHANGED <<installed, memory, calls, runtimeError, expired, guardRestarts>>

-----------------------------------------------------------------------------
(* ApproveToolUse and DenyToolUse: no hook sees the call or its result. *)
ResolveApproval(k) ==
  /\ at.pc = "idle" /\ calls[k].state = "asked"
  /\ \E state \in {"executed", "refused"} : calls' = [calls EXCEPT ![k].state = state]
  /\ UNCHANGED <<installed, memory, runtimeError, at, expired, guardRestarts>>

(* A new process installs the strategies anew: the counters are lost. *)
RestartProcess ==
  /\ at.pc = "idle" /\ guardRestarts < MaxGuardRestarts
  /\ guardRestarts' = guardRestarts + 1
  /\ memory' = Closures /\ expired' = FALSE
  /\ UNCHANGED <<installed, calls, runtimeError, at>>

GuardsNext ==
  \/ RunAgain \/ TimePasses \/ PreProjectionHooks \/ ProviderCalls
  \/ StartJudging \/ EndJudging \/ FinishCall \/ EndBatch \/ RestartProcess
  \/ \E k \in DOMAIN calls :
       \/ ResolveApproval(k)
       \/ \E n \in DOMAIN installed :
            \/ SandboxJudges(k, n) \/ CredentialProxyJudges(k, n) \/ DenialJudges(k, n) \/ RequireApprovalJudges(k, n)
            \/ RepetitionGuardCounts(k, n) \/ TurnGuardStays(k, n)

GuardsSpec == GuardsInit /\ [][GuardsNext]_guardsVars

-----------------------------------------------------------------------------
(* A call that a guard or a permission refuses never runs, through held     *)
(* batches, approvals and restarts; with one exception: a strike guard at   *)
(* its limit records the terminal error and panics, and where the panic is  *)
(* isolated (as asked, or because another strategy of its kind took its     *)
(* options away) the call has no decision against it, and runs.             *)
RefusedNeverRuns ==
  \A k \in DOMAIN calls, n \in DOMAIN installed :
    calls[k].state = "executed" =>
      /\ installed[n].kind = "permission/deny" => calls[k].class[n] # "bad"
      /\ installed[n].kind = "credential/proxy" => calls[k].class[n] # "unsupported"
      /\ installed[n].kind \in StrikeKinds /\ calls[k].class[n] = "bad" =>
           /\ n \in runtimeError
           /\ \/ installed[n].onError = "isolate"
              \/ \E m \in DOMAIN installed \ {n} : installed[m].kind = installed[n].kind

(* A strike guard ends the session only for refused calls in a row, and the *)
(* repetition guard for enough of the same or failed ones, as the log shows *)
(* them; but the calls of a batch held for an approval are judged anew when *)
(* the session resumes, and count again.                                   *)
InARow(n, from) ==
  LET concerned == {k \in from .. Len(calls) : calls[k].judged > 0 /\ calls[k].class[n] \in {"good", "bad"}}
  IN  {k \in concerned : \A j \in concerned : j <= k => calls[j].class[n] = "bad"}

TripsAreEarned ==
  \A n \in runtimeError :
    \/ \E k \in DOMAIN calls : calls[k].judged > 1
    \/ installed[n].kind \in TurnKinds
    \/ /\ installed[n].kind \in StrikeKinds
       /\ \E k \in DOMAIN calls : Cardinality(InARow(n, k)) >= StrikeLimit
    \/ /\ installed[n].kind = "guard/repetition"
       /\ \/ \E class \in Classes :
               Cardinality({k \in DOMAIN calls : calls[k].class[n] = class}) >= MaxIdenticalCalls
          \/ Cardinality({k \in DOMAIN calls : calls[k].failed}) >= MaxConsecutiveFailures
          \/ Cardinality({k \in DOMAIN calls : calls[k].failed /\ calls[k].state = "refused"}) >=
                MaxConsecutiveRejections
=============================================================================
