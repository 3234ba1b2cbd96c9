---------------------------- MODULE GuardsProofs ----------------------------
(***************************************************************************)
(* Of the guards and permissions, for every manifest: a call that one of   *)
(* them refuses never runs, and a guard ends a session only for what the   *)
(* log shows.  The invariants follow a batch through its two passes, and   *)
(* the counters in the closures through what they have counted.            *)
(***************************************************************************)
EXTENDS Guards, FiniteSetTheorems, SequenceTheorems, WellFoundedInduction, TLAPS

Memory == [strikes : Nat, seen : [Classes -> Nat], failures : Nat, rejections : Nat, checks : Nat]

Call == [class : [DOMAIN installed -> Classes],
         state : {"pending", "asked", "executed", "refused"}, judged : Nat, failed : BOOLEAN]

At == [pc : {"idle", "turn", "provider", "judge", "judging", "tools"}, call : Nat, handler : Nat,
       refused : SUBSET Nat, asked : SUBSET Nat]

GuardsTypes ==
  /\ installed \in Manifests
  /\ memory \in [DOMAIN installed -> Memory]
  /\ calls \in Seq(Call)
  /\ runtimeError \in SUBSET DOMAIN installed
  /\ at \in At

-----------------------------------------------------------------------------
(* Strategy n has nothing against call k, or its panic was isolated. *)
Lost(n) ==
  /\ n \in runtimeError
  /\ \/ installed[n].onError = "isolate"
     \/ \E m \in DOMAIN installed \ {n} : installed[m].kind = installed[n].kind

MayRun(k, n) ==
  /\ installed[n].kind = "permission/deny" => calls[k].class[n] # "bad"
  /\ installed[n].kind = "credential/proxy" => calls[k].class[n] # "unsupported"
  /\ installed[n].kind \in StrikeKinds /\ calls[k].class[n] = "bad" => Lost(n)

(* In the batch under way, strategy n has judged call k. *)
JudgedBy(k, n) ==
  \/ at.pc = "judging" /\ (k < at.call \/ (k = at.call /\ n < at.handler))
  \/ at.pc = "judge" /\ k <= at.call
  \/ at.pc = "tools"

BatchInv ==
  /\ at.pc = "judging" => at.call \in OpenCalls /\ at.handler \in DOMAIN installed
  /\ at.pc \in {"judge", "judging"} => \A k \in at.asked : k \in OpenCalls /\ k <= at.call

(* What a strategy has judged and may not run is to be refused ... *)
DecisionsInv ==
  \A k \in OpenCalls, n \in DOMAIN installed : JudgedBy(k, n) => k \in at.refused \/ MayRun(k, n)

(* ... and is neither held for an approval nor run. *)
ResolvedInv ==
  \A k \in DOMAIN calls, n \in DOMAIN installed :
    calls[k].state \in {"asked", "executed"} => MayRun(k, n)

-----------------------------------------------------------------------------
(* Calls are judged in the order of the log. *)
Judged == {k \in DOMAIN calls : calls[k].judged > 0}

Rejudged == \E k \in DOMAIN calls : calls[k].judged > 1

OrderInv ==
  /\ \A k \in DOMAIN calls \ Judged : calls[k].state = "pending"
  /\ \A k \in Judged : \A j \in 1 .. k : j \in Judged
  /\ at.pc \in {"judge", "judging"} => \A k \in OpenCalls : k <= at.call => k \in Judged
  /\ at.pc = "judging" => Rejudged \/ \A k \in Judged : k <= at.call
  /\ at.pc = "tools" => OpenCalls \subseteq Judged

(* What strategy n has seen, what its strikes are about, and the last of    *)
(* that, which it refused.                                                 *)
Passed(n) == {k \in Judged : ~(at.pc = "judging" /\ k = at.call /\ at.handler <= n)}
Concerning(n) == {k \in Passed(n) : calls[k].class[n] \in {"good", "bad"}}
LastBad(n) == {k \in Concerning(n) : \A j \in Concerning(n) : k <= j => calls[j].class[n] = "bad"}

(* A counter is at most what the log shows, until a batch is judged again.  *)
(* Where fail_turn cuts the judging short, the session has ended.          *)
StrikesInv ==
  Rejudged \/ (at.pc = "idle" /\ Tripped) \/
    \A n \in DOMAIN installed :
      installed[n].kind \in StrikeKinds => memory[n].strikes <= Cardinality(LastBad(n))

Like(n, class) == {k \in Passed(n) : calls[k].class[n] = class}

SeenInv ==
  Rejudged \/ \A n \in DOMAIN installed, class \in Classes :
                memory[n].seen[class] <= Cardinality(Like(n, class))

Failed == {k \in DOMAIN calls : calls[k].failed}
FailedRefused == {k \in DOMAIN calls : calls[k].failed /\ calls[k].state = "refused"}

ResultsInv ==
  /\ \A k \in OpenCalls : ~calls[k].failed
  /\ \A n \in DOMAIN installed : /\ memory[n].failures <= Cardinality(Failed)
                                 /\ memory[n].rejections <= Cardinality(FailedRefused)

RefusalInv == BatchInv /\ DecisionsInv /\ ResolvedInv
CountersInv == OrderInv /\ StrikesInv /\ SeenInv /\ ResultsInv /\ TripsAreEarned

-----------------------------------------------------------------------------
(* A set of naturals has a least member: the segments up to its members are *)
(* well-founded by inclusion.                                              *)
LEMMA LeastNatural ==
  ASSUME NEW T \in SUBSET Nat, NEW t \in T
  PROVE  \E x \in T : \A y \in T : x <= y
<1> DEFINE R == StrictSubsetOrdering(0 .. t)
           Segments == {0 .. x : x \in {y \in T : y <= t}}
<1>1. IsWellFoundedOn(R, SUBSET (0 .. t))
  <2>1. IsFiniteSet(0 .. t)
    BY FS_Interval
  <2>2. FiniteSubsetsOf(0 .. t) = SUBSET (0 .. t)
    BY <2>1, FS_FiniteSubsetsOfFinite
  <2> QED
    BY <2>2, FS_StrictSubsetOrderingWellFounded
<1>2. Segments \subseteq SUBSET (0 .. t) /\ 0 .. t \in Segments
  OBVIOUS
<1> HIDE DEF R
<1>3. \E s \in Segments : \A r \in Segments : <<r, s>> \notin R
  BY <1>1, <1>2, WFMin
<1>4. PICK x \in T : x <= t /\ \A r \in Segments : <<r, 0 .. x>> \notin R
  BY <1>3
<1>5. ASSUME NEW y \in T, y < x
      PROVE  FALSE
  <2>1. 0 .. y \in Segments /\ 0 .. x \in Segments
    BY <1>4, <1>5
  <2>2. 0 .. y \subseteq 0 .. x /\ 0 .. y # 0 .. x
    BY <1>5
  <2>3. <<0 .. y, 0 .. x>> \in R
    BY <1>2, <2>1, <2>2 DEF R, StrictSubsetOrdering
  <2> QED
    BY <1>4, <2>1, <2>3
<1> QED
  BY <1>5

(* A manifest is a sequence of strategies, of known kinds. *)
LEMMA InstalledTypes ==
  ASSUME installed \in Manifests
  PROVE  /\ installed \in Seq(Strategy) /\ Len(installed) \in Nat \ {0}
         /\ DOMAIN installed = 1 .. Len(installed)
         /\ \A n \in DOMAIN installed :
              /\ n \in Nat /\ installed[n].onError \in {"isolate", "fail_turn"}
              /\ installed[n].kind \in StrikeKinds \cup CallKinds \cup TurnKinds
<1>1. installed \in Seq(Strategy) /\ installed # <<>>
  BY GuardsAssumption
<1>2. Len(installed) \in Nat /\ DOMAIN installed = 1 .. Len(installed)
  BY <1>1
<1>3. Len(installed) # 0
  BY <1>1, <1>2, EmptySeq
<1>4. ASSUME NEW n \in DOMAIN installed
      PROVE  /\ n \in Nat /\ installed[n].onError \in {"isolate", "fail_turn"}
             /\ installed[n].kind \in StrikeKinds \cup CallKinds \cup TurnKinds
  <2>1. installed[n] \in Strategy /\ n \in Nat
    BY <1>1, <1>2
  <2> QED
    BY <2>1 DEF Strategy
<1> QED
  BY <1>1, <1>2, <1>3, <1>4

(* The calls of the log, one by one. *)
LEMMA CallsTypes ==
  ASSUME GuardsTypes
  PROVE  /\ Len(calls) \in Nat /\ DOMAIN calls = 1 .. Len(calls) /\ calls \in [DOMAIN calls -> Call]
         /\ \A k \in DOMAIN calls :
              /\ k \in Nat /\ k > 0 /\ calls[k] \in Call
              /\ calls[k].judged \in Nat /\ calls[k].failed \in BOOLEAN
              /\ calls[k].state \in {"pending", "asked", "executed", "refused"}
              /\ \A n \in DOMAIN installed : calls[k].class[n] \in Classes
<1>1. /\ Len(calls) \in Nat /\ DOMAIN calls = 1 .. Len(calls) /\ calls \in [DOMAIN calls -> Call]
      /\ \A k \in DOMAIN calls : calls[k] \in Call /\ k \in Nat /\ k > 0
  BY DEF GuardsTypes
<1>2. ASSUME NEW k \in DOMAIN calls
      PROVE  /\ calls[k].judged \in Nat /\ calls[k].failed \in BOOLEAN
             /\ calls[k].state \in {"pending", "asked", "executed", "refused"}
             /\ \A n \in DOMAIN installed : calls[k].class[n] \in Classes
  BY <1>1 DEF Call
<1> QED
  BY <1>1, <1>2

LEMMA MemoryTypes ==
  ASSUME GuardsTypes, NEW n \in DOMAIN installed
  PROVE  /\ memory[n] \in Memory
         /\ memory[n].strikes \in Nat /\ memory[n].seen \in [Classes -> Nat]
         /\ memory[n].failures \in Nat /\ memory[n].rejections \in Nat
BY DEF GuardsTypes, Memory

LEMMA AtIdleTypes == AtIdle \in At /\ \A pc \in {"turn", "judge"} : [AtIdle EXCEPT !.pc = pc] \in At
BY DEF AtIdle, At

LEMMA ClosuresTypes == Closures \in [DOMAIN installed -> Memory]
<1>1. NoMemory \in Memory
  BY DEF NoMemory, Memory
<1> QED
  BY <1>1 DEF Closures

(* The calls of a step are new: nobody has judged them. *)
LEMMA NewCallsTypes ==
  ASSUME NEW c \in NewCalls
  PROVE  c \in Call /\ c.state = "pending" /\ c.judged = 0 /\ c.failed = FALSE
<1>1. PICK class \in [DOMAIN installed -> Classes] : c = NewCall(class)
  BY DEF NewCalls
<1> QED
  BY <1>1 DEF NewCall, Call

-----------------------------------------------------------------------------
(* What a handler does to the batch: it gives its decision to the next, or  *)
(* it ends the session.                                                    *)
HandlerStep(k, n) ==
  /\ Judging(k, n) /\ UNCHANGED <<installed, calls>>
  /\ runtimeError' \in {runtimeError, runtimeError \cup {n}}
  /\ \/ at' = AtIdle /\ n \in runtimeError'
     \/ \E refused \in {at.refused, at.refused \cup {k}}, asked \in {at.asked, at.asked \cup {k}} :
          /\ ThenNext(n, [at EXCEPT !.refused = refused, !.asked = asked])
          /\ k \in refused \/ MayRun(k, n)'

HandlerActs(k, n) ==
  \/ SandboxJudges(k, n) \/ CredentialProxyJudges(k, n) \/ DenialJudges(k, n) \/ RequireApprovalJudges(k, n)
  \/ RepetitionGuardCounts(k, n) \/ TurnGuardStays(k, n)

LEMMA DecisionUpdates ==
  ASSUME GuardsTypes, NEW k, NEW n
  PROVE  /\ Allow(n) => ThenNext(n, [at EXCEPT !.refused = at.refused, !.asked = at.asked])
         /\ Refuse(k, n) => ThenNext(n, [at EXCEPT !.refused = at.refused \cup {k}, !.asked = at.asked])
         /\ Ask(k, n) => ThenNext(n, [at EXCEPT !.refused = at.refused, !.asked = at.asked \cup {k}])
<1> USE DEF GuardsTypes, At
<1>1. at = [at EXCEPT !.refused = at.refused, !.asked = at.asked]
  OBVIOUS
<1>2. [at EXCEPT !.refused = @ \cup {k}] = [at EXCEPT !.refused = at.refused \cup {k}, !.asked = at.asked]
  OBVIOUS
<1>3. [at EXCEPT !.asked = @ \cup {k}] = [at EXCEPT !.refused = at.refused, !.asked = at.asked \cup {k}]
  OBVIOUS
<1> QED
  BY <1>1, <1>2, <1>3 DEF Allow, Refuse, Ask

LEMMA KindsApart ==
  /\ Sandboxes \subseteq StrikeKinds /\ "credential/proxy" \in StrikeKinds
  /\ StrikeKinds \cap CallKinds = {} /\ StrikeKinds \cap TurnKinds = {} /\ CallKinds \cap TurnKinds = {}
  /\ CallKinds = {"permission/deny", "permission/approval", "guard/repetition"}
  /\ "credential/proxy" \notin Sandboxes
BY DEF Sandboxes, StrikeKinds, CallKinds, TurnKinds

(* A strike refuses the call, or ends the session, or is lost. *)
LEMMA StrikeSteps ==
  ASSUME GuardsTypes, NEW k \in DOMAIN calls, NEW n \in DOMAIN installed,
         Judging(k, n), Strike(k, n), UNCHANGED <<installed, calls>>,
         installed[n].kind \in StrikeKinds, calls[k].class[n] = "bad"
  PROVE  HandlerStep(k, n)
<1>1. CASE Refuse(k, n) /\ UNCHANGED runtimeError
  <2>1. ThenNext(n, [at EXCEPT !.refused = at.refused \cup {k}, !.asked = at.asked])
    BY <1>1, DecisionUpdates
  <2> QED
    BY <1>1, <2>1 DEF HandlerStep
<1>2. CASE Panic(n) /\ runtimeError' = runtimeError \cup {n} /\ Policy(n) = "fail_turn"
  BY <1>2 DEF Panic, Stop, HandlerStep
<1>3. CASE Panic(n) /\ runtimeError' = runtimeError \cup {n} /\ Policy(n) # "fail_turn"
  <2>1. ThenNext(n, [at EXCEPT !.refused = at.refused, !.asked = at.asked])
    BY <1>3, DecisionUpdates DEF Panic
  <2>2. \/ installed[n].onError = "isolate"
        \/ \E m \in DOMAIN installed \ {n} : installed[m].kind = installed[n].kind
    <3>1. installed[n].onError \in {"isolate", "fail_turn"}
      BY InstalledTypes DEF GuardsTypes
    <3> QED
      BY <1>3, <3>1, Zenon DEF Policy
  <2>3. Lost(n)'
    BY <1>3, <2>2 DEF Lost
  <2>4. MayRun(k, n)'
    BY <2>3, KindsApart DEF MayRun
  <2> QED
    BY <1>3, <2>1, <2>4 DEF HandlerStep
<1> QED
  BY <1>1, <1>2, <1>3, Zenon DEF Strike

(* Every handler is such a step (invokeHookHandler, dispatchPendingTools). *)
LEMMA HandlerSteps ==
  ASSUME GuardsTypes, NEW k \in DOMAIN calls, NEW n \in DOMAIN installed, HandlerActs(k, n)
  PROVE  HandlerStep(k, n)
<1>0. calls[k].class[n] \in Classes
  BY CallsTypes
<1>1. ASSUME Judging(k, n), UNCHANGED <<installed, calls>>,
             runtimeError' \in {runtimeError, runtimeError \cup {n}}, Allow(n), MayRun(k, n)'
      PROVE  HandlerStep(k, n)
  <2>1. ThenNext(n, [at EXCEPT !.refused = at.refused, !.asked = at.asked])
    BY <1>1, DecisionUpdates
  <2> QED
    BY <1>1, <2>1 DEF HandlerStep
<1>2. ASSUME Judging(k, n), UNCHANGED <<installed, calls>>, runtimeError' = runtimeError, Refuse(k, n)
      PROVE  HandlerStep(k, n)
  <2>1. ThenNext(n, [at EXCEPT !.refused = at.refused \cup {k}, !.asked = at.asked])
    BY <1>2, DecisionUpdates
  <2> QED
    BY <1>2, <2>1 DEF HandlerStep
<1>3. ASSUME Judging(k, n), UNCHANGED <<installed, calls>>, runtimeError' = runtimeError, Ask(k, n),
             MayRun(k, n)'
      PROVE  HandlerStep(k, n)
  <2>1. ThenNext(n, [at EXCEPT !.refused = at.refused, !.asked = at.asked \cup {k}])
    BY <1>3, DecisionUpdates
  <2> QED
    BY <1>3, <2>1 DEF HandlerStep
<1>4. ASSUME installed[n].kind \notin StrikeKinds \cup {"permission/deny"}, UNCHANGED <<installed, calls>>
      PROVE  MayRun(k, n)'
  BY <1>4, KindsApart DEF MayRun
<1>5. CASE SandboxJudges(k, n)
  <2>0. Judging(k, n) /\ installed[n].kind \in Sandboxes /\ UNCHANGED <<installed, calls>>
    BY <1>5 DEF SandboxJudges
  <2>1. CASE calls[k].class[n] = "bad"
    <3>1. Strike(k, n)
      BY <1>5, <2>1 DEF SandboxJudges
    <3> QED
      BY <2>0, <2>1, <3>1, StrikeSteps, KindsApart
  <2>2. CASE calls[k].class[n] # "bad"
    <3>1. Allow(n) /\ runtimeError' = runtimeError
      BY <1>0, <1>5, <2>2 DEF SandboxJudges, Good, Classes
    <3>2. MayRun(k, n)'
      BY <2>0, <2>2 DEF MayRun, Sandboxes
    <3> QED
      BY <1>1, <2>0, <3>1, <3>2
  <2> QED
    BY <2>1, <2>2
<1>6. CASE CredentialProxyJudges(k, n)
  <2>0. Judging(k, n) /\ installed[n].kind = "credential/proxy" /\ UNCHANGED <<installed, calls>>
    BY <1>6 DEF CredentialProxyJudges
  <2>1. CASE calls[k].class[n] = "bad"
    <3>1. Strike(k, n)
      BY <1>6, <2>1 DEF CredentialProxyJudges
    <3> QED
      BY <2>0, <2>1, <3>1, StrikeSteps, KindsApart
  <2>2. CASE calls[k].class[n] = "good"
    <3>1. Allow(n) /\ runtimeError' = runtimeError
      BY <1>6, <2>2 DEF CredentialProxyJudges, Good
    <3>2. MayRun(k, n)'
      BY <2>0, <2>2 DEF MayRun
    <3> QED
      BY <1>1, <2>0, <3>1, <3>2
  <2>3. CASE calls[k].class[n] = "unsupported"
    <3>1. Refuse(k, n) /\ runtimeError' = runtimeError
      BY <1>6, <2>3 DEF CredentialProxyJudges
    <3> QED
      BY <1>2, <2>0, <3>1
  <2>4. CASE calls[k].class[n] = "other"
    <3>1. Allow(n) /\ runtimeError' = runtimeError
      BY <1>6, <2>4 DEF CredentialProxyJudges
    <3>2. MayRun(k, n)'
      BY <2>0, <2>4 DEF MayRun
    <3> QED
      BY <1>1, <2>0, <3>1, <3>2
  <2> QED
    BY <1>0, <2>1, <2>2, <2>3, <2>4 DEF Classes
<1>7. CASE DenialJudges(k, n)
  <2>0. /\ Judging(k, n) /\ installed[n].kind = "permission/deny"
        /\ UNCHANGED <<installed, calls>> /\ runtimeError' = runtimeError
    BY <1>7 DEF DenialJudges
  <2>1. CASE calls[k].class[n] = "bad"
    BY <1>2, <1>7, <2>0, <2>1 DEF DenialJudges
  <2>2. CASE calls[k].class[n] # "bad"
    <3>1. Allow(n)
      BY <1>7, <2>2 DEF DenialJudges
    <3>2. MayRun(k, n)'
      BY <2>0, <2>2 DEF MayRun
    <3> QED
      BY <1>1, <2>0, <3>1, <3>2
  <2> QED
    BY <2>1, <2>2
<1>8. CASE RequireApprovalJudges(k, n)
  <2>0. /\ Judging(k, n) /\ installed[n].kind = "permission/approval"
        /\ UNCHANGED <<installed, calls>> /\ runtimeError' = runtimeError
    BY <1>8 DEF RequireApprovalJudges
  <2>1. MayRun(k, n)'
    BY <1>4, <2>0, KindsApart
  <2>2. Ask(k, n) \/ Allow(n)
    BY <1>8 DEF RequireApprovalJudges
  <2> QED
    BY <1>1, <1>3, <2>0, <2>1, <2>2
<1>9. CASE RepetitionGuardCounts(k, n)
  <2>0. /\ Judging(k, n) /\ installed[n].kind = "guard/repetition"
        /\ UNCHANGED <<installed, calls>> /\ runtimeError' \in {runtimeError, runtimeError \cup {n}}
        /\ Allow(n)
    BY <1>9 DEF RepetitionGuardCounts
  <2>1. MayRun(k, n)'
    BY <1>4, <2>0, KindsApart
  <2> QED
    BY <1>1, <2>0, <2>1
<1>10. CASE TurnGuardStays(k, n)
  <2>0. /\ Judging(k, n) /\ installed[n].kind \in TurnKinds
        /\ UNCHANGED <<installed, calls>> /\ runtimeError' = runtimeError /\ Allow(n)
    BY <1>10 DEF TurnGuardStays
  <2>1. MayRun(k, n)'
    BY <1>4, <2>0, KindsApart
  <2> QED
    BY <1>1, <2>0, <2>1
<1> QED
  BY <1>5, <1>6, <1>7, <1>8, <1>9, <1>10 DEF HandlerActs

(* The loop goes on with the next handler, or with the next call. *)
LEMMA HandlerLoop ==
  ASSUME GuardsTypes, NEW k \in DOMAIN calls, NEW n \in DOMAIN installed, HandlerStep(k, n)
  PROVE  /\ at.pc = "judging" /\ at.call = k /\ at.handler = n
         /\ at' \in At
         /\ \/ at' = AtIdle /\ n \in runtimeError'
            \/ /\ at'.call = k
               /\ \/ n < Len(installed) /\ at'.pc = "judging" /\ at'.handler = n + 1
                  \/ n = Len(installed) /\ at'.pc = "judge" /\ at'.handler = n
               /\ at.refused \subseteq at'.refused /\ at'.asked \subseteq at.asked \cup {k}
               /\ k \in at'.refused \/ MayRun(k, n)'
<1>0. /\ n \in Nat /\ n <= Len(installed) /\ Len(installed) \in Nat /\ k \in Nat
  BY InstalledTypes, CallsTypes DEF GuardsTypes
<1>1. at.pc = "judging" /\ at.call = k /\ at.handler = n /\ at \in At
  BY DEF HandlerStep, Judging, GuardsTypes
<1>2. CASE at' = AtIdle /\ n \in runtimeError'
  BY <1>1, <1>2, AtIdleTypes
<1>3. ASSUME NEW refused \in {at.refused, at.refused \cup {k}},
             NEW asked \in {at.asked, at.asked \cup {k}},
             ThenNext(n, [at EXCEPT !.refused = refused, !.asked = asked]),
             k \in refused \/ MayRun(k, n)'
      PROVE  /\ at' \in At
             /\ at'.call = k
             /\ \/ n < Len(installed) /\ at'.pc = "judging" /\ at'.handler = n + 1
                \/ n = Len(installed) /\ at'.pc = "judge" /\ at'.handler = n
             /\ at'.refused = refused /\ at'.asked = asked
  <2> DEFINE judging == [at EXCEPT !.refused = refused, !.asked = asked]
  <2>1. /\ judging \in At /\ judging.call = k /\ judging.handler = n /\ judging.pc = "judging"
        /\ judging.refused = refused /\ judging.asked = asked
    <3>1. refused \in SUBSET Nat /\ asked \in SUBSET Nat
      BY <1>0, <1>1 DEF At
    <3> QED
      BY <1>1, <3>1 DEF At
  <2> HIDE DEF judging
  <2>2. CASE n < Len(installed)
    <3>1. at' = [judging EXCEPT !.handler = n + 1]
      BY <1>3, <2>2 DEF ThenNext, judging
    <3> QED
      BY <1>0, <2>1, <2>2, <3>1 DEF At
  <2>3. CASE ~(n < Len(installed))
    <3>1. at' = [judging EXCEPT !.pc = "judge"]
      BY <1>3, <2>3 DEF ThenNext, judging
    <3> QED
      BY <1>0, <2>1, <2>3, <3>1 DEF At
  <2> QED
    BY <2>2, <2>3
<1> QED
  BY <1>1, <1>2, <1>3 DEF HandlerStep

-----------------------------------------------------------------------------
(* What a handler counts, and when it records the terminal error. *)
CountingStep(k, n) ==
  LET kind == installed[n].kind
      class == calls[k].class[n]
  IN  \/ /\ kind \in StrikeKinds /\ class = "bad"
         /\ memory' = [memory EXCEPT ![n].strikes = memory[n].strikes + 1]
         /\ runtimeError' = IF memory[n].strikes + 1 < StrikeLimit THEN runtimeError
                            ELSE runtimeError \cup {n}
      \/ /\ kind \in StrikeKinds /\ class = "good"
         /\ memory' = [memory EXCEPT ![n].strikes = 0] /\ runtimeError' = runtimeError
      \/ /\ kind = "guard/repetition"
         /\ memory' = [memory EXCEPT ![n].seen[class] = memory[n].seen[class] + 1]
         /\ runtimeError' = IF memory[n].seen[class] + 1 >= MaxIdenticalCalls
                            THEN runtimeError \cup {n} ELSE runtimeError
      \/ /\ kind \in StrikeKinds => class \in {"other", "unsupported"}
         /\ kind # "guard/repetition"
         /\ UNCHANGED <<memory, runtimeError>>

LEMMA CountingSteps ==
  ASSUME GuardsTypes, NEW k \in DOMAIN calls, NEW n \in DOMAIN installed, HandlerActs(k, n)
  PROVE  CountingStep(k, n)
<1>0. /\ calls[k].class[n] \in Classes
      /\ memory[n].strikes \in Nat /\ memory[n].seen \in [Classes -> Nat] /\ memory[n] \in Memory
      /\ n \in DOMAIN memory
  BY CallsTypes, MemoryTypes DEF GuardsTypes
<1>1. ASSUME Strike(k, n)
      PROVE  /\ memory' = [memory EXCEPT ![n].strikes = memory[n].strikes + 1]
             /\ runtimeError' = IF memory[n].strikes + 1 < StrikeLimit THEN runtimeError
                                ELSE runtimeError \cup {n}
  <2>1. memory' = [memory EXCEPT ![n].strikes = memory[n].strikes + 1]
    BY <1>1 DEF Strike
  <2>2. memory'[n].strikes = memory[n].strikes + 1
    BY <1>0, <2>1 DEF Memory
  <2> QED
    BY <1>1, <2>1, <2>2, Zenon DEF Strike
<1>2. CASE SandboxJudges(k, n) \/ CredentialProxyJudges(k, n)
  <2>0. installed[n].kind \in StrikeKinds /\ installed[n].kind # "guard/repetition"
    BY <1>2, KindsApart DEF SandboxJudges, CredentialProxyJudges
  <2>1. CASE calls[k].class[n] = "bad"
    <3>1. Strike(k, n)
      BY <1>2, <2>1 DEF SandboxJudges, CredentialProxyJudges
    <3> QED
      BY <1>1, <2>0, <2>1, <3>1 DEF CountingStep
  <2>2. CASE calls[k].class[n] = "good"
    <3>1. memory' = [memory EXCEPT ![n].strikes = 0] /\ runtimeError' = runtimeError
      BY <1>2, <2>2 DEF SandboxJudges, CredentialProxyJudges, Good, StrikeReset
    <3> QED
      BY <2>0, <2>2, <3>1 DEF CountingStep
  <2>3. CASE calls[k].class[n] \in {"other", "unsupported"}
    <3>1. UNCHANGED <<memory, runtimeError>>
      BY <1>2, <2>3 DEF SandboxJudges, CredentialProxyJudges
    <3> QED
      BY <2>0, <2>3, <3>1 DEF CountingStep
  <2> QED
    BY <1>0, <2>1, <2>2, <2>3 DEF Classes
<1>3. CASE DenialJudges(k, n) \/ RequireApprovalJudges(k, n) \/ TurnGuardStays(k, n)
  <2>1. installed[n].kind \notin StrikeKinds /\ installed[n].kind # "guard/repetition"
    BY <1>3, KindsApart DEF DenialJudges, RequireApprovalJudges, TurnGuardStays
  <2>2. UNCHANGED <<memory, runtimeError>>
    BY <1>3 DEF DenialJudges, RequireApprovalJudges, TurnGuardStays
  <2> QED
    BY <2>1, <2>2 DEF CountingStep
<1>4. CASE RepetitionGuardCounts(k, n)
  <2> DEFINE class == calls[k].class[n]
  <2>1. /\ installed[n].kind = "guard/repetition"
        /\ memory' = [memory EXCEPT ![n].seen[class] = memory[n].seen[class] + 1]
        /\ runtimeError' = IF memory'[n].seen[class] >= MaxIdenticalCalls
                           THEN runtimeError \cup {n} ELSE runtimeError
    BY <1>4 DEF RepetitionGuardCounts
  <2>2. memory'[n].seen[class] = memory[n].seen[class] + 1
    BY <1>0, <2>1 DEF Memory
  <2> QED
    BY <2>1, <2>2 DEF CountingStep
<1> QED
  BY <1>2, <1>3, <1>4 DEF HandlerActs

(* The counters after the step, one by one. *)
LEMMA CountingTypes ==
  ASSUME GuardsTypes, NEW k \in DOMAIN calls, NEW n \in DOMAIN installed, CountingStep(k, n)
  PROVE  /\ memory' \in [DOMAIN installed -> Memory]
         /\ runtimeError' \in {runtimeError, runtimeError \cup {n}}
         /\ \A m \in DOMAIN installed \ {n} : memory'[m] = memory[m]
         /\ memory'[n].failures = memory[n].failures /\ memory'[n].rejections = memory[n].rejections
         /\ \/ memory'[n].strikes = memory[n].strikes
            \/ /\ installed[n].kind \in StrikeKinds /\ calls[k].class[n] = "bad"
               /\ memory'[n].strikes = memory[n].strikes + 1
            \/ memory'[n].strikes = 0
         /\ installed[n].kind \in StrikeKinds /\ calls[k].class[n] = "good" => memory'[n].strikes = 0
         /\ installed[n].kind \in StrikeKinds /\ calls[k].class[n] \in {"other", "unsupported"} =>
              memory'[n].strikes = memory[n].strikes
         /\ \A class \in Classes :
              \/ memory'[n].seen[class] = memory[n].seen[class]
              \/ /\ installed[n].kind = "guard/repetition" /\ class = calls[k].class[n]
                 /\ memory'[n].seen[class] = memory[n].seen[class] + 1
         /\ n \in runtimeError' \ runtimeError =>
              \/ /\ installed[n].kind \in StrikeKinds /\ calls[k].class[n] = "bad"
                 /\ memory'[n].strikes = memory[n].strikes + 1
                 /\ memory'[n].strikes >= StrikeLimit
              \/ /\ installed[n].kind = "guard/repetition"
                 /\ memory'[n].seen[calls[k].class[n]] >= MaxIdenticalCalls
<1>0. /\ calls[k].class[n] \in Classes /\ memory[n] \in Memory
      /\ memory[n].strikes \in Nat /\ memory[n].seen \in [Classes -> Nat]
      /\ memory \in [DOMAIN installed -> Memory] /\ StrikeLimit \in Nat /\ MaxIdenticalCalls \in Nat
  BY CallsTypes, MemoryTypes, GuardsAssumption DEF GuardsTypes
<1>a. installed[n].kind = "guard/repetition" => installed[n].kind \notin StrikeKinds
  BY KindsApart
<1>1. ASSUME NEW s \in Nat, memory' = [memory EXCEPT ![n].strikes = s]
      PROVE  /\ memory' \in [DOMAIN installed -> Memory]
             /\ \A m \in DOMAIN installed \ {n} : memory'[m] = memory[m]
             /\ memory'[n].failures = memory[n].failures
             /\ memory'[n].rejections = memory[n].rejections
             /\ memory'[n].seen = memory[n].seen /\ memory'[n].strikes = s
  BY <1>0, <1>1 DEF Memory
<1>2. CASE /\ installed[n].kind \in StrikeKinds /\ calls[k].class[n] = "bad"
           /\ memory' = [memory EXCEPT ![n].strikes = memory[n].strikes + 1]
           /\ runtimeError' = IF memory[n].strikes + 1 < StrikeLimit THEN runtimeError
                              ELSE runtimeError \cup {n}
  <2>0. memory[n].strikes + 1 \in Nat
    BY <1>0
  <2>1. /\ memory' \in [DOMAIN installed -> Memory]
        /\ \A m \in DOMAIN installed \ {n} : memory'[m] = memory[m]
        /\ memory'[n].failures = memory[n].failures
        /\ memory'[n].rejections = memory[n].rejections
        /\ memory'[n].seen = memory[n].seen /\ memory'[n].strikes = memory[n].strikes + 1
    BY <1>1, <1>2, <2>0
  <2>2. n \in runtimeError' \ runtimeError => memory'[n].strikes >= StrikeLimit
    BY <1>0, <1>2, <2>1
  <2> QED
    BY <1>2, <2>1, <2>2, Zenon
<1>3. CASE /\ installed[n].kind \in StrikeKinds /\ calls[k].class[n] = "good"
           /\ memory' = [memory EXCEPT ![n].strikes = 0] /\ runtimeError' = runtimeError
  <2>1. /\ memory' \in [DOMAIN installed -> Memory]
        /\ \A m \in DOMAIN installed \ {n} : memory'[m] = memory[m]
        /\ memory'[n].failures = memory[n].failures
        /\ memory'[n].rejections = memory[n].rejections
        /\ memory'[n].seen = memory[n].seen /\ memory'[n].strikes = 0
    BY <1>1, <1>3
  <2> QED
    BY <1>3, <2>1
<1>4. CASE /\ installed[n].kind = "guard/repetition"
           /\ memory' = [memory EXCEPT ![n].seen[calls[k].class[n]] = memory[n].seen[calls[k].class[n]] + 1]
           /\ runtimeError' = IF memory[n].seen[calls[k].class[n]] + 1 >= MaxIdenticalCalls
                              THEN runtimeError \cup {n} ELSE runtimeError
  <2>1. memory' \in [DOMAIN installed -> Memory]
    BY <1>0, <1>4 DEF Memory
  <2>2. /\ \A m \in DOMAIN installed \ {n} : memory'[m] = memory[m]
        /\ memory'[n].failures = memory[n].failures
        /\ memory'[n].rejections = memory[n].rejections
        /\ memory'[n].strikes = memory[n].strikes
        /\ memory'[n].seen[calls[k].class[n]] = memory[n].seen[calls[k].class[n]] + 1
        /\ \A class \in Classes \ {calls[k].class[n]} : memory'[n].seen[class] = memory[n].seen[class]
    BY <1>0, <1>4 DEF Memory
  <2>3. n \in runtimeError' \ runtimeError =>
          memory'[n].seen[calls[k].class[n]] >= MaxIdenticalCalls
    BY <1>4, <2>2
  <2>4. runtimeError' \in {runtimeError, runtimeError \cup {n}}
    BY <1>4
  <2> QED
    BY <1>0, <1>a, <1>4, <2>1, <2>2, <2>3, <2>4, Zenon
<1>5. CASE /\ installed[n].kind \in StrikeKinds => calls[k].class[n] \in {"other", "unsupported"}
           /\ installed[n].kind # "guard/repetition"
           /\ UNCHANGED <<memory, runtimeError>>
  <2>1. memory' = memory /\ runtimeError' = runtimeError
    BY <1>5
  <2>2. installed[n].kind \in StrikeKinds => calls[k].class[n] # "good"
    BY <1>5
  <2> QED
    BY <1>0, <2>1, <2>2
<1> QED
  BY <1>2, <1>3, <1>4, <1>5 DEF CountingStep

-----------------------------------------------------------------------------
(* Where the loop goes between handlers. *)
LEMMA StartJudgingSteps ==
  ASSUME GuardsTypes, StartJudging
  PROVE  /\ UNCHANGED <<installed, memory, runtimeError, expired, guardRestarts>>
         /\ \E k \in FirstOpen(at.call + 1) :
              /\ k \in DOMAIN calls
              /\ calls' = [calls EXCEPT ![k].judged = calls[k].judged + 1] /\ at' \in At
              /\ at'.pc = "judging" /\ at'.call = k /\ at'.handler = 1
              /\ at'.refused = at.refused /\ at'.asked = at.asked
<1>1. PICK k \in FirstOpen(at.call + 1) :
        /\ at' = [at EXCEPT !.pc = "judging", !.call = k, !.handler = 1]
        /\ calls' = [calls EXCEPT ![k].judged = @ + 1]
  BY DEF StartJudging
<1>2. k \in DOMAIN calls /\ k \in Nat
  BY CallsTypes DEF FirstOpen, OpenCalls
<1>3. /\ at' \in At /\ at'.pc = "judging" /\ at'.call = k /\ at'.handler = 1
      /\ at'.refused = at.refused /\ at'.asked = at.asked
  BY <1>1, <1>2 DEF GuardsTypes, At
<1> QED
  BY <1>1, <1>2, <1>3 DEF StartJudging

LEMMA EndJudgingSteps ==
  ASSUME GuardsTypes, EndJudging
  PROVE  /\ UNCHANGED <<installed, memory, runtimeError, expired, guardRestarts>>
         /\ at.pc = "judge" /\ FirstOpen(at.call + 1) = {} /\ at' \in At
         /\ \/ /\ ToAsk = {} /\ calls' = calls /\ at'.pc = "tools"
               /\ at'.refused = at.refused
            \/ /\ at' = AtIdle
               /\ calls' = [k \in DOMAIN calls |->
                              IF k \in ToAsk THEN [calls[k] EXCEPT !.state = "asked"] ELSE calls[k]]
<1>1. CASE ToAsk = {}
  <2>1. at' = [at EXCEPT !.pc = "tools", !.call = 0] /\ calls' = calls
    BY <1>1 DEF EndJudging
  <2>2. at' \in At /\ at'.pc = "tools" /\ at'.refused = at.refused
    BY <2>1 DEF GuardsTypes, At
  <2> QED
    BY <1>1, <2>1, <2>2 DEF EndJudging
<1>2. CASE ToAsk # {}
  BY <1>2, AtIdleTypes DEF EndJudging, Stop
<1> QED
  BY <1>1, <1>2

LEMMA FinishCallSteps ==
  ASSUME GuardsTypes, FinishCall
  PROVE  /\ UNCHANGED <<installed, expired, guardRestarts>> /\ at.pc = "tools"
         /\ at' \in At /\ at'.pc = "tools" /\ at'.refused = at.refused
         /\ \E k \in OpenCalls, failed \in BOOLEAN :
              LET refused == k \in at.refused
              IN  /\ k \in DOMAIN calls /\ (refused => failed)
                  /\ calls' = [calls EXCEPT ![k].failed = failed,
                                            ![k].state = IF refused THEN "refused" ELSE "executed"]
                  /\ \A n \in DOMAIN installed :
                       \/ memory'[n] = memory[n]
                       \/ memory'[n] = CountResult(n, failed, refused)
                  /\ memory' \in [DOMAIN installed -> Memory]
                  /\ runtimeError \subseteq runtimeError' /\ runtimeError' \subseteq DOMAIN installed
                  /\ \A n \in runtimeError' \ runtimeError :
                       /\ installed[n].kind = "guard/repetition"
                       /\ \/ memory'[n].failures >= MaxConsecutiveFailures
                          \/ memory'[n].rejections >= MaxConsecutiveRejections
<1> DEFINE repetition == {n \in DOMAIN installed : installed[n].kind = "guard/repetition"}
<1>1. PICK k \in FirstOpen(at.call + 1), failed \in BOOLEAN :
        /\ k \in at.refused => failed
        /\ calls' = [calls EXCEPT ![k].failed = failed,
                                  ![k].state = IF k \in at.refused THEN "refused" ELSE "executed"]
        /\ memory' = [n \in DOMAIN installed |->
                        IF n \in repetition THEN CountResult(n, failed, k \in at.refused) ELSE memory[n]]
        /\ runtimeError' = runtimeError \cup
             {n \in repetition : \/ memory'[n].failures >= MaxConsecutiveFailures
                                 \/ memory'[n].rejections >= MaxConsecutiveRejections}
        /\ at' = [at EXCEPT !.call = k]
  BY DEF FinishCall
<1>2. k \in OpenCalls /\ k \in DOMAIN calls /\ k \in Nat
  BY CallsTypes DEF FirstOpen, OpenCalls
<1>3. at.pc = "tools" /\ UNCHANGED <<installed, expired, guardRestarts>>
  BY DEF FinishCall
<1>4. at' \in At /\ at'.pc = "tools" /\ at'.refused = at.refused
  BY <1>1, <1>2, <1>3 DEF GuardsTypes, At
<1>5. memory' \in [DOMAIN installed -> Memory]
  <2>1. ASSUME NEW n \in DOMAIN installed
        PROVE  CountResult(n, failed, k \in at.refused) \in Memory
    <3>1. memory[n] \in Memory /\ memory[n].failures \in Nat /\ memory[n].rejections \in Nat
      BY MemoryTypes
    <3> DEFINE f == IF failed THEN memory[n].failures + 1 ELSE 0
               r == IF k \in at.refused THEN memory[n].rejections + 1 ELSE 0
    <3>2. f \in Nat /\ r \in Nat
      BY <3>1
    <3>3. CountResult(n, failed, k \in at.refused) = [memory[n] EXCEPT !.failures = f, !.rejections = r]
      BY DEF CountResult
    <3> HIDE DEF f, r
    <3> QED
      BY <3>1, <3>2, <3>3 DEF Memory
  <2>2. \A n \in DOMAIN installed : memory[n] \in Memory
    BY MemoryTypes
  <2> QED
    BY <1>1, <2>1, <2>2
<1>6. /\ runtimeError \subseteq runtimeError' /\ runtimeError' \subseteq DOMAIN installed
      /\ \A n \in runtimeError' \ runtimeError :
           /\ installed[n].kind = "guard/repetition"
           /\ \/ memory'[n].failures >= MaxConsecutiveFailures
              \/ memory'[n].rejections >= MaxConsecutiveRejections
  BY <1>1 DEF GuardsTypes
<1>7. \A n \in DOMAIN installed : \/ memory'[n] = memory[n]
                                  \/ memory'[n] = CountResult(n, failed, k \in at.refused)
  BY <1>1
<1> QED
  BY <1>1, <1>2, <1>3, <1>4, <1>5, <1>6, <1>7

LEMMA ProviderCallsSteps ==
  ASSUME GuardsTypes, ProviderCalls
  PROVE  /\ UNCHANGED <<installed, memory, runtimeError, expired, guardRestarts>>
         /\ at.pc = "provider" /\ at' \in At
         /\ \/ at' = AtIdle /\ calls' = calls
            \/ /\ at'.pc = "judge" /\ at'.call = 0 /\ at'.asked = {}
               /\ calls' \in Seq(Call) /\ Len(calls) <= Len(calls')
               /\ \A k \in DOMAIN calls : k \in DOMAIN calls' /\ calls'[k] = calls[k]
               /\ \A k \in DOMAIN calls' \ DOMAIN calls :
                    /\ k > Len(calls) /\ calls'[k].state = "pending"
                    /\ calls'[k].judged = 0 /\ calls'[k].failed = FALSE
<1>1. CASE Stop /\ UNCHANGED calls
  BY <1>1, AtIdleTypes DEF ProviderCalls, Stop
<1>2. ASSUME NEW n \in 1 .. 2, NEW new \in [1 .. n -> NewCalls], calls' = calls \o new,
             at' = [AtIdle EXCEPT !.pc = "judge"]
      PROVE  /\ at' \in At /\ at'.pc = "judge" /\ at'.call = 0 /\ at'.asked = {}
             /\ calls' \in Seq(Call) /\ Len(calls) <= Len(calls')
             /\ \A k \in DOMAIN calls : k \in DOMAIN calls' /\ calls'[k] = calls[k]
             /\ \A k \in DOMAIN calls' \ DOMAIN calls :
                  /\ k > Len(calls) /\ calls'[k].state = "pending"
                  /\ calls'[k].judged = 0 /\ calls'[k].failed = FALSE
  <2>1. at' \in At /\ at'.pc = "judge" /\ at'.call = 0 /\ at'.asked = {}
    BY <1>2, AtIdleTypes DEF AtIdle
  <2>2. new \in Seq(Call) /\ Len(new) = n /\ calls \in Seq(Call)
    <3>0. \A c \in NewCalls : c \in Call
      BY NewCallsTypes
    <3>1. new \in [1 .. n -> Call] /\ n \in Nat
      BY <3>0
    <3> QED
      BY <3>1 DEF GuardsTypes
  <2>3. /\ calls' \in Seq(Call) /\ Len(calls') = Len(calls) + n
        /\ \A k \in 1 .. Len(calls) : calls'[k] = calls[k]
        /\ \A k \in Len(calls) + 1 .. Len(calls) + n : calls'[k] = new[k - Len(calls)]
    BY <1>2, <2>2, ConcatProperties
  <2>4. Len(calls) \in Nat /\ DOMAIN calls = 1 .. Len(calls) /\ DOMAIN calls' = 1 .. Len(calls) + n
    BY <2>2, <2>3
  <2>5. ASSUME NEW k \in DOMAIN calls' \ DOMAIN calls
        PROVE  /\ k > Len(calls) /\ calls'[k].state = "pending"
               /\ calls'[k].judged = 0 /\ calls'[k].failed = FALSE
    <3>1. k \in Len(calls) + 1 .. Len(calls) + n /\ k - Len(calls) \in 1 .. n
      BY <2>4
    <3>2. calls'[k] \in NewCalls
      BY <2>3, <3>1
    <3>3. k > Len(calls)
      BY <2>4, <3>1
    <3>4. calls'[k].state = "pending" /\ calls'[k].judged = 0 /\ calls'[k].failed = FALSE
      BY <3>2, NewCallsTypes
    <3> QED
      BY <3>3, <3>4
  <2>6. Len(calls) <= Len(calls') /\ \A k \in DOMAIN calls : k \in DOMAIN calls'
    BY <2>3, <2>4
  <2>7. \A k \in DOMAIN calls : calls'[k] = calls[k]
    BY <2>3, <2>4
  <2> QED
    BY <2>1, <2>3, <2>5, <2>6, <2>7
<1> QED
  BY <1>1, <1>2, Zenon DEF ProviderCalls

(* A step of the loop, of a handler or of the host, or none. *)
LEMMA GuardsStepCases ==
  ASSUME [GuardsNext]_guardsVars
  PROVE  \/ RunAgain \/ TimePasses \/ PreProjectionHooks \/ ProviderCalls
         \/ StartJudging \/ EndJudging \/ FinishCall \/ EndBatch \/ RestartProcess
         \/ \E k \in DOMAIN calls : ResolveApproval(k)
         \/ \E k \in DOMAIN calls, n \in DOMAIN installed : HandlerActs(k, n)
         \/ UNCHANGED guardsVars
BY DEF GuardsNext, HandlerActs

LEMMA TypesWithInstalled ==
  ASSUME GuardsTypes, installed' = installed, memory' \in [DOMAIN installed -> Memory],
         calls' \in Seq(Call), runtimeError' \in SUBSET DOMAIN installed, at' \in At
  PROVE  GuardsTypes'
<1>1. Call' = Call
  BY DEF Call
<1> QED
  BY <1>1 DEF GuardsTypes

(* Each call but k is as it was. *)
LEMMA OneCallChanges ==
  ASSUME GuardsTypes, NEW k \in DOMAIN calls, NEW c \in Call, calls' = [calls EXCEPT ![k] = c]
  PROVE  /\ calls' \in Seq(Call) /\ DOMAIN calls' = DOMAIN calls /\ Len(calls') = Len(calls)
         /\ calls'[k] = c /\ \A j \in DOMAIN calls \ {k} : calls'[j] = calls[j]
BY DEF GuardsTypes

LEMMA CallUpdates ==
  ASSUME GuardsTypes, NEW k \in DOMAIN calls
  PROVE  /\ \A judged \in Nat : [calls[k] EXCEPT !.judged = judged] \in Call
         /\ \A state \in {"asked", "executed", "refused"} : [calls[k] EXCEPT !.state = state] \in Call
         /\ \A failed \in BOOLEAN, state \in {"executed", "refused"} :
              [calls[k] EXCEPT !.failed = failed, !.state = state] \in Call
<1>1. calls[k] \in Call
  BY CallsTypes
<1> QED
  BY <1>1 DEF Call

(* The steps that change calls, each at one call. *)
LEMMA JudgedChanges ==
  ASSUME GuardsTypes, NEW k \in DOMAIN calls,
         calls' = [calls EXCEPT ![k].judged = calls[k].judged + 1]
  PROVE  /\ calls' \in Seq(Call) /\ DOMAIN calls' = DOMAIN calls /\ Len(calls') = Len(calls)
         /\ calls'[k] = [calls[k] EXCEPT !.judged = calls[k].judged + 1]
         /\ calls'[k].judged = calls[k].judged + 1 /\ calls'[k].class = calls[k].class
         /\ calls'[k].state = calls[k].state /\ calls'[k].failed = calls[k].failed
         /\ \A j \in DOMAIN calls \ {k} : calls'[j] = calls[j]
<1> DEFINE c == [calls[k] EXCEPT !.judged = calls[k].judged + 1]
<1>1. calls[k] \in Call /\ calls[k].judged + 1 \in Nat
  BY CallsTypes
<1>2. c \in Call
  BY <1>1, CallUpdates
<1>3. calls' = [calls EXCEPT ![k] = c]
  BY DEF c
<1>4. /\ c.judged = calls[k].judged + 1 /\ c.class = calls[k].class
      /\ c.state = calls[k].state /\ c.failed = calls[k].failed
  BY <1>1 DEF Call
<1>5. /\ calls' \in Seq(Call) /\ DOMAIN calls' = DOMAIN calls /\ Len(calls') = Len(calls)
      /\ calls'[k] = c /\ \A j \in DOMAIN calls \ {k} : calls'[j] = calls[j]
  <2> HIDE DEF c
  <2> QED
    BY <1>2, <1>3, OneCallChanges
<1> QED
  BY <1>4, <1>5

LEMMA ResolvedChanges ==
  ASSUME GuardsTypes, NEW k \in DOMAIN calls, NEW state \in {"executed", "refused"},
         NEW failed \in BOOLEAN,
         \/ calls' = [calls EXCEPT ![k].failed = failed, ![k].state = state]
         \/ calls' = [calls EXCEPT ![k].state = state] /\ failed = calls[k].failed
  PROVE  /\ calls' \in Seq(Call) /\ DOMAIN calls' = DOMAIN calls /\ Len(calls') = Len(calls)
         /\ calls'[k].state = state /\ calls'[k].failed = failed
         /\ calls'[k].class = calls[k].class /\ calls'[k].judged = calls[k].judged
         /\ \A j \in DOMAIN calls \ {k} : calls'[j] = calls[j]
<1> DEFINE c == [calls[k] EXCEPT !.failed = failed, !.state = state]
<1>1. calls[k] \in Call
  BY CallsTypes
<1>2. c \in Call
  BY <1>1, CallUpdates
<1>3. calls' = [calls EXCEPT ![k] = c]
  <2>1. CASE calls' = [calls EXCEPT ![k].failed = failed, ![k].state = state]
    <3>1. calls' = [[calls EXCEPT ![k] = [calls[k] EXCEPT !.failed = failed]]
                      EXCEPT ![k] = [@ EXCEPT !.state = state]]
      BY <2>1
    <3> QED
      BY <3>1 DEF c, GuardsTypes
  <2>2. CASE calls' = [calls EXCEPT ![k].state = state] /\ failed = calls[k].failed
    <3>1. c = [calls[k] EXCEPT !.state = state]
      BY <1>1, <2>2 DEF Call
    <3> QED
      BY <2>2, <3>1
  <2> QED
    BY <2>1, <2>2
<1>4. /\ c.state = state /\ c.failed = failed
      /\ c.class = calls[k].class /\ c.judged = calls[k].judged
  BY <1>1 DEF Call
<1>5. /\ calls' \in Seq(Call) /\ DOMAIN calls' = DOMAIN calls /\ Len(calls') = Len(calls)
      /\ calls'[k] = c /\ \A j \in DOMAIN calls \ {k} : calls'[j] = calls[j]
  <2> HIDE DEF c
  <2> QED
    BY <1>2, <1>3, OneCallChanges
<1> QED
  BY <1>4, <1>5

LEMMA AskedChanges ==
  ASSUME GuardsTypes,
         calls' = [k \in DOMAIN calls |->
                     IF k \in ToAsk THEN [calls[k] EXCEPT !.state = "asked"] ELSE calls[k]]
  PROVE  /\ calls' \in Seq(Call) /\ DOMAIN calls' = DOMAIN calls /\ Len(calls') = Len(calls)
         /\ \A k \in DOMAIN calls :
              /\ calls'[k].class = calls[k].class /\ calls'[k].judged = calls[k].judged
              /\ calls'[k].failed = calls[k].failed
              /\ calls'[k].state = IF k \in ToAsk THEN "asked" ELSE calls[k].state
<1>1. ASSUME NEW k \in DOMAIN calls
      PROVE  /\ calls'[k] \in Call
             /\ calls'[k].class = calls[k].class /\ calls'[k].judged = calls[k].judged
             /\ calls'[k].failed = calls[k].failed
             /\ calls'[k].state = IF k \in ToAsk THEN "asked" ELSE calls[k].state
  <2>1. calls[k] \in Call /\ [calls[k] EXCEPT !.state = "asked"] \in Call
    BY CallsTypes, CallUpdates
  <2> HIDE DEF ToAsk
  <2>2. CASE k \in ToAsk
    <3>1. calls'[k] = [calls[k] EXCEPT !.state = "asked"]
      BY <2>2
    <3> QED
      BY <2>1, <2>2, <3>1 DEF Call
  <2>3. CASE k \notin ToAsk
    <3>1. calls'[k] = calls[k]
      BY <2>3
    <3> QED
      BY <2>1, <2>3, <3>1
  <2> QED
    BY <2>2, <2>3
<1>2. DOMAIN calls' = 1 .. Len(calls) /\ Len(calls) \in Nat /\ calls' \in [1 .. Len(calls) -> Call]
  BY <1>1, CallsTypes
<1>3. calls' \in Seq(Call)
  BY <1>2
<1>4. DOMAIN calls' = DOMAIN calls /\ Len(calls') = Len(calls)
  BY <1>2, <1>3, CallsTypes
<1> QED
  BY <1>1, <1>3, <1>4

-----------------------------------------------------------------------------
LEMMA GuardsTypesInit == GuardsInit => GuardsTypes
<1> SUFFICES ASSUME GuardsInit
             PROVE  GuardsTypes
  OBVIOUS
<1>1. Closures \in [DOMAIN installed -> Memory] /\ AtIdle \in At /\ <<>> \in Seq(Call)
  BY ClosuresTypes, AtIdleTypes
<1> QED
  BY <1>1 DEF GuardsInit, GuardsTypes

LEMMA GuardsTypesNext ==
  ASSUME GuardsTypes, [GuardsNext]_guardsVars
  PROVE  GuardsTypes'
<1>0. /\ memory \in [DOMAIN installed -> Memory] /\ calls \in Seq(Call)
      /\ runtimeError \in SUBSET DOMAIN installed /\ at \in At
  BY DEF GuardsTypes
<1>1. CASE RunAgain \/ EndBatch
  <2>1. UNCHANGED <<installed, memory, calls, runtimeError>>
    BY <1>1 DEF RunAgain, EndBatch
  <2>2. at' \in At
    BY <1>1, AtIdleTypes DEF RunAgain, EndBatch
  <2> QED
    BY <1>0, <2>1, <2>2, TypesWithInstalled
<1>2. CASE TimePasses
  <2>1. UNCHANGED <<installed, memory, calls, runtimeError, at>>
    BY <1>2 DEF TimePasses
  <2> QED
    BY <1>0, <2>1, TypesWithInstalled
<1>3. CASE PreProjectionHooks
  <2>1. UNCHANGED <<installed, calls>>
    BY <1>3 DEF PreProjectionHooks
  <2>2. runtimeError' \in SUBSET DOMAIN installed
    BY <1>0, <1>3 DEF PreProjectionHooks
  <2>3. memory' \in [DOMAIN installed -> Memory]
    <3>1. \A n \in DOMAIN installed : [memory[n] EXCEPT !.checks = 1] \in Memory
      BY MemoryTypes DEF Memory
    <3> QED
      BY <1>3, <3>1 DEF PreProjectionHooks
  <2>4. at' \in At
    BY <1>0, <1>3, AtIdleTypes DEF PreProjectionHooks, At
  <2> QED
    BY <1>0, <2>1, <2>2, <2>3, <2>4, TypesWithInstalled
<1>4. CASE ProviderCalls
  <2>1. /\ UNCHANGED <<installed, memory, runtimeError>> /\ at' \in At
        /\ calls' = calls \/ calls' \in Seq(Call)
    BY <1>4, ProviderCallsSteps, Zenon
  <2> QED
    BY <1>0, <2>1, TypesWithInstalled
<1>5. CASE StartJudging
  <2>1. PICK k \in DOMAIN calls : /\ calls' = [calls EXCEPT ![k].judged = calls[k].judged + 1]
                                  /\ at' \in At
    BY <1>5, StartJudgingSteps, Zenon
  <2>2. calls' \in Seq(Call)
    BY <2>1, JudgedChanges
  <2>3. UNCHANGED <<installed, memory, runtimeError>>
    BY <1>5 DEF StartJudging
  <2> QED
    BY <1>0, <2>1, <2>2, <2>3, TypesWithInstalled
<1>6. CASE EndJudging
  <2>1. UNCHANGED <<installed, memory, runtimeError>> /\ at' \in At
    BY <1>6, EndJudgingSteps
  <2>2. calls' \in Seq(Call)
    BY <1>0, <1>6, EndJudgingSteps, AskedChanges
  <2> QED
    BY <1>0, <2>1, <2>2, TypesWithInstalled
<1>7. CASE FinishCall
  <2>1. PICK k \in OpenCalls, failed \in BOOLEAN :
          /\ k \in DOMAIN calls
          /\ calls' = [calls EXCEPT ![k].failed = failed,
                                    ![k].state = IF k \in at.refused THEN "refused" ELSE "executed"]
          /\ memory' \in [DOMAIN installed -> Memory] /\ runtimeError' \subseteq DOMAIN installed
    BY <1>7, FinishCallSteps, Zenon
  <2> DEFINE state == IF k \in at.refused THEN "refused" ELSE "executed"
  <2>2. state \in {"executed", "refused"} /\ calls' = [calls EXCEPT ![k].failed = failed, ![k].state = state]
    BY <2>1
  <2> HIDE DEF state
  <2>3. calls' \in Seq(Call)
    BY <2>1, <2>2, ResolvedChanges
  <2>4. installed' = installed /\ at' \in At
    BY <1>7, FinishCallSteps
  <2> QED
    BY <2>1, <2>3, <2>4, TypesWithInstalled
<1>8. CASE RestartProcess
  <2>1. UNCHANGED <<installed, calls, runtimeError, at>> /\ memory' = Closures
    BY <1>8 DEF RestartProcess
  <2> QED
    BY <1>0, <2>1, ClosuresTypes, TypesWithInstalled
<1>9. ASSUME NEW k \in DOMAIN calls, ResolveApproval(k)
      PROVE  GuardsTypes'
  <2>1. PICK state \in {"executed", "refused"} : calls' = [calls EXCEPT ![k].state = state]
    BY <1>9 DEF ResolveApproval
  <2>2. UNCHANGED <<installed, memory, runtimeError, at>>
    BY <1>9 DEF ResolveApproval
  <2>3. calls[k].failed \in BOOLEAN
    BY CallsTypes
  <2>4. calls' \in Seq(Call)
    BY <2>1, <2>3, ResolvedChanges
  <2> QED
    BY <1>0, <2>2, <2>4, TypesWithInstalled
<1>10. ASSUME NEW k \in DOMAIN calls, NEW n \in DOMAIN installed, HandlerActs(k, n)
       PROVE  GuardsTypes'
  <2>1. UNCHANGED <<installed, calls>> /\ at' \in At
    BY <1>10, HandlerSteps, HandlerLoop DEF HandlerStep
  <2>2. memory' \in [DOMAIN installed -> Memory] /\ runtimeError' \in {runtimeError, runtimeError \cup {n}}
    BY <1>10, CountingSteps, CountingTypes
  <2>3. runtimeError' \in SUBSET DOMAIN installed
    BY <1>0, <2>2
  <2> QED
    BY <1>0, <2>1, <2>2, <2>3, TypesWithInstalled
<1>11. CASE UNCHANGED guardsVars
  <2>1. UNCHANGED <<installed, memory, calls, runtimeError, at>>
    BY <1>11 DEF guardsVars
  <2> QED
    BY <1>0, <2>1, TypesWithInstalled
<1> QED
  BY <1>1, <1>2, <1>3, <1>4, <1>5, <1>6, <1>7, <1>8, <1>9, <1>10, <1>11, GuardsStepCases

-----------------------------------------------------------------------------
(* Refusals.  The loop goes through the open calls without leaving one out. *)
LEMMA FirstOpenIsFirst ==
  ASSUME GuardsTypes, NEW from \in Nat
  PROVE  /\ \A k \in FirstOpen(from) : /\ k \in OpenCalls /\ k \in DOMAIN calls /\ k >= from
                                       /\ \A j \in OpenCalls : j < k => j < from
         /\ FirstOpen(from) = {} => \A k \in OpenCalls : k < from
<1> DEFINE rest == {k \in OpenCalls : k >= from}
<1>1. OpenCalls \subseteq DOMAIN calls /\ OpenCalls \subseteq Nat
  BY CallsTypes DEF OpenCalls
<1>2. ASSUME NEW k \in FirstOpen(from)
      PROVE  /\ k \in OpenCalls /\ k \in DOMAIN calls /\ k >= from
             /\ \A j \in OpenCalls : j < k => j < from
  BY <1>1 DEF FirstOpen
<1>3. ASSUME NEW k \in OpenCalls, ~(k < from)
      PROVE  FirstOpen(from) # {}
  <2>1. rest \in SUBSET Nat /\ k \in rest
    BY <1>1, <1>3
  <2>2. PICK j \in rest : \A i \in rest : j <= i
    BY <2>1, LeastNatural
  <2>3. j \in FirstOpen(from)
    BY <2>2 DEF FirstOpen
  <2> QED
    BY <2>3
<1> QED
  BY <1>1, <1>2, <1>3

LEMMA MayRunStays ==
  ASSUME NEW k, NEW n, installed' = installed, runtimeError \subseteq runtimeError',
         calls'[k].class = calls[k].class, MayRun(k, n)
  PROVE  (MayRun(k, n))'
<1>1. Lost(n) => (Lost(n))'
  BY DEF Lost
<1> QED
  BY <1>1 DEF MayRun

(* A step that leaves the calls and the batch alone, or starts another. *)
LEMMA RefusalAfterQuietStep ==
  ASSUME GuardsTypes, RefusalInv, UNCHANGED <<installed, calls>>, runtimeError \subseteq runtimeError',
         \/ at' = at
         \/ at'.pc \in {"idle", "turn", "provider"}
         \/ at'.pc = "judge" /\ at'.call = 0 /\ at'.asked = {}
  PROVE  RefusalInv'
<1>0. /\ OpenCalls' = OpenCalls /\ DOMAIN installed' = DOMAIN installed
      /\ OpenCalls \subseteq DOMAIN calls
      /\ \A k \in OpenCalls : k \in Nat /\ k > 0
  BY CallsTypes DEF OpenCalls, Open
<1>1. \A k \in DOMAIN calls, n \in DOMAIN installed : MayRun(k, n) => (MayRun(k, n))'
  BY MayRunStays
<1>2. BatchInv'
  BY <1>0 DEF RefusalInv, BatchInv
<1>3. DecisionsInv'
  <2>1. CASE at' = at
    BY <1>0, <1>1, <2>1 DEF RefusalInv, DecisionsInv, JudgedBy
  <2>2. CASE at'.pc \in {"idle", "turn", "provider"}
    BY <1>0, <2>2 DEF DecisionsInv, JudgedBy
  <2>3. CASE at'.pc = "judge" /\ at'.call = 0
    BY <1>0, <2>3 DEF DecisionsInv, JudgedBy
  <2> QED
    BY <2>1, <2>2, <2>3
<1>4. ResolvedInv'
  BY <1>1 DEF RefusalInv, ResolvedInv
<1> QED
  BY <1>2, <1>3, <1>4 DEF RefusalInv

LEMMA RefusalAfterProviderCalls ==
  ASSUME GuardsTypes, RefusalInv, ProviderCalls
  PROVE  RefusalInv'
<1>0. UNCHANGED <<installed, runtimeError>>
  BY ProviderCallsSteps
<1>1. CASE at' = AtIdle /\ calls' = calls
  BY <1>0, <1>1, RefusalAfterQuietStep DEF AtIdle
<1>2. CASE /\ at'.pc = "judge" /\ at'.call = 0 /\ at'.asked = {} /\ calls' \in Seq(Call)
           /\ \A k \in DOMAIN calls : k \in DOMAIN calls' /\ calls'[k] = calls[k]
           /\ \A k \in DOMAIN calls' \ DOMAIN calls : k > Len(calls) /\ calls'[k].state = "pending"
  <2>1. \A k \in DOMAIN calls' : k \in Nat /\ k > 0
    BY <1>2
  <2>2. BatchInv' /\ DecisionsInv'
    BY <1>2, <2>1 DEF BatchInv, DecisionsInv, JudgedBy, OpenCalls
  <2>3. ASSUME NEW k \in DOMAIN calls', NEW n \in DOMAIN installed',
               calls'[k].state \in {"asked", "executed"}
        PROVE  (MayRun(k, n))'
    <3>1. k \in DOMAIN calls /\ calls'[k] = calls[k]
      BY <1>2, <2>3
    <3>2. MayRun(k, n)
      BY <1>0, <2>3, <3>1 DEF RefusalInv, ResolvedInv
    <3> QED
      BY <1>0, <3>1, <3>2, MayRunStays
  <2> QED
    BY <2>2, <2>3 DEF RefusalInv, ResolvedInv
<1> QED
  BY <1>1, <1>2, ProviderCallsSteps, Zenon

LEMMA RefusalAfterStartJudging ==
  ASSUME GuardsTypes, RefusalInv, StartJudging
  PROVE  RefusalInv'
<1>1. PICK k \in FirstOpen(at.call + 1) :
        /\ k \in DOMAIN calls
        /\ calls' = [calls EXCEPT ![k].judged = calls[k].judged + 1]
        /\ at'.pc = "judging" /\ at'.call = k /\ at'.handler = 1
        /\ at'.refused = at.refused /\ at'.asked = at.asked
  BY StartJudgingSteps, Zenon
<1>2. installed' = installed /\ runtimeError' = runtimeError /\ at.pc = "judge"
  BY DEF StartJudging
<1>3. /\ DOMAIN calls' = DOMAIN calls
      /\ \A j \in DOMAIN calls : calls'[j].state = calls[j].state /\ calls'[j].class = calls[j].class
  <2>1. /\ DOMAIN calls' = DOMAIN calls
        /\ calls'[k].state = calls[k].state /\ calls'[k].class = calls[k].class
        /\ \A j \in DOMAIN calls \ {k} : calls'[j] = calls[j]
    BY <1>1, JudgedChanges
  <2> QED
    BY <2>1
<1>4. OpenCalls' = OpenCalls /\ OpenCalls \subseteq DOMAIN calls
  BY <1>3 DEF OpenCalls, Open
<1>5. at.call \in Nat
  BY DEF GuardsTypes, At
<1>6. \A j \in OpenCalls : j \in Nat
  BY <1>4, CallsTypes
<1>7. k \in OpenCalls /\ k > at.call /\ \A j \in OpenCalls : j < k => j <= at.call
  <2>1. at.call + 1 \in Nat
    BY <1>5
  <2>2. k \in OpenCalls /\ k >= at.call + 1 /\ \A j \in OpenCalls : j < k => j < at.call + 1
    BY <1>1, <2>1, FirstOpenIsFirst
  <2> QED
    BY <1>5, <1>6, <2>2
<1>8. 1 \in DOMAIN installed /\ \A n \in DOMAIN installed : ~(n < 1)
  BY InstalledTypes DEF GuardsTypes
<1>9. \A j \in DOMAIN calls, n \in DOMAIN installed : MayRun(j, n) => (MayRun(j, n))'
  BY <1>2, <1>3, MayRunStays
<1>10. BatchInv'
  <2>1. \A j \in at.asked : j \in OpenCalls /\ j <= at.call
    BY <1>2 DEF RefusalInv, BatchInv
  <2>2. \A j \in at.asked : j \in OpenCalls /\ j <= k
    BY <1>5, <1>6, <1>7, <2>1
  <2> QED
    BY <1>1, <1>2, <1>4, <1>7, <1>8, <2>2 DEF BatchInv
<1>11. DecisionsInv'
  <2>1. ASSUME NEW j \in OpenCalls, NEW n \in DOMAIN installed, (JudgedBy(j, n))'
        PROVE  j \in at'.refused \/ (MayRun(j, n))'
    <3>1. j < k
      BY <1>1, <1>8, <2>1 DEF JudgedBy
    <3>2. j <= at.call
      BY <1>7, <3>1
    <3>3. j \in at.refused \/ MayRun(j, n)
      BY <1>2, <3>2 DEF RefusalInv, DecisionsInv, JudgedBy
    <3> QED
      BY <1>1, <1>4, <1>9, <3>3
  <2> QED
    BY <1>2, <1>4, <2>1 DEF DecisionsInv
<1>12. ResolvedInv'
  BY <1>2, <1>3, <1>9 DEF RefusalInv, ResolvedInv
<1> QED
  BY <1>10, <1>11, <1>12 DEF RefusalInv

LEMMA RefusalAfterHandler ==
  ASSUME GuardsTypes, RefusalInv, NEW k \in DOMAIN calls, NEW n \in DOMAIN installed, HandlerStep(k, n)
  PROVE  RefusalInv'
<1>0. /\ UNCHANGED <<installed, calls>> /\ runtimeError \subseteq runtimeError'
  BY DEF HandlerStep
<1>1. /\ at.pc = "judging" /\ at.call = k /\ at.handler = n
  BY HandlerLoop
<1>2. CASE at' = AtIdle
  BY <1>0, <1>2, RefusalAfterQuietStep DEF AtIdle
<1>3. CASE /\ at'.call = k
           /\ \/ n < Len(installed) /\ at'.pc = "judging" /\ at'.handler = n + 1
              \/ n = Len(installed) /\ at'.pc = "judge" /\ at'.handler = n
           /\ at.refused \subseteq at'.refused /\ at'.asked \subseteq at.asked \cup {k}
           /\ k \in at'.refused \/ MayRun(k, n)'
  <2>0. /\ n \in Nat /\ Len(installed) \in Nat /\ DOMAIN installed = 1 .. Len(installed)
        /\ \A m \in DOMAIN installed : m \in Nat /\ m <= Len(installed)
    BY InstalledTypes DEF GuardsTypes
  <2>1. /\ OpenCalls' = OpenCalls /\ OpenCalls \subseteq DOMAIN calls
        /\ \A j \in OpenCalls : j \in Nat
    BY <1>0, CallsTypes DEF OpenCalls, Open
  <2>2. \A j \in DOMAIN calls, m \in DOMAIN installed : MayRun(j, m) => (MayRun(j, m))'
    BY <1>0, MayRunStays
  <2>3. k \in OpenCalls /\ \A j \in at.asked : j \in OpenCalls /\ j <= k
    BY <1>1 DEF RefusalInv, BatchInv
  <2>4. BatchInv'
    <3>1. \A j \in at'.asked : j \in OpenCalls /\ j <= k
      BY <1>3, <2>1, <2>3
    <3>2. at'.pc = "judging" => at'.handler \in DOMAIN installed
      BY <1>3, <2>0
    <3> QED
      BY <1>0, <1>3, <2>1, <2>3, <3>1, <3>2 DEF BatchInv
  <2>5. DecisionsInv'
    <3>1. ASSUME NEW j \in OpenCalls, NEW m \in DOMAIN installed, (JudgedBy(j, m))'
          PROVE  j \in at'.refused \/ (MayRun(j, m))'
      <4>1. j < k \/ (j = k /\ m < n) \/ (j = k /\ m = n)
        <5>1. CASE at'.pc = "judging" /\ at'.handler = n + 1
          <6>1. j < k \/ (j = k /\ m < n + 1)
            BY <1>3, <3>1, <5>1 DEF JudgedBy
          <6> QED
            BY <2>0, <6>1
        <5>2. CASE at'.pc = "judge" /\ n = Len(installed)
          <6>1. j <= k
            BY <1>3, <3>1, <5>2 DEF JudgedBy
          <6> QED
            BY <2>0, <2>1, <2>3, <5>2, <6>1
        <5> QED
          BY <1>3, <5>1, <5>2
      <4>2. CASE j < k \/ (j = k /\ m < n)
        <5>1. JudgedBy(j, m)
          BY <1>1, <4>2 DEF JudgedBy
        <5>2. j \in at.refused \/ MayRun(j, m)
          BY <5>1 DEF RefusalInv, DecisionsInv
        <5> QED
          BY <1>3, <2>1, <2>2, <5>2
      <4>3. CASE j = k /\ m = n
        BY <1>3, <4>3
      <4> QED
        BY <4>1, <4>2, <4>3
    <3> QED
      BY <1>0, <2>1, <3>1 DEF DecisionsInv
  <2>6. ResolvedInv'
    BY <1>0, <2>2 DEF RefusalInv, ResolvedInv
  <2> QED
    BY <2>4, <2>5, <2>6 DEF RefusalInv
<1> QED
  BY <1>2, <1>3, HandlerLoop, Zenon

LEMMA RefusalAfterEndJudging ==
  ASSUME GuardsTypes, RefusalInv, EndJudging
  PROVE  RefusalInv'
<1>0. /\ UNCHANGED <<installed, runtimeError>> /\ at.pc = "judge" /\ FirstOpen(at.call + 1) = {}
  BY EndJudgingSteps
<1>1. \A j \in OpenCalls : j \in Nat
  BY CallsTypes DEF OpenCalls
<1>2. \A j \in OpenCalls : j <= at.call
  <2>1. at.call \in Nat /\ at.call + 1 \in Nat
    BY DEF GuardsTypes, At
  <2>2. \A j \in OpenCalls : j < at.call + 1
    BY <1>0, <2>1, FirstOpenIsFirst
  <2> QED
    BY <1>1, <2>1, <2>2
<1>3. \A j \in OpenCalls, n \in DOMAIN installed : j \in at.refused \/ MayRun(j, n)
  BY <1>0, <1>2 DEF RefusalInv, DecisionsInv, JudgedBy
<1>4. CASE calls' = calls /\ at'.pc = "tools" /\ at'.refused = at.refused
  <2>1. \A j \in DOMAIN calls, n \in DOMAIN installed : MayRun(j, n) => (MayRun(j, n))'
    BY <1>0, <1>4, MayRunStays
  <2>2. OpenCalls' = OpenCalls /\ OpenCalls \subseteq DOMAIN calls
    BY <1>4 DEF OpenCalls, Open
  <2>3. DecisionsInv'
    BY <1>0, <1>3, <1>4, <2>1, <2>2 DEF DecisionsInv
  <2>4. BatchInv' /\ ResolvedInv'
    BY <1>0, <1>4, <2>1 DEF RefusalInv, BatchInv, ResolvedInv
  <2> QED
    BY <2>3, <2>4 DEF RefusalInv
<1>5. CASE /\ at' = AtIdle
           /\ calls' = [k \in DOMAIN calls |->
                          IF k \in ToAsk THEN [calls[k] EXCEPT !.state = "asked"] ELSE calls[k]]
  <2>1. DOMAIN calls' = DOMAIN calls
    BY <1>5, AskedChanges
  <2>2. \A k \in DOMAIN calls : /\ calls'[k].class = calls[k].class
                                /\ calls'[k].state = IF k \in ToAsk THEN "asked" ELSE calls[k].state
    BY <1>5, AskedChanges
  <2>3. ASSUME NEW k \in DOMAIN calls, NEW n \in DOMAIN installed,
               calls'[k].state \in {"asked", "executed"}
        PROVE  (MayRun(k, n))'
    <3>1. CASE k \in ToAsk
      <4>1. k \in OpenCalls /\ k \notin at.refused
        BY <1>0, <3>1 DEF ToAsk, RefusalInv, BatchInv
      <4>2. MayRun(k, n)
        BY <1>3, <4>1
      <4> QED
        BY <1>0, <2>2, <4>2, MayRunStays
    <3>2. CASE k \notin ToAsk
      <4>1. calls[k].state \in {"asked", "executed"}
        BY <2>2, <2>3, <3>2
      <4>2. MayRun(k, n)
        BY <4>1 DEF RefusalInv, ResolvedInv
      <4> QED
        BY <1>0, <2>2, <4>2, MayRunStays
    <3> QED
      BY <3>1, <3>2
  <2>4. ResolvedInv'
    BY <1>0, <2>1, <2>3 DEF ResolvedInv
  <2>5. BatchInv' /\ DecisionsInv'
    BY <1>5 DEF AtIdle, BatchInv, DecisionsInv, JudgedBy
  <2> QED
    BY <2>4, <2>5 DEF RefusalInv
<1> QED
  BY <1>4, <1>5, EndJudgingSteps, Zenon

(* The second pass: what runs is what nobody refuses. *)
LEMMA RefusalAfterFinishCall ==
  ASSUME GuardsTypes, RefusalInv, FinishCall
  PROVE  RefusalInv'
<1>1. /\ installed' = installed /\ at.pc = "tools" /\ at'.pc = "tools" /\ at'.refused = at.refused
  BY FinishCallSteps
<1>2. PICK k \in OpenCalls, failed \in BOOLEAN :
        /\ k \in DOMAIN calls
        /\ calls' = [calls EXCEPT ![k].failed = failed,
                                  ![k].state = IF k \in at.refused THEN "refused" ELSE "executed"]
        /\ runtimeError \subseteq runtimeError'
  BY FinishCallSteps, Zenon
<1> DEFINE state == IF k \in at.refused THEN "refused" ELSE "executed"
<1>3. state \in {"executed", "refused"} /\ calls' = [calls EXCEPT ![k].failed = failed, ![k].state = state]
  BY <1>2
<1>4. state = "executed" => k \notin at.refused
  OBVIOUS
<1> HIDE DEF state
<1>5. /\ DOMAIN calls' = DOMAIN calls /\ calls'[k].state = state /\ calls'[k].class = calls[k].class
      /\ \A j \in DOMAIN calls \ {k} : calls'[j] = calls[j]
  BY <1>2, <1>3, ResolvedChanges
<1>6. \A j \in DOMAIN calls : calls'[j].class = calls[j].class
  BY <1>5
<1>7. \A j \in DOMAIN calls, n \in DOMAIN installed : MayRun(j, n) => (MayRun(j, n))'
  BY <1>1, <1>2, <1>6, MayRunStays
<1>8. OpenCalls' \subseteq OpenCalls /\ OpenCalls \subseteq DOMAIN calls
  BY <1>3, <1>5 DEF OpenCalls, Open
<1>9. \A j \in OpenCalls, n \in DOMAIN installed : j \in at.refused \/ MayRun(j, n)
  BY <1>1 DEF RefusalInv, DecisionsInv, JudgedBy
<1>10. DecisionsInv'
  BY <1>1, <1>7, <1>8, <1>9 DEF DecisionsInv
<1>11. ASSUME NEW j \in DOMAIN calls, NEW n \in DOMAIN installed,
              calls'[j].state \in {"asked", "executed"}
       PROVE  MayRun(j, n)
  <2>1. CASE j = k
    <3>1. k \notin at.refused
      BY <1>3, <1>4, <1>5, <1>11, <2>1
    <3> QED
      BY <1>9, <2>1, <3>1
  <2>2. CASE j # k
    BY <1>5, <1>11, <2>2 DEF RefusalInv, ResolvedInv
  <2> QED
    BY <2>1, <2>2
<1>12. ResolvedInv'
  BY <1>1, <1>5, <1>7, <1>11 DEF ResolvedInv
<1>13. BatchInv'
  BY <1>1 DEF BatchInv
<1> QED
  BY <1>10, <1>12, <1>13 DEF RefusalInv

LEMMA RefusalAfterResolveApproval ==
  ASSUME GuardsTypes, RefusalInv, NEW k \in DOMAIN calls, ResolveApproval(k)
  PROVE  RefusalInv'
<1>1. /\ UNCHANGED <<installed, runtimeError, at>> /\ at.pc = "idle" /\ calls[k].state = "asked"
  BY DEF ResolveApproval
<1>2. PICK state \in {"executed", "refused"} : calls' = [calls EXCEPT ![k].state = state]
  BY DEF ResolveApproval
<1>3. calls[k].failed \in BOOLEAN
  BY CallsTypes
<1>4. /\ DOMAIN calls' = DOMAIN calls /\ calls'[k].class = calls[k].class
      /\ \A j \in DOMAIN calls \ {k} : calls'[j] = calls[j]
  BY <1>2, <1>3, ResolvedChanges
<1>5. \A j \in DOMAIN calls, n \in DOMAIN installed : MayRun(j, n) => (MayRun(j, n))'
  BY <1>1, <1>4, MayRunStays
<1>6. ResolvedInv'
  <2>1. \A j \in DOMAIN calls, n \in DOMAIN installed :
          calls'[j].state \in {"asked", "executed"} => MayRun(j, n)
    BY <1>1, <1>4 DEF RefusalInv, ResolvedInv
  <2> QED
    BY <1>1, <1>4, <1>5, <2>1 DEF ResolvedInv
<1>7. BatchInv' /\ DecisionsInv'
  BY <1>1 DEF BatchInv, DecisionsInv, JudgedBy
<1> QED
  BY <1>6, <1>7 DEF RefusalInv

LEMMA RefusalInit == GuardsInit => RefusalInv
<1> SUFFICES ASSUME GuardsInit
             PROVE  RefusalInv
  OBVIOUS
<1>1. calls = <<>> /\ at.pc = "idle" /\ DOMAIN calls = {}
  BY DEF GuardsInit, AtIdle
<1> QED
  BY <1>1 DEF RefusalInv, BatchInv, DecisionsInv, ResolvedInv, JudgedBy

LEMMA RefusalNext ==
  ASSUME GuardsTypes, RefusalInv, [GuardsNext]_guardsVars
  PROVE  RefusalInv'
<1>1. CASE RunAgain \/ EndBatch
  <2>1. UNCHANGED <<installed, calls, runtimeError>>
    BY <1>1 DEF RunAgain, EndBatch
  <2>2. at'.pc \in {"idle", "turn"} \/ (at'.pc = "judge" /\ at'.call = 0 /\ at'.asked = {})
    BY <1>1 DEF RunAgain, EndBatch, AtIdle
  <2> QED
    BY <2>1, <2>2, RefusalAfterQuietStep
<1>2. CASE TimePasses \/ RestartProcess \/ UNCHANGED guardsVars
  <2>1. UNCHANGED <<installed, calls, runtimeError, at>>
    BY <1>2 DEF TimePasses, RestartProcess, guardsVars
  <2> QED
    BY <2>1, RefusalAfterQuietStep
<1>3. CASE PreProjectionHooks
  <2>1. UNCHANGED <<installed, calls>> /\ runtimeError \subseteq runtimeError'
    BY <1>3 DEF PreProjectionHooks
  <2>2. at'.pc \in {"idle", "provider"}
    BY <1>3 DEF PreProjectionHooks, AtIdle, GuardsTypes, At
  <2> QED
    BY <2>1, <2>2, RefusalAfterQuietStep
<1>4. ASSUME NEW k \in DOMAIN calls, NEW n \in DOMAIN installed, HandlerActs(k, n)
      PROVE  RefusalInv'
  BY <1>4, HandlerSteps, RefusalAfterHandler
<1> QED
  BY <1>1, <1>2, <1>3, <1>4, RefusalAfterProviderCalls, RefusalAfterStartJudging, RefusalAfterEndJudging,
     RefusalAfterFinishCall, RefusalAfterResolveApproval, GuardsStepCases

(* The strategies, the closures' counters, the calls of the log and the     *)
(* loop keep their types, for every manifest (Install, dispatchPendingTools *)
(* and the hooks they call).                                               *)
THEOREM GuardsTypeCorrect == GuardsSpec => []GuardsTypes
BY GuardsTypesInit, GuardsTypesNext, PTL DEF GuardsSpec

(* Whatever strategies a manifest lists and in whatever order, a call that  *)
(* one of them refuses never runs: not in the second pass, not by an        *)
(* approval, not after a restart; but for a strike guard at its limit whose *)
(* panic is isolated (dispatchPendingTools, deniedByHook, ApproveToolUse).  *)
THEOREM RefusalsHold == GuardsSpec => []RefusedNeverRuns
<1>1. GuardsSpec => []RefusalInv
  BY RefusalInit, RefusalNext, GuardsTypeCorrect, PTL DEF GuardsSpec
<1>2. RefusalInv => RefusedNeverRuns
  BY DEF RefusalInv, ResolvedInv, MayRun, Lost, RefusedNeverRuns
<1> QED
  BY <1>1, <1>2, PTL

-----------------------------------------------------------------------------
(* Counters.  Sets of calls are finite. *)
LEMMA CallSets ==
  ASSUME GuardsTypes, NEW S \in SUBSET DOMAIN calls
  PROVE  IsFiniteSet(S) /\ Cardinality(S) \in Nat
<1>1. 1 \in Int /\ Len(calls) \in Int /\ S \in SUBSET (1 .. Len(calls))
  BY CallsTypes
<1>2. IsFiniteSet(1 .. Len(calls))
  BY <1>1, FS_Interval
<1> QED
  BY <1>1, <1>2, FS_Subset, FS_CardinalityType

LEMMA CallSetsGrow ==
  ASSUME GuardsTypes, NEW S \in SUBSET DOMAIN calls, NEW T \in SUBSET S
  PROVE  Cardinality(T) \in Nat /\ Cardinality(T) <= Cardinality(S)
BY CallSets, FS_Subset

(* What TripsAreEarned asks of a strategy. *)
ClassedLike(n, class) == {k \in DOMAIN calls : calls[k].class[n] = class}

Earned(n) ==
  \/ Rejudged
  \/ installed[n].kind \in TurnKinds
  \/ /\ installed[n].kind \in StrikeKinds
     /\ \E k \in DOMAIN calls : Cardinality(InARow(n, k)) >= StrikeLimit
  \/ /\ installed[n].kind = "guard/repetition"
     /\ \/ \E class \in Classes : Cardinality(ClassedLike(n, class)) >= MaxIdenticalCalls
        \/ Cardinality(Failed) >= MaxConsecutiveFailures
        \/ Cardinality(FailedRefused) >= MaxConsecutiveRejections

LEMMA EarnedTrips == TripsAreEarned <=> \A n \in runtimeError : Earned(n)
BY DEF TripsAreEarned, Earned, Rejudged, ClassedLike, Failed, FailedRefused

LEMMA EarnedTripsNext == TripsAreEarned' <=> \A n \in runtimeError' : (Earned(n))'
BY DEF TripsAreEarned, Earned, Rejudged, ClassedLike, Failed, FailedRefused

LEMMA RejudgedStays ==
  ASSUME GuardsTypes, GuardsTypes', DOMAIN calls \subseteq DOMAIN calls',
         \A k \in DOMAIN calls : calls[k].judged <= calls'[k].judged, Rejudged
  PROVE  Rejudged'
<1>1. PICK k \in DOMAIN calls : calls[k].judged > 1
  BY DEF Rejudged
<1>2. calls[k].judged \in Nat
  BY CallsTypes
<1>3. calls'[k].judged \in Nat
  <2>1. calls' \in Seq(Call') /\ k \in DOMAIN calls'
    BY DEF GuardsTypes
  <2>2. calls'[k] \in Call'
    BY <2>1
  <2> QED
    BY <2>2 DEF Call
<1> QED
  BY <1>1, <1>2, <1>3 DEF Rejudged

(* A trip stays earned as the log grows: what is judged anew comes last. *)
LEMMA EarnedStays ==
  ASSUME GuardsTypes, GuardsTypes', installed' = installed, NEW n \in DOMAIN installed,
         Len(calls) <= Len(calls'), DOMAIN calls \subseteq DOMAIN calls',
         \A k \in DOMAIN calls : calls'[k].class = calls[k].class /\ calls[k].judged <= calls'[k].judged,
         \A k \in Judged, j \in Judged' \ Judged : k < j,
         Failed \subseteq Failed', FailedRefused \subseteq FailedRefused', Earned(n)
  PROVE  (Earned(n))'
<1>0. /\ DOMAIN calls = 1 .. Len(calls) /\ DOMAIN calls' = 1 .. Len(calls')
      /\ Len(calls) \in Nat /\ Len(calls') \in Nat
      /\ \A k \in DOMAIN calls : calls[k].judged \in Nat
      /\ \A k \in DOMAIN calls' : calls'[k].judged \in Nat
  <2>1. /\ DOMAIN calls = 1 .. Len(calls) /\ Len(calls) \in Nat
        /\ \A k \in DOMAIN calls : calls[k].judged \in Nat
    BY CallsTypes
  <2>2. calls' \in Seq(Call')
    BY DEF GuardsTypes
  <2>3. DOMAIN calls' = 1 .. Len(calls') /\ Len(calls') \in Nat
    BY <2>2
  <2>4. \A k \in DOMAIN calls' : calls'[k] \in Call'
    BY <2>2
  <2>5. \A k \in DOMAIN calls' : calls'[k].judged \in Nat
    BY <2>4 DEF Call
  <2> QED
    BY <2>1, <2>3, <2>5
<1>1. \A S, T : S \subseteq DOMAIN calls' /\ T \subseteq S =>
        Cardinality(T) \in Nat /\ Cardinality(S) \in Nat /\ Cardinality(T) <= Cardinality(S)
  <2> SUFFICES ASSUME NEW S \in SUBSET DOMAIN calls', NEW T \in SUBSET S
               PROVE  Cardinality(T) \in Nat /\ Cardinality(S) \in Nat /\ Cardinality(T) <= Cardinality(S)
    OBVIOUS
  <2>0. 1 \in Int /\ Len(calls') \in Int
    BY <1>0
  <2>1. IsFiniteSet(DOMAIN calls')
    BY <1>0, <2>0, FS_Interval
  <2>2. IsFiniteSet(S) /\ IsFiniteSet(T)
    BY <2>1, FS_Subset
  <2> QED
    BY <2>2, FS_Subset, FS_CardinalityType
<1>2. CASE Rejudged
  BY <1>2, RejudgedStays DEF Earned
<1>3. CASE installed[n].kind \in TurnKinds
  BY <1>3 DEF Earned
<1>4. CASE /\ installed[n].kind \in StrikeKinds
           /\ \E k \in DOMAIN calls : Cardinality(InARow(n, k)) >= StrikeLimit
  <2>1. PICK k \in DOMAIN calls : Cardinality(InARow(n, k)) >= StrikeLimit
    BY <1>4
  <2>2. InARow(n, k) \subseteq (InARow(n, k))'
    <3>1. ASSUME NEW i \in InARow(n, k)
          PROVE  i \in (InARow(n, k))'
      <4>1. /\ i \in k .. Len(calls) /\ i \in DOMAIN calls /\ calls[i].judged > 0
            /\ calls[i].class[n] \in {"good", "bad"}
            /\ \A j \in k .. Len(calls) :
                 calls[j].judged > 0 /\ calls[j].class[n] \in {"good", "bad"} /\ j <= i =>
                   calls[j].class[n] = "bad"
        BY <1>0, <3>1 DEF InARow
      <4>2. i \in k .. Len(calls') /\ calls'[i].judged > 0 /\ calls'[i].class[n] \in {"good", "bad"}
        BY <1>0, <4>1
      <4>3. ASSUME NEW j \in k .. Len(calls'), calls'[j].judged > 0, calls'[j].class[n] \in {"good", "bad"}, j <= i
            PROVE  calls'[j].class[n] = "bad"
        <5>1. j \in DOMAIN calls /\ j \in k .. Len(calls) /\ i \in Judged
          BY <1>0, <4>1, <4>3 DEF Judged
        <5>2. j \in Judged'
          BY <4>3, <5>1 DEF Judged
        <5>3. j \in Judged
          <6>1. j \notin Judged => i < j
            BY <5>1, <5>2
          <6>2. i \in Nat /\ j \in Nat
            BY <1>0, <4>1, <5>1
          <6> QED
            BY <4>3, <6>1, <6>2
        <5> QED
          BY <4>1, <4>3, <5>1, <5>3 DEF Judged
      <4> QED
        BY <4>2, <4>3 DEF InARow
    <3> QED
      BY <3>1
  <2>3. (InARow(n, k))' \subseteq DOMAIN calls'
    BY <1>0 DEF InARow
  <2>4. Cardinality((InARow(n, k))') >= StrikeLimit
    <3>1. /\ Cardinality(InARow(n, k)) \in Nat /\ Cardinality((InARow(n, k))') \in Nat
          /\ Cardinality(InARow(n, k)) <= Cardinality((InARow(n, k))')
      BY <1>1, <2>2, <2>3
    <3> QED
      BY <2>1, <3>1, GuardsAssumption
  <2> QED
    BY <1>4, <2>1, <2>4 DEF Earned
<1>5. CASE /\ installed[n].kind = "guard/repetition"
           /\ \E class \in Classes : Cardinality(ClassedLike(n, class)) >= MaxIdenticalCalls
  <2>1. PICK class \in Classes : Cardinality(ClassedLike(n, class)) >= MaxIdenticalCalls
    BY <1>5
  <2>2. ClassedLike(n, class) \subseteq (ClassedLike(n, class))'
    BY DEF ClassedLike
  <2>3. (ClassedLike(n, class))' \subseteq DOMAIN calls'
    BY DEF ClassedLike
  <2>4. /\ Cardinality(ClassedLike(n, class)) \in Nat /\ Cardinality((ClassedLike(n, class))') \in Nat
        /\ Cardinality(ClassedLike(n, class)) <= Cardinality((ClassedLike(n, class))')
    BY <1>1, <2>2, <2>3
  <2>5. Cardinality((ClassedLike(n, class))') >= MaxIdenticalCalls
    BY <2>1, <2>4, GuardsAssumption
  <2> QED
    BY <1>5, <2>5 DEF Earned
<1>6. CASE installed[n].kind = "guard/repetition" /\ Cardinality(Failed) >= MaxConsecutiveFailures
  <2>1. /\ Cardinality(Failed) \in Nat /\ Cardinality(Failed') \in Nat
        /\ Cardinality(Failed) <= Cardinality(Failed')
    <3>1. Failed' \subseteq DOMAIN calls'
      BY DEF Failed
    <3> QED
      BY <1>1, <3>1
  <2>2. Cardinality(Failed') >= MaxConsecutiveFailures
    BY <1>6, <2>1, GuardsAssumption
  <2> QED
    BY <1>6, <2>2 DEF Earned
<1>7. CASE installed[n].kind = "guard/repetition" /\ Cardinality(FailedRefused) >= MaxConsecutiveRejections
  <2>1. /\ Cardinality(FailedRefused) \in Nat /\ Cardinality(FailedRefused') \in Nat
        /\ Cardinality(FailedRefused) <= Cardinality(FailedRefused')
    <3>1. FailedRefused' \subseteq DOMAIN calls'
      BY DEF FailedRefused
    <3> QED
      BY <1>1, <3>1
  <2>2. Cardinality(FailedRefused') >= MaxConsecutiveRejections
    BY <1>7, <2>1, GuardsAssumption
  <2> QED
    BY <1>7, <2>2 DEF Earned
<1> QED
  BY <1>2, <1>3, <1>4, <1>5, <1>6, <1>7 DEF Earned

(* What the counters are about are sets of calls. *)
LEMMA CountedSets ==
  ASSUME GuardsTypes, NEW n \in DOMAIN installed
  PROVE  /\ Passed(n) \subseteq DOMAIN calls /\ Judged \subseteq DOMAIN calls
         /\ LastBad(n) \in SUBSET DOMAIN calls
         /\ Cardinality(LastBad(n)) \in Nat
         /\ \A class \in Classes : /\ Like(n, class) \in SUBSET DOMAIN calls
                                   /\ Cardinality(Like(n, class)) \in Nat
         /\ Failed \in SUBSET DOMAIN calls /\ Cardinality(Failed) \in Nat
         /\ FailedRefused \in SUBSET DOMAIN calls /\ Cardinality(FailedRefused) \in Nat
<1>1. /\ Passed(n) \subseteq DOMAIN calls /\ Judged \subseteq DOMAIN calls
      /\ LastBad(n) \in SUBSET DOMAIN calls
      /\ \A class \in Classes : Like(n, class) \in SUBSET DOMAIN calls
      /\ Failed \in SUBSET DOMAIN calls /\ FailedRefused \in SUBSET DOMAIN calls
  BY DEF Passed, Judged, LastBad, Concerning, Like, Failed, FailedRefused
<1> QED
  BY <1>1, CallSets

(* The sets are as they were where the calls that were judged are. *)
LEMMA SameSets ==
  ASSUME NEW n, Passed(n)' = Passed(n), \A k \in Passed(n) : calls'[k].class = calls[k].class
  PROVE  LastBad(n)' = LastBad(n) /\ \A class : Like(n, class)' = Like(n, class)
<1>1. Concerning(n)' = Concerning(n)
  <2>1. Concerning(n)' = {k \in Passed(n) : calls'[k].class[n] \in {"good", "bad"}}
    BY DEF Concerning
  <2>2. \A k \in Passed(n) : calls'[k].class[n] \in {"good", "bad"} <=> calls[k].class[n] \in {"good", "bad"}
    OBVIOUS
  <2> QED
    BY <2>1, <2>2 DEF Concerning
<1>2. \A k \in Concerning(n) : calls'[k].class = calls[k].class
  BY DEF Concerning
<1>3. LastBad(n)' = LastBad(n)
  <2>1. LastBad(n)' = {k \in Concerning(n) :
                         \A j \in Concerning(n) : k <= j => calls'[j].class[n] = "bad"}
    BY <1>1 DEF LastBad
  <2>2. \A j \in Concerning(n) : calls'[j].class[n] = "bad" <=> calls[j].class[n] = "bad"
    BY <1>2
  <2> QED
    BY <2>1, <2>2 DEF LastBad
<1>4. ASSUME NEW class
      PROVE  Like(n, class)' = Like(n, class)
  <2>1. Like(n, class)' = {k \in Passed(n) : calls'[k].class[n] = class}
    BY DEF Like
  <2>2. \A k \in Passed(n) : calls'[k].class[n] = class <=> calls[k].class[n] = class
    OBVIOUS
  <2> QED
    BY <2>1, <2>2 DEF Like
<1> QED
  BY <1>3, <1>4

(* Trips are earned after a step whose own trips are. *)
LEMMA TripsStayEarned ==
  ASSUME GuardsTypes, GuardsTypes', CountersInv, installed' = installed,
         Len(calls) <= Len(calls'), DOMAIN calls \subseteq DOMAIN calls',
         \A k \in DOMAIN calls : calls'[k].class = calls[k].class /\ calls[k].judged <= calls'[k].judged,
         \A k \in Judged, j \in Judged' \ Judged : k < j,
         Failed \subseteq Failed', FailedRefused \subseteq FailedRefused',
         \A n \in runtimeError' \ runtimeError : (Earned(n))'
  PROVE  TripsAreEarned'
<1>1. ASSUME NEW n \in runtimeError
      PROVE  (Earned(n))'
  <2>1. Earned(n) /\ n \in DOMAIN installed
    BY EarnedTrips DEF CountersInv, GuardsTypes
  <2> QED
    BY <2>1, EarnedStays
<1> QED
  BY <1>1, EarnedTripsNext

(* A step that leaves the calls alone, and the counters or resets them. *)
LEMMA CountersAfterQuietStep ==
  ASSUME GuardsTypes, GuardsTypes', CountersInv, UNCHANGED <<installed, calls>>,
         \A n \in DOMAIN installed :
           /\ memory'[n].strikes \in {0, memory[n].strikes}
           /\ memory'[n].failures \in {0, memory[n].failures}
           /\ memory'[n].rejections \in {0, memory[n].rejections}
           /\ \A class \in Classes : memory'[n].seen[class] \in {0, memory[n].seen[class]},
         runtimeError \subseteq runtimeError',
         \A n \in runtimeError' \ runtimeError : installed[n].kind \in TurnKinds,
         \/ at' = at
         \/ /\ at.pc # "judging" /\ ~(at.pc = "idle" /\ Tripped)
            /\ at'.pc \in {"idle", "turn", "provider"} \/ (at'.pc = "judge" /\ at'.call = 0)
  PROVE  CountersInv'
<1>1. /\ DOMAIN calls' = DOMAIN calls /\ Judged' = Judged /\ OpenCalls' = OpenCalls
      /\ (Rejudged <=> Rejudged') /\ Failed' = Failed /\ FailedRefused' = FailedRefused
      /\ \A k \in DOMAIN calls : k \in Nat /\ k > 0
      /\ OpenCalls \subseteq DOMAIN calls
  BY CallsTypes DEF Judged, OpenCalls, Open, Rejudged, Failed, FailedRefused
<1>2. \A n : Passed(n)' = Passed(n)
  BY <1>1 DEF Passed
<1>3. /\ \A n : LastBad(n)' = LastBad(n)
      /\ \A n, class : Like(n, class)' = Like(n, class)
  BY <1>2 DEF LastBad, Concerning, Like
<1>4. OrderInv'
  <2>1. CASE at' = at
    BY <1>1, <2>1 DEF CountersInv, OrderInv
  <2>2. CASE at'.pc \in {"idle", "turn", "provider"}
    BY <1>1, <2>2 DEF CountersInv, OrderInv
  <2>3. CASE at'.pc = "judge" /\ at'.call = 0
    BY <1>1, <2>3 DEF CountersInv, OrderInv
  <2> QED
    BY <2>1, <2>2, <2>3
<1>5. StrikesInv'
  <2>1. CASE Rejudged \/ (at.pc = "idle" /\ Tripped)
    BY <1>1, <2>1 DEF StrikesInv, Tripped
  <2>2. CASE \A n \in DOMAIN installed :
               installed[n].kind \in StrikeKinds => memory[n].strikes <= Cardinality(LastBad(n))
    <3>1. \A n \in DOMAIN installed :
            installed[n].kind \in StrikeKinds => memory'[n].strikes <= Cardinality(LastBad(n)')
      BY <1>3, <2>2, CountedSets
    <3> QED
      BY <3>1 DEF StrikesInv
  <2> QED
    BY <2>1, <2>2 DEF CountersInv, StrikesInv
<1>6. SeenInv'
  <2>1. CASE Rejudged
    BY <1>1, <2>1 DEF SeenInv
  <2>2. CASE \A n \in DOMAIN installed, class \in Classes :
               memory[n].seen[class] <= Cardinality(Like(n, class))
    <3>1. \A n \in DOMAIN installed, class \in Classes :
            memory'[n].seen[class] <= Cardinality(Like(n, class)')
      BY <1>3, <2>2, CountedSets
    <3> QED
      BY <3>1 DEF SeenInv
  <2> QED
    BY <2>1, <2>2 DEF CountersInv, SeenInv
<1>7. ResultsInv'
  <2>1. \A n \in DOMAIN installed : /\ memory'[n].failures <= Cardinality(Failed)
                                    /\ memory'[n].rejections <= Cardinality(FailedRefused)
    BY CountedSets DEF CountersInv, ResultsInv
  <2> QED
    BY <1>1, <2>1 DEF CountersInv, ResultsInv
<1>8. TripsAreEarned'
  <2>1. \A n \in runtimeError' \ runtimeError : (Earned(n))'
    BY DEF Earned
  <2>2. \A k \in DOMAIN calls : calls'[k].class = calls[k].class /\ calls[k].judged <= calls'[k].judged
    BY CallsTypes
  <2>3. Len(calls) <= Len(calls')
    BY CallsTypes
  <2> QED
    BY <1>1, <2>1, <2>2, <2>3, TripsStayEarned
<1> QED
  BY <1>4, <1>5, <1>6, <1>7, <1>8 DEF CountersInv

(* The calls of a new step, unjudged, come after the others. *)
LEMMA CountersAfterProviderCalls ==
  ASSUME GuardsTypes, GuardsTypes', CountersInv, ProviderCalls
  PROVE  CountersInv'
<1>0. UNCHANGED <<installed, memory, runtimeError>> /\ at.pc = "provider"
  BY ProviderCallsSteps
<1>1. CASE at' = AtIdle /\ calls' = calls
  BY <1>0, <1>1, CountersAfterQuietStep DEF AtIdle
<1>2. CASE /\ at'.pc = "judge" /\ at'.call = 0 /\ calls' \in Seq(Call) /\ Len(calls) <= Len(calls')
           /\ \A k \in DOMAIN calls : k \in DOMAIN calls' /\ calls'[k] = calls[k]
           /\ \A k \in DOMAIN calls' \ DOMAIN calls :
                /\ k > Len(calls) /\ calls'[k].state = "pending"
                /\ calls'[k].judged = 0 /\ calls'[k].failed = FALSE
  <2>1. /\ Len(calls) \in Nat /\ DOMAIN calls = 1 .. Len(calls)
        /\ Len(calls') \in Nat /\ DOMAIN calls' = 1 .. Len(calls')
        /\ DOMAIN calls \subseteq DOMAIN calls'
        /\ \A k \in DOMAIN calls : k \in Nat /\ k > 0 /\ calls[k].judged \in Nat
    BY <1>2, CallsTypes
  <2>2. /\ Judged' = Judged /\ Failed' = Failed /\ FailedRefused' = FailedRefused
        /\ (Rejudged <=> Rejudged')
    BY <1>2, <2>1 DEF Judged, Failed, FailedRefused, Rejudged
  <2>3. \A n : Passed(n)' = Passed(n)
    BY <1>0, <1>2, <2>2 DEF Passed
  <2>4. \A n : \A k \in Passed(n) : calls'[k].class = calls[k].class
    BY <1>2 DEF Passed, Judged
  <2>5. ASSUME NEW n
        PROVE  LastBad(n)' = LastBad(n) /\ \A class : Like(n, class)' = Like(n, class)
    <3>1. Passed(n)' = Passed(n)
      BY <2>3
    <3>2. \A k \in Passed(n) : calls'[k].class = calls[k].class
      BY <2>4
    <3> QED
      BY <3>1, <3>2, SameSets
  <2>7. OrderInv'
    <3>1. \A k \in DOMAIN calls' \ Judged' : calls'[k].state = "pending"
      BY <1>2, <2>2 DEF CountersInv, OrderInv
    <3>2. \A k \in Judged' : \A j \in 1 .. k : j \in Judged'
      BY <2>2 DEF CountersInv, OrderInv
    <3>3. \A k \in DOMAIN calls' : ~(k <= 0)
      BY <2>1
    <3> QED
      BY <1>2, <3>1, <3>2, <3>3 DEF OrderInv, OpenCalls
  <2>8. StrikesInv' /\ SeenInv'
    BY <1>0, <1>2, <2>2, <2>5 DEF CountersInv, StrikesInv, SeenInv
  <2>9. ResultsInv'
    <3>1. \A k \in OpenCalls' : ~calls'[k].failed
      <4>1. \A k \in OpenCalls' : k \in DOMAIN calls' /\ (k \in DOMAIN calls => k \in OpenCalls)
        BY <1>2 DEF OpenCalls, Open
      <4> QED
        BY <1>2, <4>1 DEF CountersInv, ResultsInv
    <3> QED
      BY <1>0, <2>2, <3>1 DEF CountersInv, ResultsInv
  <2>10. TripsAreEarned'
    <3>1. \A k \in DOMAIN calls : calls'[k].class = calls[k].class /\ calls[k].judged <= calls'[k].judged
      BY <1>2, <2>1
    <3> QED
      BY <1>0, <1>2, <2>1, <2>2, <3>1, TripsStayEarned
  <2> QED
    BY <2>7, <2>8, <2>9, <2>10 DEF CountersInv
<1> QED
  BY <1>1, <1>2, ProviderCallsSteps, Zenon

(* The first pass comes to a call: it has come to those before it. *)
LEMMA CountersAfterStartJudging ==
  ASSUME GuardsTypes, GuardsTypes', CountersInv, StartJudging
  PROVE  CountersInv'
<1>0. UNCHANGED <<installed, memory, runtimeError>> /\ at.pc = "judge" /\ at.call \in Nat
  BY StartJudgingSteps DEF StartJudging, GuardsTypes, At
<1>1. PICK k \in FirstOpen(at.call + 1) :
        /\ k \in DOMAIN calls
        /\ calls' = [calls EXCEPT ![k].judged = calls[k].judged + 1]
        /\ at'.pc = "judging" /\ at'.call = k /\ at'.handler = 1
  BY StartJudgingSteps
<1>2. k \in OpenCalls /\ \A j \in OpenCalls : j < k => j < at.call + 1
  BY <1>0, FirstOpenIsFirst
<1>3. /\ \A j \in DOMAIN calls : j \in Nat /\ j > 0 /\ calls[j].judged \in Nat
      /\ DOMAIN calls = 1 .. Len(calls) /\ Len(calls) \in Nat /\ OpenCalls \subseteq DOMAIN calls
  BY CallsTypes DEF OpenCalls
<1>4. /\ DOMAIN calls' = DOMAIN calls /\ Len(calls') = Len(calls)
      /\ calls'[k].judged = calls[k].judged + 1
      /\ \A j \in DOMAIN calls \ {k} : calls'[j] = calls[j]
      /\ \A j \in DOMAIN calls : /\ calls'[j].class = calls[j].class /\ calls'[j].state = calls[j].state
                                 /\ calls'[j].failed = calls[j].failed
                                 /\ calls[j].judged <= calls'[j].judged
  <2>1. /\ DOMAIN calls' = DOMAIN calls /\ Len(calls') = Len(calls)
        /\ calls'[k].judged = calls[k].judged + 1 /\ calls'[k].class = calls[k].class
        /\ calls'[k].state = calls[k].state /\ calls'[k].failed = calls[k].failed
        /\ \A j \in DOMAIN calls \ {k} : calls'[j] = calls[j]
    BY <1>1, JudgedChanges
  <2>2. \A j \in DOMAIN calls : calls[j].judged <= calls'[j].judged
    BY <1>3, <2>1
  <2> QED
    BY <2>1, <2>2
<1>5. /\ Judged' = Judged \cup {k} /\ OpenCalls' = OpenCalls
      /\ Failed' = Failed /\ FailedRefused' = FailedRefused
      /\ Rejudged => Rejudged'
  <2>1. Judged' = Judged \cup {k}
    BY <1>1, <1>3, <1>4 DEF Judged
  <2>2. OpenCalls' = OpenCalls /\ Failed' = Failed /\ FailedRefused' = FailedRefused
    BY <1>4 DEF OpenCalls, Open, Failed, FailedRefused
  <2>3. Rejudged => Rejudged'
    BY <1>4, RejudgedStays
  <2> QED
    BY <2>1, <2>2, <2>3
<1>6. Rejudged' \/ (k \notin Judged /\ \A j \in Judged : j < k)
  <2>1. CASE k \in Judged
    BY <1>1, <1>3, <1>4, <2>1 DEF Judged, Rejudged
  <2>2. CASE k \notin Judged
    <3>1. ASSUME NEW j \in Judged, ~(j < k)
          PROVE  FALSE
      <4>1. j \in Nat /\ k \in 1 .. j
        BY <1>1, <1>3, <3>1 DEF Judged
      <4> QED
        BY <2>2, <3>1, <4>1 DEF CountersInv, OrderInv
    <3> QED
      BY <2>2, <3>1
  <2> QED
    BY <2>1, <2>2
<1>7. \A j \in OpenCalls : j < k => j \in Judged
  <2>1. ASSUME NEW j \in OpenCalls, j < k
        PROVE  j \in Judged
    <3>1. j <= at.call
      BY <1>0, <1>2, <1>3, <2>1
    <3> QED
      BY <1>0, <2>1, <3>1 DEF CountersInv, OrderInv
  <2> QED
    BY <2>1
<1>8. OrderInv'
  <2>1. \A j \in DOMAIN calls' \ Judged' : calls'[j].state = "pending"
    BY <1>4, <1>5 DEF CountersInv, OrderInv
  <2>2. ASSUME NEW i \in Judged', NEW j \in 1 .. i
        PROVE  j \in Judged'
    <3>1. CASE i \in Judged
      BY <1>5, <2>2, <3>1 DEF CountersInv, OrderInv
    <3>2. CASE i = k
      <4>1. j \in DOMAIN calls /\ (j < k \/ j = k)
        BY <1>1, <1>3, <2>2, <3>2
      <4>2. j \in Judged \/ j \in OpenCalls
        BY <4>1 DEF CountersInv, OrderInv, OpenCalls, Open
      <4> QED
        BY <1>5, <1>7, <4>1, <4>2
    <3> QED
      BY <1>5, <3>1, <3>2
  <2>3. \A j \in OpenCalls' : j <= k => j \in Judged'
    BY <1>1, <1>3, <1>5, <1>7
  <2>4. Rejudged' \/ \A j \in Judged' : j <= k
    <3>1. CASE k \notin Judged /\ \A j \in Judged : j < k
      <4>1. \A j \in Judged : j <= k
        BY <1>1, <1>3, <3>1 DEF Judged
      <4>2. k <= k
        BY <1>1, <1>3
      <4> QED
        BY <1>5, <4>1, <4>2
    <3> QED
      BY <1>6, <3>1
  <2> QED
    BY <1>1, <2>1, <2>2, <2>3, <2>4 DEF OrderInv
<1>9. StrikesInv' /\ SeenInv'
  <2>1. CASE Rejudged'
    BY <2>1 DEF StrikesInv, SeenInv
  <2>2. CASE ~Rejudged'
    <3>1. k \notin Judged /\ ~Rejudged
      BY <1>5, <1>6, <2>2
    <3>2. ASSUME NEW n \in DOMAIN installed
          PROVE  LastBad(n)' = LastBad(n) /\ \A class : Like(n, class)' = Like(n, class)
      <4>1. 1 <= n
        BY InstalledTypes DEF GuardsTypes
      <4>2. Passed(n) = Judged
        BY <1>0 DEF Passed
      <4>3. Passed(n)' = {j \in Judged \cup {k} : ~(j = k /\ 1 <= n)}
        BY <1>1, <1>5 DEF Passed
      <4>4. Passed(n)' = Passed(n)
        BY <3>1, <4>1, <4>2, <4>3
      <4>5. \A j \in Passed(n) : calls'[j].class = calls[j].class
        BY <1>4, <4>2 DEF Judged
      <4> QED
        BY <4>4, <4>5, SameSets
    <3>3. /\ \A n \in DOMAIN installed :
               installed[n].kind \in StrikeKinds => memory[n].strikes <= Cardinality(LastBad(n))
          /\ \A n \in DOMAIN installed, class \in Classes :
               memory[n].seen[class] <= Cardinality(Like(n, class))
      BY <1>0, <3>1 DEF CountersInv, StrikesInv, SeenInv
    <3> QED
      BY <1>0, <3>2, <3>3 DEF StrikesInv, SeenInv
  <2> QED
    BY <2>1, <2>2
<1>10. ResultsInv'
  BY <1>0, <1>3, <1>4, <1>5 DEF CountersInv, ResultsInv
<1>11. TripsAreEarned'
  <2>1. CASE Rejudged'
    BY <2>1, EarnedTripsNext DEF Earned
  <2>2. CASE \A j \in Judged : j < k
    <3>1. \A i \in Judged, j \in Judged' \ Judged : i < j
      BY <1>5, <2>2
    <3>2. Len(calls) <= Len(calls')
      BY <1>3, <1>4
    <3> QED
      BY <1>0, <1>4, <1>5, <3>1, <3>2, TripsStayEarned
  <2> QED
    BY <1>6, <2>1, <2>2
<1> QED
  BY <1>8, <1>9, <1>10, <1>11 DEF CountersInv

(* A step between handlers that changes the state of calls, and not what    *)
(* was judged or failed.                                                   *)
LEMMA CountersAfterResolution ==
  ASSUME GuardsTypes, GuardsTypes', CountersInv, UNCHANGED <<installed, memory, runtimeError>>,
         at.pc # "judging" /\ at'.pc # "judging", at.pc # "idle" \/ at'.pc = "idle",
         DOMAIN calls' = DOMAIN calls, Len(calls') = Len(calls),
         \A k \in DOMAIN calls : /\ calls'[k].class = calls[k].class /\ calls'[k].judged = calls[k].judged
                                 /\ calls'[k].failed = calls[k].failed,
         FailedRefused \subseteq FailedRefused', OpenCalls' \subseteq OpenCalls, OrderInv'
  PROVE  CountersInv'
<1>1. Judged' = Judged /\ Failed' = Failed /\ (Rejudged <=> Rejudged')
  BY DEF Judged, Failed, Rejudged
<1>2. ASSUME NEW n \in DOMAIN installed
      PROVE  LastBad(n)' = LastBad(n) /\ \A class : Like(n, class)' = Like(n, class)
  <2>1. Passed(n)' = Judged' /\ Passed(n) = Judged
    BY DEF Passed
  <2>2. \A k \in Passed(n) : calls'[k].class = calls[k].class
    BY DEF Passed, Judged
  <2> QED
    BY <1>1, <2>1, <2>2, SameSets
<1>3. StrikesInv' /\ SeenInv'
  BY <1>1, <1>2 DEF CountersInv, StrikesInv, SeenInv, Tripped
<1>4. ResultsInv'
  <2>1. \A k \in OpenCalls' : ~calls'[k].failed
    BY DEF CountersInv, ResultsInv, OpenCalls
  <2>2. ASSUME NEW n \in DOMAIN installed
        PROVE  memory[n].rejections <= Cardinality(FailedRefused')
    <3>1. FailedRefused' \in SUBSET DOMAIN calls
      BY DEF FailedRefused
    <3>2. /\ Cardinality(FailedRefused) \in Nat /\ Cardinality(FailedRefused') \in Nat
          /\ Cardinality(FailedRefused) <= Cardinality(FailedRefused')
      BY <3>1, CallSetsGrow, CallSets
    <3>3. memory[n].rejections <= Cardinality(FailedRefused) /\ memory[n].rejections \in Nat
      BY MemoryTypes DEF CountersInv, ResultsInv
    <3> QED
      BY <3>2, <3>3
  <2> QED
    BY <1>1, <2>1, <2>2 DEF CountersInv, ResultsInv
<1>5. TripsAreEarned'
  <2>1. Len(calls) <= Len(calls') /\ \A k \in DOMAIN calls : calls[k].judged <= calls'[k].judged
    BY CallsTypes
  <2> QED
    BY <1>1, <2>1, TripsStayEarned
<1> QED
  BY <1>3, <1>4, <1>5 DEF CountersInv

LEMMA CountersAfterEndJudging ==
  ASSUME GuardsTypes, GuardsTypes', BatchInv, CountersInv, EndJudging
  PROVE  CountersInv'
<1>0. /\ UNCHANGED <<installed, memory, runtimeError>> /\ at.pc = "judge" /\ at.call \in Nat
      /\ FirstOpen(at.call + 1) = {}
  BY EndJudgingSteps DEF GuardsTypes, At
<1>1. OpenCalls \subseteq Judged
  <2>1. \A k \in OpenCalls : k < at.call + 1
    BY <1>0, FirstOpenIsFirst
  <2>2. \A k \in OpenCalls : k <= at.call
    BY <1>0, <2>1, CallsTypes DEF OpenCalls
  <2> QED
    BY <1>0, <2>2 DEF CountersInv, OrderInv
<1>2. CASE calls' = calls /\ at'.pc = "tools"
  <2>1. /\ OpenCalls' = OpenCalls /\ Judged' = Judged /\ FailedRefused' = FailedRefused
    BY <1>2 DEF OpenCalls, Open, Judged, FailedRefused
  <2>2. OrderInv'
    BY <1>1, <1>2, <2>1 DEF CountersInv, OrderInv
  <2> QED
    BY <1>0, <1>2, <2>1, <2>2, CountersAfterResolution
<1>3. CASE /\ at' = AtIdle
           /\ calls' = [k \in DOMAIN calls |->
                          IF k \in ToAsk THEN [calls[k] EXCEPT !.state = "asked"] ELSE calls[k]]
  <2>1. /\ DOMAIN calls' = DOMAIN calls /\ Len(calls') = Len(calls)
        /\ \A k \in DOMAIN calls :
             /\ calls'[k].class = calls[k].class /\ calls'[k].judged = calls[k].judged
             /\ calls'[k].failed = calls[k].failed
             /\ calls'[k].state = IF k \in ToAsk THEN "asked" ELSE calls[k].state
    BY <1>3, AskedChanges
  <2>2. ToAsk \subseteq OpenCalls
    BY <1>0 DEF ToAsk, BatchInv
  <2>3. OpenCalls' = OpenCalls /\ FailedRefused \subseteq FailedRefused' /\ Judged' = Judged
    <3>1. OpenCalls' = OpenCalls
      BY <2>1, <2>2 DEF OpenCalls, Open
    <3>2. \A k \in FailedRefused : k \in DOMAIN calls /\ k \notin ToAsk
      BY <2>2 DEF FailedRefused, OpenCalls, Open
    <3> QED
      BY <2>1, <3>1, <3>2 DEF FailedRefused, Judged
  <2>4. OrderInv'
    <3>1. at'.pc = "idle"
      BY <1>3 DEF AtIdle
    <3>2. \A k \in DOMAIN calls' \ Judged' : calls'[k].state = "pending"
      BY <1>1, <2>1, <2>2, <2>3 DEF CountersInv, OrderInv
    <3> QED
      BY <2>3, <3>1, <3>2 DEF CountersInv, OrderInv
  <2> QED
    BY <1>0, <1>3, <2>1, <2>3, <2>4, CountersAfterResolution DEF AtIdle
<1> QED
  BY <1>2, <1>3, EndJudgingSteps, Zenon

(* The host resolves a call that awaits its approval. *)
LEMMA CountersAfterResolveApproval ==
  ASSUME GuardsTypes, GuardsTypes', CountersInv, NEW k \in DOMAIN calls, ResolveApproval(k)
  PROVE  CountersInv'
<1>1. PICK state \in {"executed", "refused"} : calls' = [calls EXCEPT ![k].state = state]
  BY DEF ResolveApproval
<1>2. /\ UNCHANGED <<installed, memory, runtimeError, at>> /\ at.pc = "idle" /\ calls[k].state = "asked"
  BY DEF ResolveApproval
<1>3. /\ DOMAIN calls' = DOMAIN calls /\ Len(calls') = Len(calls)
      /\ calls'[k].state = state /\ calls'[k].failed = calls[k].failed
      /\ calls'[k].class = calls[k].class /\ calls'[k].judged = calls[k].judged
      /\ \A j \in DOMAIN calls \ {k} : calls'[j] = calls[j]
  BY <1>1, CallsTypes, ResolvedChanges
<1>4. OpenCalls' \subseteq OpenCalls /\ FailedRefused \subseteq FailedRefused' /\ Judged' = Judged
  BY <1>2, <1>3 DEF OpenCalls, Open, FailedRefused, Judged
<1>5. OrderInv'
  <2>1. \A j \in DOMAIN calls' \ Judged' : calls'[j].state = "pending"
    BY <1>2, <1>3, <1>4 DEF CountersInv, OrderInv
  <2> QED
    BY <1>2, <1>4, <2>1 DEF CountersInv, OrderInv
<1> QED
  BY <1>2, <1>3, <1>4, <1>5, CountersAfterResolution

(* The second pass resolves a call, and the repetition guard counts. *)
LEMMA CountersAfterFinishCall ==
  ASSUME GuardsTypes, GuardsTypes', CountersInv, FinishCall
  PROVE  CountersInv'
<1>0. UNCHANGED installed /\ at.pc = "tools" /\ at'.pc = "tools" /\ runtimeError \subseteq runtimeError'
  BY FinishCallSteps
<1>1. PICK k \in OpenCalls, failed \in BOOLEAN :
        /\ k \in DOMAIN calls /\ (k \in at.refused => failed)
        /\ calls' = [calls EXCEPT ![k].failed = failed,
                                  ![k].state = IF k \in at.refused THEN "refused" ELSE "executed"]
        /\ \A n \in DOMAIN installed : \/ memory'[n] = memory[n]
                                       \/ memory'[n] = CountResult(n, failed, k \in at.refused)
        /\ \A n \in runtimeError' \ runtimeError :
             /\ installed[n].kind = "guard/repetition"
             /\ \/ memory'[n].failures >= MaxConsecutiveFailures
                \/ memory'[n].rejections >= MaxConsecutiveRejections
  BY FinishCallSteps
<1> DEFINE refused == k \in at.refused
           state == IF refused THEN "refused" ELSE "executed"
<1>2. /\ DOMAIN calls' = DOMAIN calls /\ Len(calls') = Len(calls)
      /\ calls'[k].state = state /\ calls'[k].failed = failed
      /\ calls'[k].class = calls[k].class /\ calls'[k].judged = calls[k].judged
      /\ \A j \in DOMAIN calls \ {k} : calls'[j] = calls[j]
  <2>1. state \in {"executed", "refused"} /\ calls' = [calls EXCEPT ![k].failed = failed, ![k].state = state]
    BY <1>1
  <2> HIDE DEF state
  <2> QED
    BY <1>1, <2>1, ResolvedChanges
<1>3. /\ Judged' = Judged /\ (Rejudged <=> Rejudged') /\ OpenCalls' = OpenCalls \ {k} /\ k \in Judged
  <2>1. Judged' = Judged /\ (Rejudged <=> Rejudged')
    BY <1>2 DEF Judged, Rejudged
  <2>2. OpenCalls' = OpenCalls \ {k}
    BY <1>1, <1>2 DEF OpenCalls, Open
  <2>3. k \in Judged
    BY <1>0, <1>1 DEF CountersInv, OrderInv
  <2> QED
    BY <2>1, <2>2, <2>3
<1>4. /\ k \notin Failed /\ k \notin FailedRefused
      /\ Failed' = IF failed THEN Failed \cup {k} ELSE Failed
      /\ FailedRefused' = IF refused THEN FailedRefused \cup {k} ELSE FailedRefused
  <2>1. ~calls[k].failed
    BY <1>1 DEF CountersInv, ResultsInv
  <2>2. k \notin Failed /\ k \notin FailedRefused
    BY <2>1 DEF Failed, FailedRefused
  <2>3. \A j \in DOMAIN calls' : j \in Failed' <=> (j \in Failed \/ (j = k /\ failed))
    BY <1>2, <2>1 DEF Failed
  <2>4. \A j \in DOMAIN calls' : j \in FailedRefused' <=> (j \in FailedRefused \/ (j = k /\ refused))
    BY <1>1, <1>2, <2>1 DEF FailedRefused
  <2>5. /\ Failed \subseteq DOMAIN calls' /\ Failed' \subseteq DOMAIN calls'
        /\ FailedRefused \subseteq DOMAIN calls' /\ FailedRefused' \subseteq DOMAIN calls'
    BY <1>2 DEF Failed, FailedRefused
  <2>0. k \in DOMAIN calls'
    BY <1>1, <1>2
  <2>6. Failed' = IF failed THEN Failed \cup {k} ELSE Failed
    <3>1. failed => Failed' = Failed \cup {k}
      BY ONLY <2>0, <2>3, <2>5
    <3>2. ~failed => Failed' = Failed
      BY ONLY <2>3, <2>5
    <3> QED
      BY <3>1, <3>2
  <2>7. FailedRefused' = IF refused THEN FailedRefused \cup {k} ELSE FailedRefused
    <3> HIDE DEF refused
    <3>1. refused => FailedRefused' = FailedRefused \cup {k}
      BY ONLY <2>0, <2>4, <2>5
    <3>2. ~refused => FailedRefused' = FailedRefused
      BY ONLY <2>4, <2>5
    <3> QED
      BY <3>1, <3>2
  <2> QED
    BY <2>2, <2>6, <2>7
<1>5. ASSUME NEW n \in DOMAIN installed
      PROVE  LastBad(n)' = LastBad(n) /\ \A class : Like(n, class)' = Like(n, class)
  <2>1. Passed(n)' = Judged' /\ Passed(n) = Judged
    BY <1>0 DEF Passed
  <2>2. \A j \in Passed(n) : calls'[j].class = calls[j].class
    BY <1>2 DEF Passed, Judged
  <2> QED
    BY <1>3, <2>1, <2>2, SameSets
<1>6. ASSUME NEW n \in DOMAIN installed
      PROVE  /\ memory'[n].strikes = memory[n].strikes /\ memory'[n].seen = memory[n].seen
             /\ memory'[n].failures \in {0, memory[n].failures}
                  \/ (failed /\ memory'[n].failures = memory[n].failures + 1)
             /\ memory'[n].rejections \in {0, memory[n].rejections}
                  \/ (refused /\ memory'[n].rejections = memory[n].rejections + 1)
  <2>1. CASE memory'[n] = memory[n]
    BY <2>1
  <2>2. CASE memory'[n] = CountResult(n, failed, refused)
    <3> DEFINE f == IF failed THEN memory[n].failures + 1 ELSE 0
               r == IF refused THEN memory[n].rejections + 1 ELSE 0
    <3>1. memory'[n] = [memory[n] EXCEPT !.failures = f, !.rejections = r]
      BY <2>2 DEF CountResult
    <3>2. f = 0 \/ (failed /\ f = memory[n].failures + 1)
      OBVIOUS
    <3>3. r = 0 \/ (refused /\ r = memory[n].rejections + 1)
      OBVIOUS
    <3>4. memory[n] \in Memory
      BY MemoryTypes
    <3> HIDE DEF f, r, refused
    <3> QED
      BY <3>1, <3>2, <3>3, <3>4 DEF Memory
  <2> QED
    BY <1>1, <2>1, <2>2
<1>7. OrderInv'
  BY <1>0, <1>2, <1>3 DEF CountersInv, OrderInv
<1>8. StrikesInv' /\ SeenInv'
  BY <1>0, <1>3, <1>5, <1>6 DEF CountersInv, StrikesInv, SeenInv
<1>9. ResultsInv'
  <2>1. \A j \in OpenCalls' : ~calls'[j].failed
    <3>1. \A j \in OpenCalls' : j \in OpenCalls /\ j \in DOMAIN calls \ {k}
      BY <1>3 DEF OpenCalls
    <3> QED
      BY <1>2, <3>1 DEF CountersInv, ResultsInv
  <2>2. ASSUME NEW n \in DOMAIN installed
        PROVE  /\ memory'[n].failures <= Cardinality(Failed')
               /\ memory'[n].rejections <= Cardinality(FailedRefused')
    <3>1. /\ Cardinality(Failed) \in Nat /\ Cardinality(FailedRefused) \in Nat
          /\ IsFiniteSet(Failed) /\ IsFiniteSet(FailedRefused)
          /\ memory[n].failures \in Nat /\ memory[n].rejections \in Nat
      BY CountedSets, CallSets, MemoryTypes
    <3>2. /\ memory[n].failures <= Cardinality(Failed)
          /\ memory[n].rejections <= Cardinality(FailedRefused)
      BY DEF CountersInv, ResultsInv
    <3>3. Cardinality(Failed') = IF failed THEN Cardinality(Failed) + 1 ELSE Cardinality(Failed)
      BY <1>4, <3>1, FS_AddElement
    <3>4. Cardinality(FailedRefused') = IF refused THEN Cardinality(FailedRefused) + 1
                                        ELSE Cardinality(FailedRefused)
      BY <1>4, <3>1, FS_AddElement
    <3>5. /\ memory'[n].failures \in {0, memory[n].failures}
               \/ (failed /\ memory'[n].failures = memory[n].failures + 1)
          /\ memory'[n].rejections \in {0, memory[n].rejections}
               \/ (refused /\ memory'[n].rejections = memory[n].rejections + 1)
      BY <1>6
    <3> HIDE DEF refused
    <3>6. memory'[n].failures <= Cardinality(Failed')
      BY <3>1, <3>2, <3>3, <3>5
    <3>7. memory'[n].rejections <= Cardinality(FailedRefused')
      BY <3>1, <3>2, <3>4, <3>5
    <3> QED
      BY <3>6, <3>7
  <2> QED
    BY <1>0, <2>1, <2>2 DEF ResultsInv
<1>10. TripsAreEarned'
  <2>1. ASSUME NEW n \in runtimeError' \ runtimeError
        PROVE  (Earned(n))'
    <3>1. n \in DOMAIN installed /\ n \in DOMAIN installed'
      BY <1>0 DEF GuardsTypes
    <3>2. memory'[n].failures <= Cardinality(Failed') /\ memory'[n].rejections <= Cardinality(FailedRefused')
      BY <1>9, <3>1 DEF ResultsInv
    <3>3. /\ Cardinality(Failed') \in Nat /\ Cardinality(FailedRefused') \in Nat
          /\ memory'[n].failures \in Nat /\ memory'[n].rejections \in Nat
      <4>1. Failed' \in SUBSET DOMAIN calls /\ FailedRefused' \in SUBSET DOMAIN calls
        BY <1>2 DEF Failed, FailedRefused
      <4>2. memory'[n] \in Memory'
        BY <3>1 DEF GuardsTypes
      <4> QED
        BY <4>1, <4>2, CallSets DEF Memory
    <3>4. \/ Cardinality(Failed') >= MaxConsecutiveFailures
          \/ Cardinality(FailedRefused') >= MaxConsecutiveRejections
      BY <1>1, <2>1, <3>2, <3>3, GuardsAssumption
    <3>5. installed'[n].kind = "guard/repetition"
      BY <1>0, <1>1, <2>1
    <3> QED
      BY <3>4, <3>5 DEF Earned
  <2>2. /\ Len(calls) <= Len(calls')
        /\ \A j \in DOMAIN calls : calls'[j].class = calls[j].class /\ calls[j].judged <= calls'[j].judged
    BY <1>2, CallsTypes
  <2>3. Failed \subseteq Failed' /\ FailedRefused \subseteq FailedRefused'
    BY <1>4
  <2> QED
    BY <1>0, <1>2, <1>3, <2>1, <2>2, <2>3, TripsStayEarned
<1> QED
  BY <1>7, <1>8, <1>9, <1>10 DEF CountersInv

(* The first pass: handler n has passed call k. *)
LEMMA PassedByHandler ==
  ASSUME GuardsTypes, CountersInv, BatchInv, NEW k \in DOMAIN calls, NEW n \in DOMAIN installed,
         HandlerStep(k, n)
  PROVE  /\ k \in Judged /\ k \notin Passed(n) /\ Judged \ {k} \subseteq Passed(n)
         /\ Judged' = Judged
         /\ Passed(n)' = Passed(n) \cup {k}
         /\ \A m \in DOMAIN installed : Passed(m) \subseteq Passed(m)'
         /\ at' # AtIdle => \A m \in DOMAIN installed \ {n} : Passed(m)' = Passed(m)
<1>0. UNCHANGED <<installed, calls>>
  BY DEF HandlerStep
<1>1. at.pc = "judging" /\ at.call = k /\ at.handler = n
  BY HandlerLoop
<1>2. /\ n \in Nat /\ Len(installed) \in Nat /\ n <= Len(installed) /\ k \in Nat
      /\ \A m \in DOMAIN installed : m \in Nat /\ m <= Len(installed)
  BY InstalledTypes, CallsTypes DEF GuardsTypes
<1>3. k \in Judged
  <2>1. k \in OpenCalls /\ k <= at.call
    BY <1>1, <1>2 DEF BatchInv
  <2> QED
    BY <1>1, <2>1 DEF CountersInv, OrderInv
<1>4. Judged' = Judged
  BY <1>0 DEF Judged
<1>5. \A m \in DOMAIN installed : Passed(m) = {j \in Judged : ~(j = k /\ n <= m)}
  BY <1>1 DEF Passed
<1>6. Passed(n) = Judged \ {k}
  BY <1>2, <1>5
<1>7. CASE at' = AtIdle
  <2>1. \A m \in DOMAIN installed : Passed(m)' = Judged
    BY <1>4, <1>7 DEF Passed, AtIdle
  <2> QED
    BY <1>3, <1>4, <1>5, <1>6, <1>7, <2>1
<1>8. CASE /\ at'.call = k
           /\ \/ n < Len(installed) /\ at'.pc = "judging" /\ at'.handler = n + 1
              \/ n = Len(installed) /\ at'.pc = "judge" /\ at'.handler = n
  <2>1. ASSUME NEW m \in DOMAIN installed
        PROVE  Passed(m)' = {j \in Judged : ~(j = k /\ n + 1 <= m)}
    <3>1. CASE at'.pc = "judging" /\ at'.handler = n + 1
      BY <1>4, <1>8, <3>1 DEF Passed
    <3>2. CASE n = Len(installed) /\ at'.pc = "judge"
      <4>1. ~(n + 1 <= m)
        BY <1>2, <3>2
      <4>2. Passed(m)' = Judged
        BY <1>4, <3>2 DEF Passed
      <4> QED
        BY <4>1, <4>2
    <3> QED
      BY <1>8, <3>1, <3>2
  <2>2. \A m \in DOMAIN installed \ {n} : Passed(m)' = Passed(m)
    <3>1. \A m \in DOMAIN installed \ {n} : n + 1 <= m <=> n <= m
      BY <1>2
    <3> QED
      BY <1>5, <2>1, <3>1
  <2>3. Passed(n)' = Judged
    <3>1. ~(n + 1 <= n)
      BY <1>2
    <3> QED
      BY <2>1, <3>1
  <2> QED
    BY <1>3, <1>4, <1>6, <2>2, <2>3
<1> QED
  BY <1>7, <1>8, HandlerLoop, Zenon

(* A refused call makes the row of them longer, in the log too. *)
LEMMA StrikeRow ==
  ASSUME GuardsTypes, CountersInv, BatchInv, NEW k \in DOMAIN calls, NEW n \in DOMAIN installed,
         HandlerStep(k, n), calls[k].class[n] = "bad", ~Rejudged
  PROVE  /\ Cardinality(LastBad(n) \cup {k}) = Cardinality(LastBad(n)) + 1
         /\ LastBad(n) \cup {k} \subseteq LastBad(n)'
         /\ \E x \in DOMAIN calls : LastBad(n) \cup {k} \subseteq InARow(n, x)
<1>0. UNCHANGED calls /\ \A j \in DOMAIN calls : j \in Nat
  BY CallsTypes DEF HandlerStep
<1>1. /\ k \in Judged /\ k \notin Passed(n) /\ Judged \ {k} \subseteq Passed(n)
      /\ Passed(n)' = Passed(n) \cup {k}
  BY PassedByHandler
<1>2. \A j \in Judged : j <= k
  <2>1. at.pc = "judging" /\ at.call = k
    BY HandlerLoop
  <2> QED
    BY <2>1 DEF CountersInv, OrderInv
<1>3. Cardinality(LastBad(n) \cup {k}) = Cardinality(LastBad(n)) + 1
  <2>1. IsFiniteSet(LastBad(n)) /\ k \notin LastBad(n)
    BY <1>1, CountedSets, CallSets DEF LastBad, Concerning
  <2> QED
    BY <2>1, FS_AddElement
<1>4. Concerning(n)' = Concerning(n) \cup {k}
  <2>1. Concerning(n)' = {j \in Passed(n) \cup {k} : calls[j].class[n] \in {"good", "bad"}}
    BY <1>0, <1>1 DEF Concerning
  <2>2. calls[k].class[n] \in {"good", "bad"}
    OBVIOUS
  <2> QED
    BY <2>1, <2>2 DEF Concerning
<1>5. Concerning(n) \subseteq Judged /\ Passed(n) \subseteq Judged /\ Judged \subseteq DOMAIN calls
  BY DEF Concerning, Passed, Judged
<1>6. LastBad(n)' = {i \in Concerning(n) \cup {k} :
                       \A j \in Concerning(n) \cup {k} : i <= j => calls[j].class[n] = "bad"}
  BY <1>0, <1>4 DEF LastBad
<1>7. LastBad(n) \cup {k} \subseteq LastBad(n)'
  <2>1. ASSUME NEW i \in LastBad(n)
        PROVE  i \in LastBad(n)'
    BY <1>6, <2>1 DEF LastBad
  <2>2. k \in LastBad(n)'
    <3>1. \A j \in Concerning(n) \cup {k} : k <= j => j = k
      BY <1>0, <1>1, <1>2, <1>5
    <3> QED
      BY <1>6, <3>1
  <2> QED
    BY <2>1, <2>2
<1>8. \E x \in DOMAIN calls : LastBad(n) \cup {k} \subseteq InARow(n, x)
  <2> DEFINE S == LastBad(n) \cup {k}
  <2>1. S \in SUBSET Nat /\ k \in S /\ S \subseteq Judged
    BY <1>0, <1>1, <1>5 DEF LastBad
  <2>2. PICK x \in S : \A y \in S : x <= y
    BY <2>1, LeastNatural
  <2>3. ASSUME NEW i \in S
        PROVE  i \in InARow(n, x)
    <3>1. i \in x .. Len(calls) /\ calls[i].judged > 0 /\ calls[i].class[n] \in {"good", "bad"}
      <4>1. i \in DOMAIN calls /\ x \in Nat /\ i \in Nat /\ DOMAIN calls = 1 .. Len(calls) /\ Len(calls) \in Nat
        BY <1>5, <2>1, <2>3, CallsTypes
      <4>2. calls[i].class[n] \in {"good", "bad"}
        BY <2>3 DEF LastBad, Concerning
      <4>3. x <= i /\ i \in Judged
        BY <2>1, <2>2, <2>3
      <4> QED
        BY <4>1, <4>2, <4>3 DEF Judged
    <3>2. ASSUME NEW j \in x .. Len(calls), calls[j].judged > 0, calls[j].class[n] \in {"good", "bad"}
          PROVE  calls[j].class[n] = "bad"
      <4>1. x \in DOMAIN calls /\ DOMAIN calls = 1 .. Len(calls) /\ Len(calls) \in Nat /\ x \in Nat
        BY <1>5, <2>1, <2>2, CallsTypes
      <4>2. j \in DOMAIN calls /\ x <= j /\ j \in Judged
        BY <3>2, <4>1 DEF Judged
      <4>3. CASE j = k
        BY <4>3
      <4>4. CASE j # k /\ x = k
        BY <1>0, <1>2, <4>2, <4>4
      <4>5. CASE j # k /\ x # k
        <5>1. x \in LastBad(n) /\ j \in Concerning(n)
          BY <1>1, <3>2, <4>2, <4>5 DEF Concerning
        <5> QED
          BY <4>2, <5>1 DEF LastBad
      <4> QED
        BY <4>3, <4>4, <4>5
    <3> QED
      BY <3>1, <3>2 DEF InARow
  <2>4. x \in DOMAIN calls
    BY <1>5, <2>1
  <2> QED
    BY <2>3, <2>4
<1> QED
  BY <1>3, <1>7, <1>8

LEMMA StrikesAfterHandler ==
  ASSUME GuardsTypes, CountersInv, BatchInv, NEW k \in DOMAIN calls, NEW n \in DOMAIN installed,
         HandlerStep(k, n), CountingStep(k, n)
  PROVE  StrikesInv'
<1>0. UNCHANGED <<installed, calls>> /\ (Rejudged <=> Rejudged') /\ at.pc = "judging"
  BY HandlerLoop DEF HandlerStep, Rejudged
<1>1. CASE Rejudged
  BY <1>0, <1>1 DEF StrikesInv
<1>2. CASE at' = AtIdle /\ n \in runtimeError'
  BY <1>2 DEF StrikesInv, Tripped, AtIdle
<1>3. CASE ~Rejudged /\ at' # AtIdle
  <2>1. ASSUME NEW m \in DOMAIN installed, installed[m].kind \in StrikeKinds
        PROVE  memory'[m].strikes <= Cardinality(LastBad(m)')
    <3>1. memory[m].strikes <= Cardinality(LastBad(m))
      BY <1>0, <1>3, <2>1 DEF CountersInv, StrikesInv
    <3>2. CASE m # n
      <4>1. Passed(m)' = Passed(m)
        BY <1>3, <3>2, PassedByHandler
      <4>2. LastBad(m)' = LastBad(m)
        BY <1>0, <4>1, SameSets
      <4> QED
        BY <3>1, <3>2, <4>2, CountingTypes
    <3>3. CASE m = n /\ calls[k].class[n] = "bad"
      <4>1. /\ Cardinality(LastBad(n) \cup {k}) = Cardinality(LastBad(n)) + 1
            /\ LastBad(n) \cup {k} \subseteq LastBad(n)'
        BY <1>3, <3>3, StrikeRow
      <4>2. LastBad(n)' \in SUBSET DOMAIN calls
        BY <1>0 DEF LastBad, Concerning, Passed, Judged
      <4>3. /\ Cardinality(LastBad(n)') \in Nat /\ Cardinality(LastBad(n)) \in Nat
            /\ Cardinality(LastBad(n)) + 1 <= Cardinality(LastBad(n)')
        BY <4>1, <4>2, CallSets, CallSetsGrow, CountedSets
      <4>4. memory[n].strikes \in Nat
        BY MemoryTypes
      <4>5. memory'[n].strikes \in {0, memory[n].strikes, memory[n].strikes + 1}
        BY CountingTypes
      <4> QED
        BY <3>1, <3>3, <4>3, <4>4, <4>5
    <3>4. CASE m = n /\ calls[k].class[n] = "good"
      <4>1. LastBad(n)' \in SUBSET DOMAIN calls
        BY <1>0 DEF LastBad, Concerning, Passed, Judged
      <4>2. Cardinality(LastBad(n)') \in Nat
        BY <4>1, CallSets
      <4>3. memory'[n].strikes = 0
        BY <2>1, <3>4, CountingTypes
      <4> QED
        BY <3>4, <4>2, <4>3
    <3>5. CASE m = n /\ calls[k].class[n] \in {"other", "unsupported"}
      <4>1. Concerning(n)' = Concerning(n)
        <5>1. Passed(n)' = Passed(n) \cup {k}
          BY PassedByHandler
        <5>2. Concerning(n)' = {j \in Passed(n) \cup {k} : calls[j].class[n] \in {"good", "bad"}}
          BY <1>0, <5>1 DEF Concerning
        <5> QED
          BY <3>5, <5>2 DEF Concerning
      <4>2. LastBad(n)' = LastBad(n)
        BY <1>0, <4>1 DEF LastBad
      <4>3. memory'[n].strikes = memory[n].strikes
        BY <2>1, <3>5, CountingTypes
      <4> QED
        BY <3>1, <3>5, <4>2, <4>3
    <3>6. calls[k].class[n] \in Classes
      BY CallsTypes
    <3> QED
      BY <3>2, <3>3, <3>4, <3>5, <3>6 DEF Classes
  <2> QED
    BY <1>0, <2>1 DEF StrikesInv
<1>4. at' = AtIdle => n \in runtimeError'
  BY HandlerLoop DEF AtIdle
<1> QED
  BY <1>1, <1>2, <1>3, <1>4

LEMMA SeenAfterHandler ==
  ASSUME GuardsTypes, CountersInv, BatchInv, NEW k \in DOMAIN calls, NEW n \in DOMAIN installed,
         HandlerStep(k, n), CountingStep(k, n)
  PROVE  SeenInv'
<1>0. UNCHANGED <<installed, calls>> /\ (Rejudged <=> Rejudged')
  BY DEF HandlerStep, Rejudged
<1>1. ASSUME ~Rejudged, NEW m \in DOMAIN installed, NEW class \in Classes
      PROVE  memory'[m].seen[class] <= Cardinality(Like(m, class)')
  <2>1. memory[m].seen[class] <= Cardinality(Like(m, class)) /\ memory[m].seen[class] \in Nat
    BY <1>1, MemoryTypes DEF CountersInv, SeenInv
  <2>2. Like(m, class)' = {j \in Passed(m)' : calls[j].class[m] = class}
    BY <1>0 DEF Like
  <2>3. Like(m, class) \subseteq Like(m, class)' /\ Like(m, class)' \in SUBSET DOMAIN calls
    <3>1. Passed(m) \subseteq Passed(m)' /\ Passed(m)' \subseteq Judged'
      BY PassedByHandler DEF Passed
    <3>2. Judged' \subseteq DOMAIN calls
      BY <1>0 DEF Judged
    <3> QED
      BY <2>2, <3>1, <3>2 DEF Like
  <2>4. /\ Cardinality(Like(m, class)) \in Nat /\ Cardinality(Like(m, class)') \in Nat
        /\ Cardinality(Like(m, class)) <= Cardinality(Like(m, class)')
    BY <2>3, CallSets, CallSetsGrow
  <2>5. CASE memory'[m].seen[class] = memory[m].seen[class]
    BY <2>1, <2>4, <2>5
  <2>6. CASE /\ m = n /\ class = calls[k].class[n]
             /\ memory'[n].seen[class] = memory[n].seen[class] + 1
    <3>1. k \notin Passed(n) /\ Passed(n)' = Passed(n) \cup {k}
      BY PassedByHandler
    <3>2. Like(m, class)' = Like(m, class) \cup {k} /\ k \notin Like(m, class)
      BY <2>2, <2>6, <3>1 DEF Like
    <3>3. IsFiniteSet(Like(m, class))
      BY <2>3, CallSets
    <3>4. Cardinality(Like(m, class)') = Cardinality(Like(m, class)) + 1
      BY <3>2, <3>3, FS_AddElement
    <3> QED
      BY <2>1, <2>4, <2>6, <3>4
  <2>7. m # n => memory'[m] = memory[m]
    BY CountingTypes
  <2>8. \/ memory'[n].seen[class] = memory[n].seen[class]
        \/ class = calls[k].class[n] /\ memory'[n].seen[class] = memory[n].seen[class] + 1
    BY CountingTypes
  <2> QED
    BY <2>5, <2>6, <2>7, <2>8
<1> QED
  BY <1>0, <1>1 DEF SeenInv

(* A handler counts what it passes, and trips for what it has counted. *)
LEMMA CountersAfterHandler ==
  ASSUME GuardsTypes, GuardsTypes', CountersInv, BatchInv,
         NEW k \in DOMAIN calls, NEW n \in DOMAIN installed, HandlerStep(k, n), CountingStep(k, n)
  PROVE  CountersInv'
<1>0. /\ UNCHANGED <<installed, calls>> /\ (Rejudged <=> Rejudged') /\ Judged' = Judged
      /\ OpenCalls' = OpenCalls /\ Failed' = Failed /\ FailedRefused' = FailedRefused
  BY DEF HandlerStep, Rejudged, Judged, OpenCalls, Open, Failed, FailedRefused
<1>1. at.pc = "judging" /\ at.call = k /\ at.handler = n
  BY HandlerLoop
<1>2. StrikesInv' /\ SeenInv'
  BY StrikesAfterHandler, SeenAfterHandler
<1>3. OrderInv'
  <2>1. CASE at'.pc = "idle"
    BY <1>0, <2>1 DEF CountersInv, OrderInv
  <2>2. CASE at'.pc \in {"judge", "judging"} /\ at'.call = k
    BY <1>0, <1>1, <2>2 DEF CountersInv, OrderInv
  <2> QED
    BY <2>1, <2>2, HandlerLoop DEF AtIdle
<1>4. ResultsInv'
  <2>1. \A m \in DOMAIN installed : /\ memory'[m].failures = memory[m].failures
                                    /\ memory'[m].rejections = memory[m].rejections
    BY CountingTypes
  <2> QED
    BY <1>0, <2>1 DEF CountersInv, ResultsInv
<1>5. ASSUME NEW m \in runtimeError' \ runtimeError
      PROVE  (Earned(m))'
  <2>0. m = n /\ n \in runtimeError' \ runtimeError
    BY <1>5, CountingTypes
  <2>1. CASE Rejudged
    BY <1>0, <2>1 DEF Earned
  <2>2. CASE /\ ~Rejudged /\ installed[n].kind \in StrikeKinds /\ calls[k].class[n] = "bad"
             /\ memory'[n].strikes = memory[n].strikes + 1 /\ memory'[n].strikes >= StrikeLimit
    <3>1. PICK x \in DOMAIN calls : LastBad(n) \cup {k} \subseteq InARow(n, x)
      BY <2>2, StrikeRow
    <3>2. Cardinality(LastBad(n) \cup {k}) = Cardinality(LastBad(n)) + 1
      BY <2>2, StrikeRow
    <3>3. InARow(n, x) \in SUBSET DOMAIN calls
      BY CallsTypes DEF InARow
    <3>4. /\ Cardinality(LastBad(n)) \in Nat /\ Cardinality(InARow(n, x)) \in Nat
          /\ Cardinality(LastBad(n)) + 1 <= Cardinality(InARow(n, x))
      BY <3>1, <3>2, <3>3, CallSets, CallSetsGrow, CountedSets
    <3>5. memory[n].strikes <= Cardinality(LastBad(n)) /\ memory[n].strikes \in Nat
      BY <1>1, <2>2, MemoryTypes DEF CountersInv, StrikesInv
    <3>6. Cardinality(InARow(n, x)) >= StrikeLimit
      BY <2>2, <3>4, <3>5, GuardsAssumption
    <3>7. (InARow(n, x))' = InARow(n, x)
      BY <1>0 DEF InARow
    <3> QED
      BY <1>0, <2>0, <2>2, <3>6, <3>7 DEF Earned
  <2>3. CASE /\ ~Rejudged /\ installed[n].kind = "guard/repetition"
             /\ memory'[n].seen[calls[k].class[n]] >= MaxIdenticalCalls
    <3>1. PICK class \in Classes : class = calls[k].class[n]
      BY CallsTypes
    <3>2. memory'[n].seen[class] <= Cardinality(Like(n, class)')
      BY <1>0, <1>2, <2>3, <3>1 DEF SeenInv
    <3>3. Like(n, class)' \subseteq ClassedLike(n, class) /\ ClassedLike(n, class) \in SUBSET DOMAIN calls
      BY <1>0 DEF Like, Passed, Judged, ClassedLike
    <3>4. /\ Cardinality(Like(n, class)') \in Nat /\ Cardinality(ClassedLike(n, class)) \in Nat
          /\ Cardinality(Like(n, class)') <= Cardinality(ClassedLike(n, class))
      BY <3>3, CallSets, CallSetsGrow
    <3>5. memory'[n].seen[class] \in Nat
      <4>1. memory'[n] \in Memory
        BY CountingTypes
      <4> QED
        BY <3>1, <4>1 DEF Memory
    <3>6. memory'[n].seen[class] >= MaxIdenticalCalls
      BY <2>3, <3>1
    <3>7. Cardinality(ClassedLike(n, class)) >= MaxIdenticalCalls
      BY <3>2, <3>4, <3>5, <3>6, GuardsAssumption
    <3>8. (ClassedLike(n, class))' = ClassedLike(n, class)
      BY <1>0 DEF ClassedLike
    <3> QED
      BY <1>0, <2>0, <2>3, <3>1, <3>7, <3>8 DEF Earned
  <2> QED
    BY <2>0, <2>1, <2>2, <2>3, CountingTypes
<1>6. TripsAreEarned'
  <2>1. /\ Len(calls) <= Len(calls') /\ DOMAIN calls \subseteq DOMAIN calls'
        /\ \A j \in DOMAIN calls : calls'[j].class = calls[j].class /\ calls[j].judged <= calls'[j].judged
    BY <1>0, CallsTypes
  <2> QED
    BY <1>0, <1>5, <2>1, TripsStayEarned
<1> QED
  BY <1>2, <1>3, <1>4, <1>6 DEF CountersInv

LEMMA CountersInit == GuardsInit => CountersInv
<1> SUFFICES ASSUME GuardsInit
             PROVE  CountersInv
  OBVIOUS
<1>1. /\ calls = <<>> /\ DOMAIN calls = {} /\ at.pc = "idle" /\ runtimeError = {}
      /\ \A n \in DOMAIN installed : memory[n] = NoMemory
  BY DEF GuardsInit, AtIdle, Closures
<1>2. OrderInv /\ TripsAreEarned
  BY <1>1 DEF OrderInv, Judged, OpenCalls, TripsAreEarned
<1>3. \A n : Passed(n) = {}
  BY <1>1 DEF Passed, Judged
<1>4. \A n : LastBad(n) = {} /\ \A class : Like(n, class) = {}
  BY <1>3 DEF LastBad, Concerning, Like
<1>5. Failed = {} /\ FailedRefused = {}
  BY <1>1 DEF Failed, FailedRefused
<1>6. Cardinality({}) = 0
  BY FS_EmptySet
<1>7. StrikesInv /\ SeenInv
  <2>1. NoMemory.strikes = 0 /\ \A class \in Classes : NoMemory.seen[class] = 0
    BY DEF NoMemory
  <2>2. ASSUME NEW n \in DOMAIN installed
        PROVE  /\ memory[n].strikes <= Cardinality(LastBad(n))
               /\ \A class \in Classes : memory[n].seen[class] <= Cardinality(Like(n, class))
    <3>1. memory[n].strikes = 0 /\ \A class \in Classes : memory[n].seen[class] = 0
      BY <1>1, <2>1
    <3>2. Cardinality(LastBad(n)) = 0 /\ \A class \in Classes : Cardinality(Like(n, class)) = 0
      <4>1. LastBad(n) = {} /\ \A class : Like(n, class) = {}
        BY <1>4
      <4> QED
        BY <1>6, <4>1
    <3> QED
      BY <3>1, <3>2
  <2> QED
    BY <2>2 DEF StrikesInv, SeenInv
<1>8. ResultsInv
  BY <1>1, <1>5, <1>6 DEF ResultsInv, OpenCalls, NoMemory
<1> QED
  BY <1>2, <1>7, <1>8 DEF CountersInv

LEMMA CountersNext ==
  ASSUME GuardsTypes, GuardsTypes', RefusalInv, CountersInv, [GuardsNext]_guardsVars
  PROVE  CountersInv'
<1>0. BatchInv
  BY DEF RefusalInv
<1>1. CASE RunAgain \/ EndBatch
  <2>1. UNCHANGED <<installed, calls, memory, runtimeError>>
    BY <1>1 DEF RunAgain, EndBatch
  <2>2. at'.pc \in {"idle", "turn"} \/ (at'.pc = "judge" /\ at'.call = 0)
    BY <1>1 DEF RunAgain, EndBatch, AtIdle
  <2>3. at.pc # "judging" /\ ~(at.pc = "idle" /\ Tripped)
    BY <1>1 DEF RunAgain, EndBatch
  <2> QED
    BY <2>1, <2>2, <2>3, CountersAfterQuietStep
<1>2. CASE TimePasses \/ UNCHANGED guardsVars
  <2>1. UNCHANGED <<installed, calls, memory, runtimeError, at>>
    BY <1>2 DEF TimePasses, guardsVars
  <2> QED
    BY <2>1, CountersAfterQuietStep
<1>3. CASE RestartProcess
  <2>1. UNCHANGED <<installed, calls, runtimeError, at>>
    BY <1>3 DEF RestartProcess
  <2>2. \A n \in DOMAIN installed : memory'[n] = NoMemory
    BY <1>3 DEF RestartProcess, Closures
  <2>3. \A n \in DOMAIN installed :
          /\ memory'[n].strikes = 0 /\ memory'[n].failures = 0 /\ memory'[n].rejections = 0
          /\ \A class \in Classes : memory'[n].seen[class] = 0
    BY <2>2 DEF NoMemory
  <2> QED
    BY <2>1, <2>3, CountersAfterQuietStep
<1>4. CASE PreProjectionHooks
  <2>1. PICK healthy \in BOOLEAN :
          runtimeError' = runtimeError \cup {n \in DOMAIN installed : TurnGuardTrips(n, healthy)}
    BY <1>4 DEF PreProjectionHooks
  <2>2. \A n \in runtimeError' \ runtimeError : installed[n].kind \in TurnKinds
    BY <2>1 DEF TurnGuardTrips, TurnKinds
  <2>3. /\ UNCHANGED <<installed, calls>> /\ at.pc = "turn"
        /\ memory' = [n \in DOMAIN installed |-> [memory[n] EXCEPT !.checks = 1]]
    BY <1>4 DEF PreProjectionHooks
  <2>4. at'.pc \in {"idle", "provider"}
    BY <1>4 DEF PreProjectionHooks, AtIdle, GuardsTypes, At
  <2>5. ASSUME NEW n \in DOMAIN installed
        PROVE  /\ memory'[n].strikes = memory[n].strikes /\ memory'[n].seen = memory[n].seen
               /\ memory'[n].failures = memory[n].failures
               /\ memory'[n].rejections = memory[n].rejections
    <3>1. memory'[n] = [memory[n] EXCEPT !.checks = 1] /\ memory[n] \in Memory
      BY <2>3, MemoryTypes
    <3> QED
      BY <3>1 DEF Memory
  <2> QED
    BY <2>1, <2>2, <2>3, <2>4, <2>5, CountersAfterQuietStep
<1>5. ASSUME NEW k \in DOMAIN calls, NEW n \in DOMAIN installed, HandlerActs(k, n)
      PROVE  CountersInv'
  BY <1>0, <1>5, HandlerSteps, CountingSteps, CountersAfterHandler
<1>6. ASSUME NEW k \in DOMAIN calls, ResolveApproval(k)
      PROVE  CountersInv'
  BY <1>6, CountersAfterResolveApproval
<1> QED
  BY <1>0, <1>1, <1>2, <1>3, <1>4, <1>5, <1>6, CountersAfterProviderCalls, CountersAfterStartJudging,
     CountersAfterEndJudging, CountersAfterFinishCall, GuardsStepCases

(* Whatever strategies a manifest lists, a guard ends the session only for  *)
(* what the log shows: as many refused calls in a row, the same or failed   *)
(* or refused calls, as its limit, unless a held batch was judged anew      *)
(* (recordStrike, RepetitionGuard, dispatchPendingTools).                   *)
THEOREM TripsHold == GuardsSpec => []TripsAreEarned
<1>1. GuardsSpec => []RefusalInv
  BY RefusalInit, RefusalNext, GuardsTypeCorrect, PTL DEF GuardsSpec
<1>2. GuardsSpec => []CountersInv
  BY <1>1, CountersInit, CountersNext, GuardsTypeCorrect, PTL DEF GuardsSpec
<1>3. CountersInv => TripsAreEarned
  BY DEF CountersInv
<1> QED
  BY <1>2, <1>3, PTL
=============================================================================
