------------------------- MODULE StdioClientProofs -------------------------
(***************************************************************************)
(* Of the MCP client, for any number of callers and calls: every request   *)
(* gets the answer to itself or none, the reader never blocks, and no       *)
(* caller waits for a reader that has ended.                               *)
(***************************************************************************)
EXTENDS StdioClient, FiniteSetTheorems, TLAPS

Pcs == {"idle", "register", "write", "writing", "waiting", "forget"}
Asking == {"call", "initialize", "list"}       \* requests, which take an id
LoadOps == {"initialize", "initialized", "list"}
Ops == Asking \cup LoadOps \cup {""}
CallRecords == [pc : Pcs, op : Ops, id : Nat, ch : Nat]
Notifying == [Idle EXCEPT !.pc = "write", !.op = "initialized"]
Asks(op) == [Idle EXCEPT !.pc = "register", !.op = op]
Busy == {"write", "writing", "waiting", "forget"}

(* Where a caller can be. *)
CallTypes ==
  /\ nextID \in Nat \ {0}
  /\ call \in [Callers -> CallRecords]
  /\ \A c \in Callers : \/ call[c] = Idle
                        \/ call[c].pc = "register" /\ call[c].op \in Asking
                        \/ call[c].pc \in Busy /\ call[c].op \in Asking
                        \/ call[c].pc \in Busy \ {"waiting"} /\ call[c].op = "initialized"

(* The load is its holder's, and there is one at most. *)
OneLoad ==
  /\ loading \in Callers \cup {NoOne} /\ tools \in {"unknown", "loaded", "degraded"}
  /\ started \in 0 .. MaxCalls /\ loads \in {0, 1}
  /\ \A c \in Callers : call[c].op \in LoadOps <=> loading = c
  /\ tools = "unknown" /\ loading = NoOne => loads = 0

(* Ids are taken once per call, and twice by the load. *)
Registering == {c \in Callers : call[c].pc = "register"}
ListToCome == \E c \in Callers : call[c].op \in {"initialize", "initialized"}
IdsAreCounted ==
  /\ IsFiniteSet(Registering)
  /\ nextID - 1 + Cardinality(Registering) + (IF ListToCome THEN 1 ELSE 0) <= started + loads

-----------------------------------------------------------------------------
(* How a step of a caller ends, ... *)
Over(c) ==
  \/ call[c].op = "call" /\ call' = [call EXCEPT ![c] = Idle] /\ UNCHANGED stateVars
  \/ /\ call[c].op \in LoadOps /\ call' = [call EXCEPT ![c] = Idle]
     /\ loading' = NoOne /\ tools' \in {"loaded", "degraded"}
  \/ call[c].op = "initialize" /\ call' = [call EXCEPT ![c] = Notifying] /\ UNCHANGED stateVars
  \/ call[c].op = "initialized" /\ call' = [call EXCEPT ![c] = Asks("list")] /\ UNCHANGED stateVars

(* ... and the steps of a request that has its id. *)
GoesOn(c) ==
  /\ call[c].pc \in Busy
  /\ UNCHANGED <<nextID, started, loads>>
  /\ \/ \E pc \in Busy \ {"write"} :
          /\ pc = "waiting" => call[c].op \in Asking
          /\ call' = [call EXCEPT ![c] = [@ EXCEPT !.pc = pc]] /\ UNCHANGED stateVars
     \/ Over(c)

LEMMA IdleFacts ==
  /\ Idle \in CallRecords /\ Idle.pc = "idle" /\ Idle.id = 0 /\ Idle.ch = 0
  /\ Idle.op \notin LoadOps \cup Asking
  /\ Notifying \in CallRecords /\ Notifying.pc = "write" /\ Notifying.op = "initialized"
  /\ Notifying.id = 0 /\ Notifying.ch = 0
  /\ \A op \in Asking : /\ Asks(op) \in CallRecords /\ Asks(op).pc = "register"
                        /\ Asks(op).op = op /\ Asks(op).id = 0 /\ Asks(op).ch = 0
BY DEF Idle, Notifying, Asks, CallRecords, Pcs, Ops, LoadOps, Asking

LEMMA FinishIsOver ==
  ASSUME NEW c \in Callers, NEW ok \in BOOLEAN, CallTypes, call[c].pc \in Busy, Finish(c, ok)
  PROVE  Over(c)
<1>1. call[c].op \in Asking \cup {"initialized"}
  BY IdleFacts DEF CallTypes, Busy
<1> QED
  BY <1>1, Zenon DEF Finish, Over, Asking, LoadOps, Notifying, Asks, stateVars

LEMMA ReceiveIsOver ==
  ASSUME NEW c \in Callers, CallTypes, Receive(c)
  PROVE  Over(c)
<1>1. PICK ok : ok = (channels[call[c].ch].kind \in {"result", "request"})
  OBVIOUS
<1>2. ok \in BOOLEAN
  BY <1>1
<1>3. call[c].pc \in Busy
  BY DEF Receive, At, Busy
<1>4. Finish(c, ok)
  BY <1>1, Zenon DEF Receive
<1> QED
  BY <1>2, <1>3, <1>4, FinishIsOver

LEMMA RequestGoesOn ==
  ASSUME NEW c \in Callers, CallTypes,
         \/ Write(c) \/ WriteRefused(c) \/ WriteResumes(c) \/ BrokenPipe(c)
         \/ Receive(c) \/ TimeOut(c) \/ DeletePending(c)
  PROVE  GoesOn(c)
<1> USE DEF GoesOn, At, Goto, Busy
<1>1. ASSUME Written(c), call[c].pc \in {"write", "writing"}
      PROVE  \/ /\ call' = [call EXCEPT ![c] = [@ EXCEPT !.pc = "waiting"]]
                /\ call[c].op \in Asking /\ UNCHANGED stateVars
             \/ Over(c)
  <2>1. CASE call[c].op = "initialized"
    BY <2>1, <1>1, FinishIsOver DEF Written
  <2>2. CASE call[c].op # "initialized"
    BY <2>2, <1>1, IdleFacts DEF Written, CallTypes
  <2> QED
    BY <2>1, <2>2
<1>2. CASE Write(c)
  BY <1>2, <1>1 DEF Write
<1>3. CASE WriteRefused(c)
  BY <1>3 DEF WriteRefused, clientVars
<1>4. CASE WriteResumes(c)
  BY <1>4, <1>1 DEF WriteResumes
<1>5. CASE BrokenPipe(c)
  BY <1>5 DEF BrokenPipe
<1>6. CASE Receive(c)
  BY <1>6, ReceiveIsOver DEF Receive
<1>7. CASE TimeOut(c)
  BY <1>7 DEF TimeOut, clientVars
<1>8. CASE DeletePending(c)
  BY <1>8, FinishIsOver DEF DeletePending
<1> QED
  BY <1>2, <1>3, <1>4, <1>5, <1>6, <1>7, <1>8

LEMMA ElsewhereNoCall ==
  ASSUME ReadLoop \/ Close \/ CloseReturns \/ CloseKills \/ Server \/ UNCHANGED vars
  PROVE  UNCHANGED <<nextID, call, stateVars, started, loads>>
BY DEF ReadLoop, ReadLine, Send, FailPending, Close, CloseReturns, CloseKills, Server, ServerReads,
       ServerAnswers, ServerPrints, ServerAsks, ServerExits, Prints, clientVars, vars

-----------------------------------------------------------------------------
LEMMA CallTypesInvariant == Spec => []CallTypes
<1>1. Init => CallTypes
  BY IdleFacts DEF Init, CallTypes
<1>2. CallTypes /\ [Next]_vars => CallTypes'
  <2> SUFFICES ASSUME CallTypes, [Next]_vars PROVE CallTypes'
    OBVIOUS
  <2>1. ASSUME NEW c \in Callers, NEW r \in CallRecords, call' = [call EXCEPT ![c] = r],
               nextID' \in Nat \ {0},
               \/ r = Idle
               \/ r.pc = "register" /\ r.op \in Asking
               \/ r.pc \in Busy /\ r.op \in Asking
               \/ r.pc \in Busy \ {"waiting"} /\ r.op = "initialized"
        PROVE  CallTypes'
    BY <2>1, Zenon DEF CallTypes
  <2>2. CASE UNCHANGED <<nextID, call>>
    BY <2>2 DEF CallTypes
  <2>3. ASSUME NEW c \in Callers, CallTool(c) \/ Tools(c)
        PROVE  CallTypes'
    <3>1. /\ UNCHANGED nextID
          /\ UNCHANGED call \/ \E op \in Asking : call' = [call EXCEPT ![c] = Asks(op)]
      BY <2>3 DEF CallTool, Tools, Load, Asks, Asking, clientVars
    <3>2. nextID' \in Nat \ {0}
      BY <3>1 DEF CallTypes
    <3> QED
      BY <3>1, <3>2, <2>1, <2>2, IdleFacts
  <2>4. ASSUME NEW c \in Callers, Register(c)
        PROVE  CallTypes'
    <3>1. call[c].pc = "register" /\ call[c].op \in Asking /\ call[c] \in CallRecords
      BY <2>4, IdleFacts DEF Register, At, CallTypes, Busy
    <3>2. PICK id \in {TakeID}, ch \in {nextID} :
            call' = [call EXCEPT ![c] = [@ EXCEPT !.pc = "write", !.id = id, !.ch = ch]]
      BY <2>4 DEF Register
    <3> DEFINE r == [call[c] EXCEPT !.pc = "write", !.id = id, !.ch = ch]
    <3>3. nextID \in Nat \ {0} /\ nextID' = nextID + 1
      BY <2>4 DEF Register, CallTypes
    <3>4. nextID' \in Nat \ {0} /\ id \in Nat /\ ch \in Nat
      BY <3>3 DEF TakeID
    <3>5. r \in CallRecords /\ r.pc \in Busy /\ r.op \in Asking
      BY <3>1, <3>4 DEF CallRecords, Busy, Pcs
    <3> QED
      BY <3>2, <3>4, <3>5, <2>1
  <2>5. ASSUME NEW c \in Callers, GoesOn(c)
        PROVE  CallTypes'
    <3>0. nextID' \in Nat \ {0}
      BY <2>5 DEF GoesOn, CallTypes
    <3>1. ASSUME NEW pc \in Busy \ {"write"}, pc = "waiting" => call[c].op \in Asking,
                 call' = [call EXCEPT ![c] = [@ EXCEPT !.pc = pc]]
          PROVE  CallTypes'
      <4>1. call[c].op \in Asking \cup {"initialized"} /\ call[c] \in CallRecords
        BY <2>5, IdleFacts DEF CallTypes, Busy, GoesOn
      <4>2. [call[c] EXCEPT !.pc = pc] \in CallRecords
        BY <4>1 DEF CallRecords, Busy, Pcs
      <4>3. [call[c] EXCEPT !.pc = pc].pc = pc /\ [call[c] EXCEPT !.pc = pc].op = call[c].op
        BY <4>1 DEF CallRecords
      <4> QED
        BY <4>1, <4>2, <4>3, <3>0, <3>1, <2>1
    <3>2. CASE Over(c)
      BY <3>0, <3>2, <2>1, IdleFacts DEF Over, Busy, Asking
    <3> QED
      BY <2>5, <3>1, <3>2 DEF GoesOn
  <2> QED
    BY <2>2, <2>3, <2>4, <2>5, RequestGoesOn, ElsewhereNoCall DEF Next, Request
<1> QED
  BY <1>1, <1>2, PTL DEF Spec

-----------------------------------------------------------------------------
LEMMA OneLoadInvariant == Spec => []OneLoad
<1>1. Init => OneLoad
  BY IdleFacts, StdioClientAssumption DEF Init, OneLoad
<1>2. CallTypes /\ OneLoad /\ [Next]_vars => OneLoad'
  <2> SUFFICES ASSUME CallTypes, OneLoad, [Next]_vars PROVE OneLoad'
    OBVIOUS
  <2> USE DEF OneLoad
  <2>0. DOMAIN call = Callers /\ \A c \in Callers : call[c] \in CallRecords
    BY DEF CallTypes
  <2>1. CASE UNCHANGED <<call, stateVars, started, loads>>
    BY <2>1 DEF stateVars
  <2>2. ASSUME NEW c \in Callers, CallTool(c)
        PROVE  OneLoad'
    <3>1. UNCHANGED call \/ call' = [call EXCEPT ![c] = Asks("call")]
      BY <2>2 DEF CallTool, Asks
    <3>2. call[c] = Idle
      BY <2>2 DEF CallTool, At, CallTypes, Busy
    <3>3. \A d \in Callers : call'[d].op \in LoadOps <=> call[d].op \in LoadOps
      BY <3>1, <3>2, <2>0, IdleFacts DEF Asking, LoadOps
    <3>4. UNCHANGED <<loading, tools, loads>> /\ started < MaxCalls /\ started' = started + 1
      BY <2>2 DEF CallTool, stateVars
    <3> QED
      BY <3>3, <3>4, StdioClientAssumption
  <2>3. ASSUME NEW c \in Callers, Tools(c)
        PROVE  OneLoad'
    <3>1. loading = NoOne /\ started < MaxCalls /\ started' = started + 1 /\ UNCHANGED tools
      BY <2>3 DEF Tools
    <3>2. CASE tools = "unknown"
      <4>1. /\ call' = [call EXCEPT ![c] = Asks("initialize")]
            /\ loads' = 1 /\ loading' = c
        BY <2>3, <3>1, <3>2 DEF Tools, Load, Asks
      <4>2. \A d \in Callers : call'[d].op \in LoadOps <=> d = c
        BY <4>1, <3>1, <2>0, IdleFacts, StdioClientAssumption DEF Asking, LoadOps
      <4> QED
        BY <4>1, <4>2, <3>1, StdioClientAssumption
    <3>3. CASE tools # "unknown"
      BY <2>3, <3>1, <3>3, StdioClientAssumption DEF Tools
    <3> QED
      BY <3>2, <3>3
  <2>4. ASSUME NEW c \in Callers, Register(c)
        PROVE  OneLoad'
    <3>1. \A d \in Callers : call'[d].op = call[d].op
      BY <2>4, <2>0 DEF Register, CallRecords
    <3> QED
      BY <2>4, <3>1 DEF Register, stateVars
  <2>5. ASSUME NEW c \in Callers, GoesOn(c)
        PROVE  OneLoad'
    <3>1. UNCHANGED <<started, loads>>
      BY <2>5 DEF GoesOn
    <3>2. ASSUME UNCHANGED stateVars,
                 \A d \in Callers : call'[d].op \in LoadOps <=> call[d].op \in LoadOps
          PROVE  OneLoad'
      BY <3>1, <3>2 DEF stateVars
    <3>3. CASE \E pc \in Busy : /\ call' = [call EXCEPT ![c] = [@ EXCEPT !.pc = pc]]
                                /\ UNCHANGED stateVars
      <4>1. \A d \in Callers : call'[d].op = call[d].op
        BY <3>3, <2>0 DEF CallRecords
      <4> QED
        BY <4>1, <3>2, <3>3
    <3>4. CASE call[c].op = "call" /\ call' = [call EXCEPT ![c] = Idle] /\ UNCHANGED stateVars
      <4>1. \A d \in Callers : call'[d].op \in LoadOps <=> call[d].op \in LoadOps
        BY <3>4, <2>0, IdleFacts DEF LoadOps
      <4> QED
        BY <4>1, <3>2, <3>4
    <3>5. CASE /\ call[c].op \in LoadOps /\ call' = [call EXCEPT ![c] = Idle]
               /\ loading' = NoOne /\ tools' \in {"loaded", "degraded"}
      <4>1. loading = c
        BY <3>5
      <4>2. \A d \in Callers : call'[d].op \notin LoadOps
        BY <4>1, <3>5, <2>0, IdleFacts
      <4> QED
        BY <4>2, <3>5, <3>1, StdioClientAssumption
    <3>6. CASE /\ call[c].op \in LoadOps /\ UNCHANGED stateVars
               /\ \/ call' = [call EXCEPT ![c] = Notifying]
                  \/ call' = [call EXCEPT ![c] = Asks("list")]
      <4>1. \A d \in Callers : call'[d].op \in LoadOps <=> call[d].op \in LoadOps
        BY <3>6, <2>0, IdleFacts DEF LoadOps, Asking
      <4> QED
        BY <4>1, <3>2, <3>6
    <3> QED
      BY <2>5, <3>3, <3>4, <3>5, <3>6 DEF GoesOn, Over, LoadOps
  <2> QED
    BY <2>1, <2>2, <2>3, <2>4, <2>5, RequestGoesOn, ElsewhereNoCall DEF Next, Request
<1> QED
  BY <1>1, <1>2, CallTypesInvariant, PTL DEF Spec

(* Tools initializes the server once, however many callers ask for them.    *)
THEOREM InitializedOnceHolds == Spec => []InitializedOnce
<1>1. OneLoad => InitializedOnce
  BY DEF OneLoad, InitializedOnce
<1> QED
  BY <1>1, OneLoadInvariant, PTL

-----------------------------------------------------------------------------
LEMMA OneMoreOneLess ==
  ASSUME NEW S, IsFiniteSet(S), NEW x
  PROVE  /\ IsFiniteSet(S \cup {x}) /\ IsFiniteSet(S \ {x})
         /\ x \in S => Cardinality(S \ {x}) + 1 = Cardinality(S)
         /\ x \notin S => Cardinality(S \cup {x}) = Cardinality(S) + 1 /\ S \ {x} = S
<1>1. x \notin S => S \ {x} = S
  OBVIOUS
<1>2. /\ IsFiniteSet(S \cup {x})
      /\ x \notin S => Cardinality(S \cup {x}) = Cardinality(S) + 1
  BY FS_AddElement
<1>3. /\ IsFiniteSet(S \ {x})
      /\ x \in S => Cardinality(S \ {x}) = Cardinality(S) - 1
  BY FS_RemoveElement
<1>4. Cardinality(S) \in Nat
  BY FS_CardinalityType
<1>5. x \in S => Cardinality(S \ {x}) + 1 = Cardinality(S)
  BY <1>3, <1>4
<1> QED
  BY <1>1, <1>2, <1>3, <1>5

LEMMA IdsAreCountedInvariant == Spec => []IdsAreCounted
<1> DEFINE Debt == IF ListToCome THEN 1 ELSE 0
<1>1. Init => IdsAreCounted
  <2> SUFFICES ASSUME Init PROVE IdsAreCounted
    OBVIOUS
  <2>1. Registering = {} /\ ~ListToCome
    BY IdleFacts DEF Init, Registering, ListToCome, LoadOps
  <2> QED
    BY <2>1, FS_EmptySet DEF Init, IdsAreCounted
<1>2. CallTypes /\ OneLoad /\ IdsAreCounted /\ [Next]_vars => IdsAreCounted'
  <2> SUFFICES ASSUME CallTypes, OneLoad, IdsAreCounted, [Next]_vars PROVE IdsAreCounted'
    OBVIOUS
  <2>0. /\ DOMAIN call = Callers /\ \A c \in Callers : call[c] \in CallRecords
        /\ nextID \in Nat /\ started \in Nat /\ loads \in Nat
        /\ IsFiniteSet(Registering) /\ Cardinality(Registering) \in Nat
        /\ nextID - 1 + Cardinality(Registering) + Debt <= started + loads
    BY FS_CardinalityType, StdioClientAssumption DEF CallTypes, OneLoad, IdsAreCounted
  <2>1. CASE UNCHANGED <<nextID, call, stateVars, started, loads>>
    <3>1. UNCHANGED <<Registering, ListToCome>>
      BY <2>1 DEF Registering, ListToCome
    <3> QED
      BY <2>1, <3>1 DEF IdsAreCounted
  (* What a step does to the three numbers. *)
  <2>2. ASSUME NEW c \in Callers, NEW r \in CallRecords, call' = [call EXCEPT ![c] = r]
        PROVE  /\ r.pc = "register" => Registering' = Registering \cup {c}
               /\ r.pc # "register" => Registering' = Registering \ {c}
               /\ r.op \in {"initialize", "initialized"} => ListToCome'
               /\ r.op = call[c].op => ListToCome' = ListToCome
               /\ call[c].op \notin LoadOps => (ListToCome => ListToCome')
               /\ call[c].op \in LoadOps /\ r.op \notin {"initialize", "initialized"} => ~ListToCome'
    <3>1. \A d \in Callers : call'[d] = IF d = c THEN r ELSE call[d]
      BY <2>0, <2>2
    <3>2. \A d \in Callers : call[d].op \in LoadOps /\ call[c].op \in LoadOps => d = c
      BY DEF OneLoad
    <3>3. r.op = call[c].op => ListToCome' = ListToCome
      BY <3>1 DEF ListToCome
    <3> QED
      BY <3>1, <3>2, <3>3 DEF Registering, ListToCome, LoadOps
  <2>3. \A c \in Callers :
          /\ IsFiniteSet(Registering \cup {c}) /\ IsFiniteSet(Registering \ {c})
          /\ c \in Registering => Cardinality(Registering \ {c}) + 1 = Cardinality(Registering)
          /\ c \notin Registering =>
               /\ Cardinality(Registering \cup {c}) = Cardinality(Registering) + 1
               /\ Registering \ {c} = Registering
    BY <2>0, OneMoreOneLess
  <2>4. ASSUME NEW c \in Callers, CallTool(c) \/ Tools(c)
        PROVE  IdsAreCounted'
    <3>1. /\ call[c].pc = "idle" /\ call[c] = Idle /\ loading = NoOne
          /\ started' = started + 1 /\ UNCHANGED nextID
      BY <2>4, Zenon DEF CallTool, Tools, At, CallTypes, Busy, clientVars
    <3>2. ~ListToCome /\ c \notin Registering
      BY <3>1, StdioClientAssumption DEF ListToCome, Registering, OneLoad, LoadOps
    <3>3. \/ UNCHANGED <<call, loads>>
          \/ call' = [call EXCEPT ![c] = Asks("call")] /\ UNCHANGED loads
          \/ call' = [call EXCEPT ![c] = Asks("initialize")] /\ loads' = loads + 1
      BY <2>4 DEF CallTool, Tools, Load, Asks
    <3>4. CASE UNCHANGED <<call, loads>>
      <4>1. UNCHANGED <<Registering, ListToCome>>
        BY <3>4 DEF Registering, ListToCome
      <4> QED
        BY <4>1, <3>1, <3>4, <2>0 DEF IdsAreCounted
    <3>5. CASE call' = [call EXCEPT ![c] = Asks("call")] /\ UNCHANGED loads
      <4>1. Registering' = Registering \cup {c}
        BY <3>5, <2>2, IdleFacts DEF Asking
      <4>2. ~ListToCome'
        BY <3>5, <3>2, <2>0, IdleFacts DEF ListToCome, Asking
      <4>3. IsFiniteSet(Registering') /\ Cardinality(Registering') = Cardinality(Registering) + 1
        BY <4>1, <3>2, <2>3
      <4> QED
        BY <4>2, <4>3, <3>1, <3>2, <3>5, <2>0 DEF IdsAreCounted
    <3>6. CASE call' = [call EXCEPT ![c] = Asks("initialize")] /\ loads' = loads + 1
      <4>1. Registering' = Registering \cup {c}
        BY <3>6, <2>2, IdleFacts DEF Asking
      <4>2. IsFiniteSet(Registering') /\ Cardinality(Registering') = Cardinality(Registering) + 1
        BY <4>1, <3>2, <2>3
      <4> QED
        BY <4>2, <3>1, <3>2, <3>6, <2>0 DEF IdsAreCounted
    <3> QED
      BY <3>3, <3>4, <3>5, <3>6
  <2>5. ASSUME NEW c \in Callers, Register(c)
        PROVE  IdsAreCounted'
    <3>1. /\ c \in Registering /\ nextID' = nextID + 1 /\ UNCHANGED <<started, loads>>
      BY <2>5 DEF Register, At, Registering
    <3>2. PICK id \in {TakeID}, ch \in {nextID} :
            call' = [call EXCEPT ![c] = [@ EXCEPT !.pc = "write", !.id = id, !.ch = ch]]
      BY <2>5 DEF Register
    <3> DEFINE r == [call[c] EXCEPT !.pc = "write", !.id = id, !.ch = ch]
    <3>3. r \in CallRecords /\ r.pc = "write" /\ r.op = call[c].op
      BY <2>0 DEF CallRecords, Pcs, TakeID
    <3>4. Registering' = Registering \ {c} /\ ListToCome' = ListToCome
      BY <3>2, <3>3, <2>2
    <3>5. IsFiniteSet(Registering') /\ Cardinality(Registering') + 1 = Cardinality(Registering)
      BY <3>1, <3>4, <2>3
    <3>6. Cardinality(Registering') \in Nat
      BY <3>5, FS_CardinalityType
    <3> QED
      BY <3>1, <3>4, <3>5, <3>6, <2>0 DEF IdsAreCounted
  <2>6. ASSUME NEW c \in Callers, GoesOn(c)
        PROVE  IdsAreCounted'
    <3>1. UNCHANGED <<nextID, started, loads>> /\ c \notin Registering
      BY <2>6 DEF GoesOn, Busy, Registering
    <3>2. ASSUME UNCHANGED Registering, ListToCome' => ListToCome
          PROVE  IdsAreCounted'
      BY <3>1, <3>2, <2>0 DEF IdsAreCounted
    <3>3. ASSUME NEW pc \in Busy, call' = [call EXCEPT ![c] = [@ EXCEPT !.pc = pc]]
          PROVE  IdsAreCounted'
      <4> DEFINE r == [call[c] EXCEPT !.pc = pc]
      <4>1. r \in CallRecords /\ r.pc # "register" /\ r.op = call[c].op
        BY <2>0 DEF CallRecords, Pcs, Busy
      <4>2. Registering' = Registering \ {c} /\ ListToCome' = ListToCome
        BY <3>3, <4>1, <2>2
      <4> QED
        BY <4>2, <3>1, <3>2, <2>3
    <3>4. CASE call' = [call EXCEPT ![c] = Idle]
      <4>1. Registering' = Registering \ {c}
        BY <3>4, <2>2, IdleFacts
      <4>2. ListToCome' => ListToCome
        BY <3>4, <2>0, IdleFacts DEF ListToCome, LoadOps
      <4> QED
        BY <4>1, <4>2, <3>1, <3>2, <2>3
    <3>5. CASE call[c].op = "initialize" /\ call' = [call EXCEPT ![c] = Notifying]
      <4>1. Registering' = Registering \ {c}
        BY <3>5, <2>2, IdleFacts
      <4>2. ListToCome
        BY <3>5 DEF ListToCome
      <4> QED
        BY <4>1, <4>2, <3>1, <3>2, <2>3
    <3>6. CASE call[c].op = "initialized" /\ call' = [call EXCEPT ![c] = Asks("list")]
      <4>1. ListToCome
        BY <3>6 DEF ListToCome
      <4>2. Registering' = Registering \cup {c} /\ ~ListToCome'
        BY <3>6, <2>2, IdleFacts DEF Asking, LoadOps
      <4> QED
        BY <4>1, <4>2, <3>1, <2>0, <2>3 DEF IdsAreCounted
    <3> QED
      BY <2>6, <3>3, <3>4, <3>5, <3>6 DEF GoesOn, Over
  <2> QED
    BY <2>1, <2>4, <2>5, <2>6, RequestGoesOn, ElsewhereNoCall DEF Next, Request
<1> QED
  BY <1>1, <1>2, CallTypesInvariant, OneLoadInvariant, PTL DEF Spec

LEMMA ChannelIsNew ==
  ASSUME CallTypes, OneLoad, IdsAreCounted
  PROVE  /\ nextID \in 1 .. MaxCalls + 2
         /\ \A c \in Callers : call[c].pc = "register" => nextID \in Channels
<1>1. /\ nextID \in Nat \ {0} /\ MaxCalls \in Nat /\ started + loads \in 0 .. MaxCalls + 1
      /\ IsFiniteSet(Registering) /\ Cardinality(Registering) \in Nat
      /\ nextID - 1 + Cardinality(Registering) <= started + loads
  BY FS_CardinalityType, StdioClientAssumption DEF CallTypes, OneLoad, IdsAreCounted
<1>2. ASSUME NEW c \in Callers, call[c].pc = "register"
      PROVE  Cardinality(Registering) # 0
  <2>1. Registering # {}
    BY <1>2 DEF Registering
  <2> QED
    BY <2>1, <1>1, FS_EmptySet
<1> QED
  BY <1>1, <1>2 DEF Channels

-----------------------------------------------------------------------------
(* A request has an id and a channel of its own, which are the same number. *)
IdsAreOwn ==
  /\ \A c \in Callers : \/ call[c].id = 0 /\ call[c].ch = 0 /\ ~(call[c].pc \in Busy /\ call[c].op \in Asking)
                        \/ /\ call[c].id = call[c].ch /\ call[c].ch \in 1 .. nextID - 1
                           /\ call[c].pc \in Busy /\ call[c].op \in Asking
  /\ \A c, d \in Callers : call[c].ch = call[d].ch /\ call[c].ch # 0 => c = d

(* The lines in the pipes, and what the server remembers of them, name both. *)
Requests == {r \in [id : Nat, ch : Nat] : r.id = r.ch}
Printed == {l \in [kind : {"result", "error", "request", "notification", "malformed"}, id : Nat, ch : Nat] :
              l.id = l.ch /\ (l.kind \in {"notification", "malformed"} => l.id = 0)}
LinesAreOwn ==
  /\ stdin \in Seq(Requests) /\ stdout \in Seq(Printed)
  /\ Len(stdin) <= Capacity /\ Len(stdout) <= Capacity
  /\ server \in [up : BOOLEAN, asked : SUBSET Requests]

LEMMA IdsAreOwnInvariant == Spec => []IdsAreOwn
<1>1. Init => IdsAreOwn
  BY IdleFacts DEF Init, IdsAreOwn, Busy
<1>2. CallTypes /\ IdsAreOwn /\ [Next]_vars => IdsAreOwn'
  <2> SUFFICES ASSUME CallTypes, IdsAreOwn, [Next]_vars PROVE IdsAreOwn'
    OBVIOUS
  <2>0. /\ DOMAIN call = Callers /\ \A c \in Callers : call[c] \in CallRecords
        /\ nextID \in Nat \ {0}
    BY DEF CallTypes
  <2>1. CASE UNCHANGED <<nextID, call>>
    BY <2>1 DEF IdsAreOwn
  <2>2. ASSUME NEW c \in Callers, NEW r \in CallRecords, call' = [call EXCEPT ![c] = r],
               UNCHANGED nextID, r.ch = 0, r.id = 0, ~(r.pc \in Busy /\ r.op \in Asking)
        PROVE  IdsAreOwn'
    <3>1. \A d \in Callers : call'[d] = IF d = c THEN r ELSE call[d]
      BY <2>0, <2>2
    <3> QED
      BY <3>1, <2>2, <2>0 DEF IdsAreOwn
  <2>3. ASSUME NEW c \in Callers, CallTool(c) \/ Tools(c)
        PROVE  IdsAreOwn'
    <3>1. /\ UNCHANGED nextID
          /\ UNCHANGED call \/ \E op \in Asking : call' = [call EXCEPT ![c] = Asks(op)]
      BY <2>3 DEF CallTool, Tools, Load, Asks, Asking, clientVars
    <3> QED
      BY <3>1, <2>1, <2>2, IdleFacts DEF Busy
  <2>4. ASSUME NEW c \in Callers, Register(c)
        PROVE  IdsAreOwn'
    <3>1. /\ nextID' = nextID + 1
          /\ call' = [call EXCEPT ![c] = [@ EXCEPT !.pc = "write", !.id = nextID, !.ch = nextID]]
      BY <2>4 DEF Register, TakeID
    <3>2. \A d \in Callers : d # c => call'[d] = call[d]
      BY <3>1, <2>0
    <3>3. call'[c].pc \in Busy /\ call'[c].id = nextID /\ call'[c].ch = nextID
      BY <3>1, <2>0 DEF CallRecords, Busy
    <3>4. \A d \in Callers : call[d].ch \in Nat /\ call[d].ch < nextID
      BY <2>0 DEF IdsAreOwn
    <3>5. \A d \in Callers : d # c => call'[d].ch # call'[c].ch
      BY <3>2, <3>3, <3>4, <2>0
    <3>6. call'[c].op \in Asking
      <4>1. call[c].op \in Asking
        BY <2>4, IdleFacts DEF Register, At, CallTypes, Busy
      <4> QED
        BY <4>1, <3>1, <2>0 DEF CallRecords
    <3>7. ASSUME NEW d \in Callers
          PROVE  \/ /\ call'[d].id = 0 /\ call'[d].ch = 0
                    /\ ~(call'[d].pc \in Busy /\ call'[d].op \in Asking)
                 \/ /\ call'[d].id = call'[d].ch /\ call'[d].ch \in 1 .. nextID' - 1
                    /\ call'[d].pc \in Busy /\ call'[d].op \in Asking
      <4>1. CASE d = c
        BY <4>1, <3>1, <3>3, <3>6, <2>0
      <4>2. CASE d # c
        BY <4>2, <3>1, <3>2, <2>0 DEF IdsAreOwn
      <4> QED
        BY <4>1, <4>2
    <3> QED
      BY <3>2, <3>5, <3>7 DEF IdsAreOwn
  <2>5. ASSUME NEW c \in Callers, GoesOn(c)
        PROVE  IdsAreOwn'
    <3>1. ASSUME NEW pc \in Busy, call' = [call EXCEPT ![c] = [@ EXCEPT !.pc = pc]]
          PROVE  IdsAreOwn'
      <4>1. /\ \A d \in Callers : call'[d].id = call[d].id /\ call'[d].ch = call[d].ch /\ call'[d].op = call[d].op
            /\ \A d \in Callers : d # c => call'[d].pc = call[d].pc
            /\ call'[c].pc = pc /\ call[c].pc \in Busy
        BY <3>1, <2>0, <2>5 DEF CallRecords, GoesOn
      <4>2. UNCHANGED nextID
        BY <2>5 DEF GoesOn
      <4> QED
        BY <4>1, <4>2, <2>0 DEF IdsAreOwn
    <3>2. CASE Over(c)
      BY <3>2, <2>5, <2>2, IdleFacts DEF Over, GoesOn, Busy, Asking
    <3> QED
      BY <2>5, <3>1, <3>2 DEF GoesOn
  <2> QED
    BY <2>1, <2>3, <2>4, <2>5, RequestGoesOn, ElsewhereNoCall DEF Next, Request
<1> QED
  BY <1>1, <1>2, CallTypesInvariant, PTL DEF Spec

LEMMA LinesAreOwnInvariant == Spec => []LinesAreOwn
<1>1. Init => LinesAreOwn
  BY StdioClientAssumption DEF Init, LinesAreOwn
<1>2. CallTypes /\ IdsAreOwn /\ LinesAreOwn /\ [Next]_vars => LinesAreOwn'
  <2> SUFFICES ASSUME CallTypes, IdsAreOwn, LinesAreOwn, [Next]_vars PROVE LinesAreOwn'
    OBVIOUS
  <2> USE DEF LinesAreOwn
  <2>1. CASE UNCHANGED serverVars
    BY <2>1 DEF serverVars
  <2>2. ASSUME NEW c \in Callers, Written(c), call[c].pc \in Busy, UNCHANGED <<stdout, server>>
        PROVE  LinesAreOwn'
    <3>1. Line(c) \in Requests
      BY DEF Line, Requests, CallTypes, CallRecords, IdsAreOwn
    <3> QED
      BY <3>1, <2>2, StdioClientAssumption DEF Written
  <2>3. CASE \E c \in Callers : Request(c)
    <3>1. PICK c \in Callers : Request(c)
      BY <2>3
    <3>2. CASE Write(c)
      BY <3>2, <2>2, <2>1 DEF Write, At, Busy, serverVars
    <3>3. CASE WriteResumes(c)
      BY <3>3, <2>2 DEF WriteResumes, At, Busy
    <3> QED
      BY <3>1, <3>2, <3>3, <2>1 DEF Request, Register, WriteRefused, BrokenPipe, Receive, TimeOut, DeletePending
  <2>4. CASE ReadLine
    <3>1. stdout # <<>> /\ stdout' = Tail(stdout) /\ UNCHANGED <<stdin, server>>
      BY <2>4 DEF ReadLine
    <3>2. Tail(stdout) \in Seq(Printed) /\ Len(Tail(stdout)) <= Capacity
      BY <3>1, StdioClientAssumption
    <3> QED
      BY <3>1, <3>2
  <2>5. CASE CloseKills \/ ServerExits
    <3>1. /\ server' = [up |-> FALSE, asked |-> {}] /\ stdin' = <<>> /\ UNCHANGED stdout
      BY <2>5 DEF CloseKills, ServerExits
    <3>2. Len(<<>>) = 0 /\ <<>> \in Seq(Requests) /\ 0 <= Capacity
      BY StdioClientAssumption
    <3> QED
      BY <3>1, <3>2
  <2>6. CASE ServerReads
    <3>1. Head(stdin) \in Requests /\ Tail(stdin) \in Seq(Requests) /\ Len(Tail(stdin)) <= Capacity
      BY <2>6, StdioClientAssumption DEF ServerReads
    <3> QED
      BY <2>6, <3>1 DEF ServerReads
  <2>7. CASE ServerAnswers
    <3>1. /\ UNCHANGED server
          /\ \E request \in server.asked, kind \in {"result", "error"} :
               Prints([kind |-> kind, id |-> request.id, ch |-> request.ch])
      BY <2>7 DEF ServerAnswers
    <3>4. PICK request \in server.asked, kind \in {"result", "error"} :
            Prints([kind |-> kind, id |-> request.id, ch |-> request.ch])
      BY <3>1
    <3>2. [kind |-> kind, id |-> request.id, ch |-> request.ch] \in Printed
      BY DEF Printed, Requests
    <3>3. /\ stdout' \in Seq(Printed) /\ Len(stdout') <= Capacity /\ UNCHANGED stdin
      BY <3>4, <3>2, StdioClientAssumption DEF Prints
    <3> QED
      BY <3>1, <3>3
  <2>8. CASE ServerPrints
    <3>1. PICK kind \in {"notification", "malformed"} : Prints([kind |-> kind, id |-> 0, ch |-> 0])
      BY <2>8 DEF ServerPrints
    <3>2. [kind |-> kind, id |-> 0, ch |-> 0] \in Printed
      BY DEF Printed
    <3> QED
      BY <2>8, <3>1, <3>2, StdioClientAssumption DEF Prints, ServerPrints
  <2>9. CASE UNCHANGED vars
    BY <2>9, <2>1 DEF vars
  <2>10. CASE ServerAsks
    <3>1. PICK id \in OwnIds : Prints([kind |-> "request", id |-> id, ch |-> id])
      BY <2>10 DEF ServerAsks
    <3>2. [kind |-> "request", id |-> id, ch |-> id] \in Printed
      BY StdioClientAssumption DEF Printed
    <3> QED
      BY <2>10, <3>1, <3>2, StdioClientAssumption DEF Prints, ServerAsks
  <2>11. CASE FailPending
    <3>1. stdout' = <<>> /\ UNCHANGED <<stdin, server>>
      BY <2>11 DEF FailPending
    <3>2. Len(<<>>) = 0 /\ <<>> \in Seq(Printed) /\ 0 <= Capacity
      BY StdioClientAssumption
    <3> QED
      BY <3>1, <3>2
  <2> QED
    BY <2>1, <2>3, <2>4, <2>5, <2>6, <2>7, <2>8, <2>9, <2>10, <2>11
       DEF Next, ReadLoop, Server, CallTool, Tools, Send, Close, CloseReturns
<1> QED
  BY <1>1, <1>2, CallTypesInvariant, IdsAreOwnInvariant, PTL DEF Spec

-----------------------------------------------------------------------------
(* A pending channel is the one its id names, and has been made; the reader  *)
(* holds a response that is no longer pending, for the channel it names.    *)
PendingIsOwn ==
  /\ \A id \in DOMAIN pending : id \in 1 .. nextID - 1 /\ pending[id] = id
  /\ reader \in {"reading", "sending", "ended"}
  /\ taken \in [ch : Nat, line : Responses] /\ taken.ch < nextID
  /\ reader = "sending" => /\ taken.ch \in 1 .. nextID - 1 /\ taken.ch \notin DOMAIN pending
                           /\ taken.line.for = taken.ch

(* What a channel holds is for it, and a channel that is still to receive    *)
(* something is empty.                                                     *)
RoomForAll ==
  /\ channels \in [Channels -> Responses]
  /\ \A ch \in Channels : ch >= nextID => channels[ch] = Empty
  /\ AnswersOwnRequest
  /\ SendNeverBlocks

LEMMA EmptyFacts == Empty \in Responses /\ Failure \in Responses /\ Failure # Empty
                    /\ Empty.kind = "empty" /\ Failure.kind = "failure"
BY DEF Empty, Failure, Responses

(* How the steps of a caller change the pending requests and the channels.   *)
LEMMA RequestSteps ==
  ASSUME NEW c \in Callers, Request(c)
  PROVE  \/ Register(c) /\ UNCHANGED channels
         \/ Receive(c) /\ UNCHANGED pending
         \/ DeletePending(c) /\ UNCHANGED channels
         \/ /\ Write(c) \/ WriteRefused(c) \/ WriteResumes(c) \/ BrokenPipe(c) \/ TimeOut(c)
            /\ UNCHANGED <<pending, channels, closed>>
BY DEF Request, Register, Write, WriteRefused, WriteResumes, BrokenPipe, Receive, TimeOut,
       DeletePending, clientVars

LEMMA PendingIsOwnInvariant == Spec => []PendingIsOwn
<1>1. Init => PendingIsOwn
  BY EmptyFacts DEF Init, PendingIsOwn, Nothing
<1>2. CallTypes /\ LinesAreOwn /\ PendingIsOwn /\ [Next]_vars => PendingIsOwn'
  <2> SUFFICES ASSUME CallTypes, LinesAreOwn, PendingIsOwn, [Next]_vars PROVE PendingIsOwn'
    OBVIOUS
  <2> USE DEF PendingIsOwn
  <2>0. nextID \in Nat \ {0}
    BY DEF CallTypes
  <2>1. CASE UNCHANGED <<nextID, pending, reader, taken>>
    BY <2>1
  <2>2. ASSUME NEW c \in Callers, Register(c)
        PROVE  PendingIsOwn'
    <3>1. /\ nextID' = nextID + 1 /\ UNCHANGED <<reader, taken>>
          /\ pending' = [i \in DOMAIN pending \cup {nextID} |-> IF i = nextID THEN nextID ELSE pending[i]]
      BY <2>2 DEF Register, TakeID, readerVars
    <3> QED
      BY <3>1, <2>0
  <2>3. ASSUME NEW c \in Callers, Request(c), ~Register(c)
        PROVE  PendingIsOwn'
    <3>1. /\ UNCHANGED <<nextID, reader, taken>>
          /\ DOMAIN pending' \subseteq DOMAIN pending /\ \A id \in DOMAIN pending' : pending'[id] = pending[id]
      BY <2>3 DEF Request, Write, WriteRefused, WriteResumes, BrokenPipe, Receive, TimeOut,
                  DeletePending, Without, clientVars, readerVars
    <3> QED
      BY <3>1
  <2>4. CASE ReadLine
    <3> DEFINE line == Head(stdout)
    <3>1. line \in Printed /\ line.kind \in {"result", "error", "request", "notification"}
      BY <2>4 DEF ReadLine, LinesAreOwn, Printed
    <3>2. UNCHANGED nextID /\ pending' \in {pending, Without(pending, line.id)}
      BY <2>4 DEF ReadLine, Popped
    <3>3. DOMAIN pending' \subseteq DOMAIN pending /\ \A id \in DOMAIN pending' : pending'[id] = pending[id]
      BY <3>2 DEF Without
    <3>4. CASE UNCHANGED <<reader, taken>>
      BY <3>2, <3>3, <3>4
    <3>5. CASE ~UNCHANGED <<reader, taken>>
      <4>1. /\ line.id \in DOMAIN pending /\ pending' = Without(pending, line.id) /\ reader' = "sending"
            /\ taken' = [ch |-> pending[line.id], line |-> [kind |-> line.kind, for |-> line.ch]]
        BY <2>4, <3>5 DEF ReadLine, Popped
      <4>2. line.id \in 1 .. nextID - 1 /\ pending[line.id] = line.id /\ line.ch = line.id
        BY <4>1, <3>1 DEF Printed
      <4>3. line.kind \in {"result", "error", "request"} /\ line.id \in Nat
        BY <4>2, <3>1 DEF Printed
      <4>4. [kind |-> line.kind, for |-> line.ch] \in Responses
        BY <4>2, <4>3 DEF Responses
      <4>5. DOMAIN pending' = DOMAIN pending \ {line.id}
        BY <4>1 DEF Without
      <4> QED
        BY <4>1, <4>2, <4>3, <4>4, <4>5, <3>2, <3>3, <2>0
    <3> QED
      BY <3>4, <3>5
  <2>5. CASE Send
    <3>1. Nothing \in [ch : Nat, line : Responses] /\ Nothing.ch = 0
      BY EmptyFacts DEF Nothing
    <3> QED
      BY <2>5, <3>1, <2>0 DEF Send
  <2>6. CASE FailPending
    BY <2>6 DEF FailPending
  <2> QED
    BY <2>1, <2>2, <2>3, <2>4, <2>5, <2>6
       DEF Next, ReadLoop, Server, CallTool, Tools, Close, CloseReturns, CloseKills, ServerReads,
           ServerAnswers, ServerPrints, ServerAsks, ServerExits, Prints, clientVars, readerVars, vars
<1> QED
  BY <1>1, <1>2, CallTypesInvariant, LinesAreOwnInvariant, PTL DEF Spec

LEMMA RoomForAllInvariant == Spec => []RoomForAll
<1> DEFINE Known == CallTypes /\ OneLoad /\ IdsAreCounted /\ IdsAreOwn /\ PendingIsOwn
<1>1. Init => RoomForAll
  BY EmptyFacts DEF Init, RoomForAll, AnswersOwnRequest, SendNeverBlocks
<1>2. Known /\ RoomForAll /\ [Next]_vars => RoomForAll'
  <2> SUFFICES ASSUME Known, RoomForAll, [Next]_vars PROVE RoomForAll'
    OBVIOUS
  <2> USE DEF RoomForAll, AnswersOwnRequest, SendNeverBlocks
  <2>0. /\ nextID \in 1 .. MaxCalls + 2 /\ MaxCalls \in Nat
        /\ \A c \in Callers : call[c].pc = "register" => nextID \in Channels
        /\ \A ch \in 1 .. nextID - 1 : ch \in Channels
    <3>1. MaxCalls \in Nat /\ nextID \in 1 .. MaxCalls + 2
      BY ChannelIsNew, StdioClientAssumption
    <3> QED
      BY <3>1, ChannelIsNew DEF Channels
  <2>1. CASE UNCHANGED <<nextID, pending, channels, reader, taken>>
    BY <2>1
  <2>2. ASSUME NEW c \in Callers, Register(c)
        PROVE  RoomForAll'
    <3>1. /\ nextID' = nextID + 1 /\ UNCHANGED <<reader, taken, channels>>
          /\ pending' = [i \in DOMAIN pending \cup {nextID} |-> IF i = nextID THEN nextID ELSE pending[i]]
      BY <2>2 DEF Register, TakeID, readerVars
    <3>2. nextID \in Channels /\ channels[nextID] = Empty
      BY <2>0, <2>2 DEF Register, At
    <3>3. \A ch \in Channels : ch >= nextID' => channels[ch] = Empty
      BY <3>1, <2>0 DEF Channels
    <3> QED
      BY <3>1, <3>2, <3>3
  <2>3. ASSUME NEW c \in Callers, Receive(c)
        PROVE  RoomForAll'
    <3>1. /\ channels' = [channels EXCEPT ![call[c].ch] = Empty]
          /\ UNCHANGED <<nextID, pending, reader, taken>>
      BY <2>3 DEF Receive, readerVars
    <3>2. /\ channels' \in [Channels -> Responses]
          /\ \A ch \in Channels : channels'[ch] \in {Empty, channels[ch]}
      BY <3>1, EmptyFacts
    <3>3. /\ \A id \in DOMAIN pending : pending[id] \in Channels
          /\ reader = "sending" => taken.ch \in Channels
      BY <2>0 DEF PendingIsOwn
    <3> QED
      BY <3>1, <3>2, <3>3, EmptyFacts
  <2>4. ASSUME UNCHANGED <<nextID, channels, reader, taken>>, DOMAIN pending' \subseteq DOMAIN pending,
               \A id \in DOMAIN pending' : pending'[id] = pending[id]
        PROVE  RoomForAll'
    BY <2>4
  <2>5. CASE ReadLine
    <3> DEFINE line == Head(stdout)
    <3>1. UNCHANGED <<nextID, channels>> /\ pending' \in {pending, Without(pending, line.id)}
      BY <2>5 DEF ReadLine, Popped
    <3>2. DOMAIN pending' \subseteq DOMAIN pending /\ \A id \in DOMAIN pending' : pending'[id] = pending[id]
      BY <3>1 DEF Without
    <3>3. \/ UNCHANGED <<reader, taken>>
          \/ line.id \in DOMAIN pending /\ taken'.ch = pending[line.id]
      BY <2>5 DEF ReadLine
    <3> QED
      BY <3>1, <3>2, <3>3
  <2>6. CASE Send
    <3>1. /\ reader = "sending" /\ channels' = [channels EXCEPT ![taken.ch] = taken.line]
          /\ reader' = "reading" /\ UNCHANGED <<nextID, pending>>
      BY <2>6 DEF Send
    <3>2. /\ taken.ch \in Channels /\ taken.ch < nextID /\ taken.ch \notin DOMAIN pending
          /\ taken.line.for = taken.ch /\ taken.line \in Responses
      BY <3>1, <2>0 DEF PendingIsOwn
    <3>3. \A id \in DOMAIN pending : pending[id] # taken.ch
      BY <3>2 DEF PendingIsOwn
    <3>4. \A ch \in Channels : ch >= nextID => ch # taken.ch
      BY <3>2, <2>0 DEF Channels
    <3> QED
      BY <3>1, <3>2, <3>3, <3>4
  <2>7. CASE FailPending
    <3>1. /\ channels' = [ch \in Channels |-> IF \E id \in DOMAIN pending : pending[id] = ch
                                              THEN Failure ELSE channels[ch]]
          /\ pending' = <<>> /\ reader' = "ended" /\ UNCHANGED nextID
      BY <2>7 DEF FailPending
    <3>2. \A ch \in Channels : ch >= nextID => ~\E id \in DOMAIN pending : pending[id] = ch
      BY <2>0 DEF PendingIsOwn, Channels
    <3>3. DOMAIN pending' = {}
      BY <3>1
    <3>4. \A ch \in Channels : channels'[ch] \in Responses /\ (channels'[ch] # Failure => channels'[ch] = channels[ch])
      BY <3>1, EmptyFacts
    <3> QED
      BY <3>1, <3>2, <3>3, <3>4, EmptyFacts
  <2>8. ASSUME NEW c \in Callers, Request(c)
        PROVE  RoomForAll'
    <3>1. CASE DeletePending(c)
      BY <3>1, <2>4 DEF DeletePending, Without, readerVars
    <3>2. CASE Write(c) \/ WriteRefused(c) \/ WriteResumes(c) \/ BrokenPipe(c) \/ TimeOut(c)
      BY <3>2, <2>1 DEF Write, WriteRefused, WriteResumes, BrokenPipe, TimeOut, clientVars, readerVars
    <3> QED
      BY <2>8, <2>2, <2>3, <3>1, <3>2 DEF Request
  <2> QED
    BY <2>1, <2>5, <2>6, <2>7, <2>8
       DEF Next, ReadLoop, Server, CallTool, Tools, Close, CloseReturns, CloseKills, ServerReads,
           ServerAnswers, ServerPrints, ServerAsks, ServerExits, Prints, clientVars, readerVars, vars
<1> QED
  BY <1>1, <1>2, CallTypesInvariant, OneLoadInvariant, IdsAreCountedInvariant, IdsAreOwnInvariant,
     PendingIsOwnInvariant, PTL DEF Spec

(* A request only ever receives the server's response to itself, however    *)
(* late the responses to the requests before it come, and however often, or *)
(* a request of the server's own that has the same id.                      *)
THEOREM AnswersAreOwn == Spec => []AnswersOwnRequest
<1>1. RoomForAll => AnswersOwnRequest
  BY DEF RoomForAll
<1> QED
  BY <1>1, RoomForAllInvariant, PTL

(* readLoop and failPending find room in every channel they send on.        *)
THEOREM SendsNeverBlock == Spec => []SendNeverBlocks
<1>1. RoomForAll => SendNeverBlocks
  BY DEF RoomForAll
<1> QED
  BY <1>1, RoomForAllInvariant, PTL

-----------------------------------------------------------------------------
(* The answer of whoever waits is there, or still to be delivered.          *)
ToCome(c) == \/ channels[call[c].ch] # Empty
             \/ call[c].ch \in DOMAIN pending
             \/ reader = "sending" /\ taken.ch = call[c].ch

AnswersToCome ==
  /\ reader = "ended" => closed
  /\ mu \in Callers \cup {NoOne} /\ closed \in BOOLEAN
  /\ \A c \in Callers : At(c, "writing") => mu = c /\ ~closed
  /\ \A c \in Callers : call[c].pc \in {"write", "writing", "waiting"} /\ call[c].op \in Asking => ToCome(c)
  /\ NobodyWaitsForADeadReader

LEMMA AnswersToComeInvariant == Spec => []AnswersToCome
<1> DEFINE Known == /\ CallTypes /\ OneLoad /\ IdsAreCounted /\ IdsAreOwn /\ PendingIsOwn /\ RoomForAll
<1>1. Init => AnswersToCome
  BY IdleFacts, StdioClientAssumption DEF Init, AnswersToCome, NobodyWaitsForADeadReader, At
<1>2. Known /\ AnswersToCome /\ [Next]_vars => AnswersToCome'
  <2> SUFFICES ASSUME Known, AnswersToCome, [Next]_vars PROVE AnswersToCome'
    OBVIOUS
  <2> USE DEF AnswersToCome, NobodyWaitsForADeadReader, At
  <2>0. /\ DOMAIN call = Callers /\ \A c \in Callers : call[c] \in CallRecords
        /\ nextID \in 1 .. MaxCalls + 2 /\ \A ch \in 1 .. nextID - 1 : ch \in Channels
    <3>1. MaxCalls \in Nat /\ nextID \in 1 .. MaxCalls + 2
      BY ChannelIsNew, StdioClientAssumption
    <3> QED
      BY <3>1 DEF Channels, CallTypes
  <2>1. CASE UNCHANGED <<pending, channels, reader, taken, closed, mu, call>>
    BY <2>1 DEF ToCome
  (* Who is in a request has a channel of its own. *)
  <2>2. \A c \in Callers :
          call[c].pc \in Busy /\ call[c].op \in Asking =>
            /\ call[c].id = call[c].ch /\ call[c].ch \in Channels
            /\ \A d \in Callers : d # c => call[d].ch # call[c].ch /\ call[d].id # call[c].id
    BY <2>0 DEF IdsAreOwn
  <2>3. ASSUME NEW c \in Callers, NEW r \in CallRecords, call' = [call EXCEPT ![c] = r],
               UNCHANGED <<pending, channels, reader, taken, closed>>,
               \/ mu' = mu
               \/ mu = NoOne /\ mu' = c
               \/ mu = c /\ mu' = NoOne,
               r.pc = "writing" => mu' = c /\ ~closed,
               r.pc \in {"write", "writing", "waiting"} /\ r.op \in Asking => ToCome(c) /\ r.ch = call[c].ch,
               r.pc = "waiting" => r.op \in Asking /\ reader # "ended"
        PROVE  AnswersToCome'
    <3>1. \A d \in Callers : call'[d] = IF d = c THEN r ELSE call[d]
      BY <2>0, <2>3
    <3>2. \A d \in Callers \ {c} : ToCome(d) => ToCome(d)'
      BY <2>3, <3>1 DEF ToCome
    <3>3. r.ch = call[c].ch /\ ToCome(c) => ToCome(c)'
      BY <2>3, <3>1 DEF ToCome
    <3>4. \A d \in Callers : call'[d].pc = "writing" => mu' = d /\ ~closed'
      BY <2>3, <3>1, StdioClientAssumption
    <3> QED
      BY <2>3, <3>1, <3>2, <3>3, <3>4, StdioClientAssumption
  <2>4. ASSUME NEW c \in Callers, CallTool(c) \/ Tools(c)
        PROVE  AnswersToCome'
    <3>1. /\ UNCHANGED <<pending, channels, reader, taken, closed, mu>>
          /\ UNCHANGED call \/ \E op \in Asking : call' = [call EXCEPT ![c] = Asks(op)]
      BY <2>4 DEF CallTool, Tools, Load, Asks, Asking, clientVars, readerVars
    <3>2. CASE UNCHANGED call
      BY <3>1, <3>2, <2>1
    <3>3. CASE \E op \in Asking : call' = [call EXCEPT ![c] = Asks(op)]
      <4>1. PICK op \in Asking : call' = [call EXCEPT ![c] = Asks(op)]
        BY <3>3
      <4> QED
        BY <4>1, <3>1, <2>3, IdleFacts
    <3> QED
      BY <3>1, <3>2, <3>3
  <2>5. ASSUME NEW c \in Callers, Register(c)
        PROVE  AnswersToCome'
    <3>1. /\ call' = [call EXCEPT ![c] = [@ EXCEPT !.pc = "write", !.id = nextID, !.ch = nextID]]
          /\ pending' = [i \in DOMAIN pending \cup {nextID} |-> IF i = nextID THEN nextID ELSE pending[i]]
          /\ UNCHANGED <<channels, reader, taken, closed, mu>>
      BY <2>5 DEF Register, TakeID, readerVars
    <3>2. /\ \A d \in Callers : d # c => call'[d] = call[d]
          /\ call'[c].pc = "write" /\ call'[c].ch = nextID
      BY <3>1, <2>0 DEF CallRecords
    <3>3. \A d \in Callers : d # c /\ ToCome(d) => ToCome(d)'
      BY <3>1, <3>2 DEF ToCome
    <3>4. ToCome(c)'
      BY <3>1, <3>2 DEF ToCome
    <3> QED
      BY <3>1, <3>2, <3>3, <3>4
  <2>6. ASSUME NEW c \in Callers, Written(c), call[c].pc \in {"write", "writing"}, ~closed,
               UNCHANGED <<pending, channels, reader, taken, closed>>,
               mu' = mu \/ (mu = c /\ mu' = NoOne)
        PROVE  AnswersToCome'
    <3>1. CASE call[c].op = "initialized"
      <4>1. Over(c)
        BY <2>6, <3>1, FinishIsOver DEF Written, Busy
      <4>2. PICK r \in {Idle, Notifying, Asks("list")} : call' = [call EXCEPT ![c] = r]
        BY <4>1 DEF Over
      <4>3. r \in CallRecords /\ r.pc # "writing" /\ r.pc # "waiting" /\ ~(r.pc = "write" /\ r.op \in Asking)
        BY IdleFacts DEF Asking
      <4> QED
        BY <2>6, <4>2, <4>3, <2>3
    <3>2. CASE call[c].op # "initialized"
      <4> DEFINE r == [call[c] EXCEPT !.pc = "waiting"]
      <4>1. call' = [call EXCEPT ![c] = r] /\ call[c].op \in Asking
        BY <2>6, <3>2, IdleFacts DEF Written, Goto, CallTypes, Busy
      <4>2. r \in CallRecords /\ r.pc = "waiting" /\ r.op = call[c].op /\ r.ch = call[c].ch
        BY <2>0 DEF CallRecords, Pcs
      <4> QED
        BY <2>6, <4>1, <4>2, <2>3
    <3> QED
      BY <3>1, <3>2
  <2>7. ASSUME NEW c \in Callers, Write(c)
        PROVE  AnswersToCome'
    <3>1. /\ call[c].pc = "write" /\ mu = NoOne /\ ~closed
          /\ UNCHANGED <<pending, channels, reader, taken, closed>>
      BY <2>7 DEF Write, readerVars
    <3>2. CASE mu' = c /\ Goto(c, "writing")
      <4> DEFINE r == [call[c] EXCEPT !.pc = "writing"]
      <4>1. call' = [call EXCEPT ![c] = r]
        BY <3>2 DEF Goto
      <4>2. r \in CallRecords /\ r.pc = "writing" /\ r.op = call[c].op /\ r.ch = call[c].ch
        BY <2>0 DEF CallRecords, Pcs
      <4> QED
        BY <3>1, <3>2, <4>1, <4>2, <2>3
    <3> QED
      BY <2>7, <3>1, <3>2, <2>6 DEF Write
  <2>8. ASSUME NEW c \in Callers, WriteResumes(c)
        PROVE  AnswersToCome'
    BY <2>8, <2>6 DEF WriteResumes, readerVars
  <2>9. ASSUME NEW c \in Callers, WriteRefused(c) \/ BrokenPipe(c) \/ TimeOut(c)
        PROVE  AnswersToCome'
    <3> DEFINE r == [call[c] EXCEPT !.pc = "forget"]
    <3>1. /\ call' = [call EXCEPT ![c] = r] /\ UNCHANGED <<pending, channels, reader, taken, closed>>
          /\ mu' = mu \/ (mu = c /\ mu' = NoOne)
      <4>1. CASE BrokenPipe(c)
        BY <4>1 DEF BrokenPipe, Goto, readerVars
      <4>2. CASE WriteRefused(c) \/ TimeOut(c)
        BY <4>2 DEF WriteRefused, TimeOut, Goto, clientVars, readerVars
      <4> QED
        BY <2>9, <4>1, <4>2
    <3>2. r \in CallRecords /\ r.pc = "forget"
      BY <2>0 DEF CallRecords, Pcs
    <3> QED
      BY <3>1, <3>2, <2>3
  <2>10. ASSUME NEW c \in Callers, Receive(c) \/ DeletePending(c)
         PROVE  AnswersToCome'
    <3>1. call[c].pc \in {"waiting", "forget"} /\ UNCHANGED <<reader, taken, closed, mu>> /\ GoesOn(c)
      BY <2>10, RequestGoesOn DEF Receive, DeletePending, readerVars, At
    <3>2. Over(c)
      BY <2>10, FinishIsOver, ReceiveIsOver DEF DeletePending, At, Busy
    <3>3. PICK r \in {Idle, Notifying, Asks("list")} : call' = [call EXCEPT ![c] = r]
      BY <3>2 DEF Over
    <3>4. r \in CallRecords /\ r.pc # "writing" /\ r.pc # "waiting" /\ ~(r.pc = "write" /\ r.op \in Asking)
      BY IdleFacts DEF Asking
    <3>5. \A d \in Callers : call'[d] = IF d = c THEN r ELSE call[d]
      BY <2>0, <3>3
    <3>6. ASSUME NEW d \in Callers, d # c, call[d].pc \in Busy, call[d].op \in Asking
          PROVE  /\ channels[call[d].ch] # Empty => channels'[call[d].ch] # Empty
                 /\ ToCome(d) => ToCome(d)'
      <4>1. call[d].ch \in Channels /\ call[d].ch # call[c].ch /\ call[d].ch # call[c].id /\ call'[d] = call[d]
        BY <2>2, <3>5, <3>6
      <4>2. CASE Receive(c)
        BY <4>1, <4>2, <3>1 DEF Receive, ToCome, RoomForAll
      <4>3. CASE DeletePending(c)
        BY <4>1, <4>3, <3>1 DEF DeletePending, Without, ToCome
      <4> QED
        BY <2>10, <4>2, <4>3
    <3>7. \A d \in Callers : call[d].pc = "waiting" => call[d].op \in Asking
      BY IdleFacts DEF CallTypes, Busy
    <3> QED
      BY <3>1, <3>4, <3>5, <3>6, <3>7 DEF Busy
  <2>11. CASE ReadLine
    <3> DEFINE line == Head(stdout)
    <3>1. UNCHANGED <<channels, closed, mu, call>> /\ reader = "reading" /\ reader' # "ended"
      BY <2>11 DEF ReadLine
    <3>2. \A c \in Callers : ToCome(c) => ToCome(c)'
      <4>1. CASE UNCHANGED pending
        BY <3>1, <4>1 DEF ToCome
      <4>2. CASE ~UNCHANGED pending
        <5>1. pending' = Without(pending, line.id)
          BY <2>11, <4>2 DEF ReadLine, Popped
        <5>2. line.id \in DOMAIN pending => reader' = "sending" /\ taken'.ch = line.id
          BY <2>11, <4>2 DEF ReadLine, PendingIsOwn
        <5>3. DOMAIN pending' = DOMAIN pending \ {line.id}
          BY <5>1 DEF Without
        <5> QED
          BY <3>1, <5>2, <5>3 DEF ToCome
      <4> QED
        BY <4>1, <4>2
    <3> QED
      BY <3>1, <3>2
  <2>12. CASE Send
    <3>1. /\ reader = "sending" /\ channels' = [channels EXCEPT ![taken.ch] = taken.line]
          /\ reader' = "reading" /\ UNCHANGED <<pending, closed, mu, call>>
      BY <2>12 DEF Send
    <3>2. taken.ch \in Channels /\ taken.line # Empty
      BY <3>1, <2>0 DEF PendingIsOwn, Empty
    <3>3. \A c \in Callers : ToCome(c) => ToCome(c)'
      BY <3>1, <3>2 DEF ToCome, RoomForAll
    <3> QED
      BY <3>1, <3>3
  <2>13. CASE FailPending
    <3>1. /\ channels' = [ch \in Channels |-> IF \E id \in DOMAIN pending : pending[id] = ch
                                              THEN Failure ELSE channels[ch]]
          /\ reader = "reading" /\ reader' = "ended" /\ closed' = TRUE /\ mu = NoOne /\ UNCHANGED <<mu, call>>
      BY <2>13 DEF FailPending, ClosedByReader
    <3>2. ASSUME NEW c \in Callers, call[c].pc \in {"write", "writing", "waiting"}, call[c].op \in Asking
          PROVE  channels'[call[c].ch] # Empty
      <4>1. /\ call[c].ch \in Channels
            /\ channels[call[c].ch] # Empty \/ \E id \in DOMAIN pending : pending[id] = call[c].ch
        BY <2>2, <3>1, <3>2 DEF ToCome, Busy, PendingIsOwn
      <4> QED
        BY <4>1, <3>1, EmptyFacts
    <3>3. \A c \in Callers : call[c].pc = "waiting" => call[c].op \in Asking
      BY IdleFacts DEF CallTypes, Busy
    <3>4. \A c \in Callers : call[c].pc # "writing"
      BY <3>1, StdioClientAssumption
    <3> QED
      BY <3>1, <3>2, <3>3, <3>4 DEF ToCome
  <2>14. CASE Close
    <3>1. closed' = TRUE /\ mu = NoOne /\ UNCHANGED <<pending, channels, reader, taken, mu, call>>
      BY <2>14 DEF Close, readerVars
    <3> QED
      BY <3>1, StdioClientAssumption DEF ToCome
  <2>15. CASE Server \/ CloseReturns \/ CloseKills \/ UNCHANGED vars
    BY <2>15, <2>1 DEF Server, CloseReturns, CloseKills, ServerReads, ServerAnswers, ServerPrints, ServerAsks, ServerExits,
                       Prints, clientVars, readerVars, vars
  <2> QED
    BY <2>4, <2>5, <2>7, <2>8, <2>9, <2>10, <2>11, <2>12, <2>13, <2>14, <2>15
       DEF Next, Request, ReadLoop
<1> QED
  BY <1>1, <1>2, CallTypesInvariant, OneLoadInvariant, IdsAreCountedInvariant, IdsAreOwnInvariant,
     PendingIsOwnInvariant, RoomForAllInvariant, PTL DEF Spec

(* Once the reader has ended, no caller sits out its timeout.               *)
THEOREM NobodyWaits == Spec => []NobodyWaitsForADeadReader
<1>1. AnswersToCome => NobodyWaitsForADeadReader
  BY DEF AnswersToCome
<1> QED
  BY <1>1, AnswersToComeInvariant, PTL

-----------------------------------------------------------------------------
(* No entry of `pending' outlives its request.                              *)
THEOREM PendingIsWaited == Spec => []PendingIsWaitedFor
<1> DEFINE Known == CallTypes /\ IdsAreOwn /\ PendingIsOwn /\ RoomForAll
<1>1. Init => PendingIsWaitedFor
  BY DEF Init, PendingIsWaitedFor
<1>2. Known /\ PendingIsWaitedFor /\ [Next]_vars => PendingIsWaitedFor'
  <2> SUFFICES ASSUME Known, PendingIsWaitedFor, [Next]_vars PROVE PendingIsWaitedFor'
    OBVIOUS
  <2> USE DEF PendingIsWaitedFor
  <2>0. DOMAIN call = Callers /\ \A c \in Callers : call[c] \in CallRecords
    BY DEF CallTypes
  <2>1. ASSUME UNCHANGED call, DOMAIN pending' \subseteq DOMAIN pending,
               \A id \in DOMAIN pending' : pending'[id] = pending[id]
        PROVE  PendingIsWaitedFor'
    BY <2>1
  (* Another caller's step leaves a pending request its caller. *)
  <2>2. ASSUME NEW c \in Callers, NEW r, call' = [call EXCEPT ![c] = r],
               DOMAIN pending' \subseteq DOMAIN pending,
               \A id \in DOMAIN pending' : pending'[id] = pending[id],
               \/ \A id \in DOMAIN pending' : pending'[id] # call[c].ch
               \/ r.ch = call[c].ch /\ r.pc \in {"write", "writing", "waiting", "forget"}
               \/ call[c].pc \in {"idle", "register"}
        PROVE  PendingIsWaitedFor'
    <3>1. \A d \in Callers : call'[d] = IF d = c THEN r ELSE call[d]
      BY <2>0, <2>2
    <3> QED
      BY <2>2, <3>1
  <2>3. ASSUME NEW c \in Callers, CallTool(c) \/ Tools(c)
        PROVE  PendingIsWaitedFor'
    <3>1. /\ call[c].pc = "idle" /\ UNCHANGED pending
          /\ UNCHANGED call \/ \E op \in Asking : call' = [call EXCEPT ![c] = Asks(op)]
      BY <2>3 DEF CallTool, Tools, Load, Asks, Asking, clientVars, At
    <3> QED
      BY <3>1, <2>1, <2>2
  <2>4. ASSUME NEW c \in Callers, Register(c)
        PROVE  PendingIsWaitedFor'
    <3>1. /\ call' = [call EXCEPT ![c] = [@ EXCEPT !.pc = "write", !.id = nextID, !.ch = nextID]]
          /\ pending' = [i \in DOMAIN pending \cup {nextID} |-> IF i = nextID THEN nextID ELSE pending[i]]
          /\ call[c].pc = "register"
      BY <2>4 DEF Register, TakeID, At
    <3>2. /\ \A d \in Callers : d # c => call'[d] = call[d]
          /\ call'[c].pc = "write" /\ call'[c].ch = nextID
      BY <3>1, <2>0 DEF CallRecords
    <3>3. ASSUME NEW id \in DOMAIN pending'
          PROVE  \E d \in Callers : call'[d].ch = pending'[id] /\ call'[d].pc \in {"write", "writing", "waiting", "forget"}
      <4>1. CASE id = nextID
        BY <4>1, <3>1, <3>2
      <4>2. CASE id # nextID
        <5>1. id \in DOMAIN pending /\ pending'[id] = pending[id]
          BY <4>2, <3>1
        <5>2. PICK d \in Callers : call[d].ch = pending[id] /\ call[d].pc \in {"write", "writing", "waiting", "forget"}
          BY <5>1
        <5> QED
          BY <5>1, <5>2, <3>1, <3>2
      <4> QED
        BY <4>1, <4>2
    <3> QED
      BY <3>3
  <2>5. ASSUME NEW c \in Callers, Request(c), ~Register(c)
        PROVE  PendingIsWaitedFor'
    <3>1. GoesOn(c) /\ call[c].pc \in Busy
      BY <2>5, RequestGoesOn DEF Request, GoesOn
    <3>2. CASE Receive(c)
      <4>1. UNCHANGED pending /\ channels[call[c].ch] # Empty
        BY <3>2 DEF Receive
      <4>2. \A id \in DOMAIN pending : pending[id] # call[c].ch
        BY <4>1 DEF RoomForAll, SendNeverBlocks
      <4>3. PICK r \in {Idle, Notifying, Asks("list")} : call' = [call EXCEPT ![c] = r]
        BY <3>2, ReceiveIsOver DEF Over
      <4> QED
        BY <4>1, <4>2, <4>3, <2>2
    <3>3. CASE DeletePending(c)
      <4>1. pending' = Without(pending, call[c].id)
        BY <3>3 DEF DeletePending
      <4>2. /\ DOMAIN pending' = DOMAIN pending \ {call[c].id}
            /\ \A id \in DOMAIN pending' : pending'[id] = pending[id] /\ pending[id] = id
        BY <4>1 DEF Without, PendingIsOwn
      <4>3. call[c].id = call[c].ch
        BY <2>0 DEF IdsAreOwn
      <4>4. PICK r \in {Idle, Notifying, Asks("list")} : call' = [call EXCEPT ![c] = r]
        BY <3>3, FinishIsOver DEF DeletePending, At, Busy, Over
      <4> QED
        BY <4>2, <4>3, <4>4, <2>2
    <3>4. CASE ~Receive(c) /\ ~DeletePending(c)
      <4>1. UNCHANGED pending
        BY <2>5, <3>4, RequestSteps
      <4>2. \/ call[c].op = "initialized" /\ Over(c)
            \/ \E pc \in Busy : Goto(c, pc)
        <5>1. CASE Write(c) \/ WriteResumes(c)
          BY <5>1, FinishIsOver DEF Write, WriteResumes, Written, At, Busy
        <5>2. CASE WriteRefused(c) \/ BrokenPipe(c) \/ TimeOut(c)
          BY <5>2 DEF WriteRefused, BrokenPipe, TimeOut, Busy
        <5> QED
          BY <2>5, <3>4, <5>1, <5>2 DEF Request
      <4>3. CASE call[c].op = "initialized" /\ Over(c)
        <5>1. PICK r \in {Idle, Notifying, Asks("list")} : call' = [call EXCEPT ![c] = r]
          BY <4>3 DEF Over
        <5>2. call[c].ch = 0
          BY <4>3 DEF IdsAreOwn, Asking
        <5>3. \A id \in DOMAIN pending : pending[id] # 0
          BY DEF PendingIsOwn
        <5> QED
          BY <4>1, <5>1, <5>2, <5>3, <2>2
      <4>4. ASSUME NEW pc \in Busy, Goto(c, pc)
            PROVE  PendingIsWaitedFor'
        <5> DEFINE r == [call[c] EXCEPT !.pc = pc]
        <5>1. r.pc = pc /\ r.ch = call[c].ch /\ call' = [call EXCEPT ![c] = r]
          BY <4>4, <2>0 DEF CallRecords, Goto
        <5> QED
          BY <4>1, <5>1, <2>2 DEF Busy
      <4> QED
        BY <4>2, <4>3, <4>4
    <3> QED
      BY <3>2, <3>3, <3>4
  <2>6. CASE ReadLine
    <3>1. UNCHANGED call /\ pending' \in {pending, Without(pending, Head(stdout).id)}
      BY <2>6 DEF ReadLine, Popped
    <3> QED
      BY <3>1, <2>1 DEF Without
  <2>7. CASE FailPending
    BY <2>7 DEF FailPending
  <2> QED
    BY <2>1, <2>3, <2>4, <2>5, <2>6, <2>7
       DEF Next, ReadLoop, Server, Send, Close, CloseReturns, CloseKills, ServerReads,
           ServerAnswers, ServerPrints, ServerAsks, ServerExits, Prints, clientVars, vars
<1> QED
  BY <1>1, <1>2, CallTypesInvariant, IdsAreOwnInvariant, PendingIsOwnInvariant,
     RoomForAllInvariant, PTL DEF Spec

-----------------------------------------------------------------------------
(* Close: `closed' while Close was not called is the reader's doing.        *)
ClosedByWhom ==
  /\ closer \in {"open", "waiting", "done"}
  /\ closed /\ closer = "open" => gaveUp
  /\ gaveUp => reader = "ended"
  /\ gaveUp \in BOOLEAN

LEMMA ClosedByWhomInvariant == Spec => [](ClosedByWhom /\ CloseEndsTheServer)
<1> DEFINE Inv == ClosedByWhom /\ CloseEndsTheServer
<1>1. Init => Inv
  BY DEF Init, ClosedByWhom, CloseEndsTheServer
<1>2. LinesAreOwn /\ Inv /\ [Next]_vars => Inv'
  <2> SUFFICES ASSUME LinesAreOwn, Inv, [Next]_vars PROVE Inv'
    OBVIOUS
  <2> USE DEF ClosedByWhom, CloseEndsTheServer
  <2>1. CASE UNCHANGED <<closed, closer, gaveUp, reader>> /\ server'.up \in {FALSE, server.up}
    BY <2>1
  <2>2. CASE \E c \in Callers : CallTool(c) \/ Tools(c) \/ Request(c)
    BY <2>2, <2>1 DEF CallTool, Tools, Request, Register, Write, WriteRefused, WriteResumes, BrokenPipe,
                      Receive, TimeOut, DeletePending, clientVars, readerVars, serverVars
  <2>3. CASE ReadLine
    BY <2>3 DEF ReadLine
  <2>4. CASE Send
    BY <2>4 DEF Send, serverVars
  <2>5. CASE FailPending
    BY <2>5 DEF FailPending, ClosedByReader, serverVars
  <2>6. CASE Close
    BY <2>6 DEF Close, readerVars, serverVars
  <2>7. CASE CloseReturns
    BY <2>7 DEF CloseReturns, clientVars, readerVars, serverVars
  <2>8. CASE CloseKills
    BY <2>8 DEF CloseKills, clientVars, readerVars
  <2>9. CASE Server
    <3>1. UNCHANGED <<closed, closer, gaveUp, reader>>
      BY <2>9 DEF Server, ServerReads, ServerAnswers, ServerPrints, ServerAsks, ServerExits, Prints, clientVars, readerVars
    <3>2. server'.up \in {FALSE, server.up}
      <4>1. CASE ServerReads
        <5>1. \E asked : server' = [server EXCEPT !.asked = asked]
          BY <4>1 DEF ServerReads, LinesAreOwn
        <5> QED
          BY <5>1 DEF LinesAreOwn
      <4>2. CASE ServerAnswers \/ ServerPrints \/ ServerAsks
        BY <4>2 DEF ServerAnswers, ServerPrints, ServerAsks
      <4>3. CASE ServerExits
        BY <4>3 DEF ServerExits
      <4> QED
        BY <2>9, <4>1, <4>2, <4>3 DEF Server
    <3> QED
      BY <3>1, <3>2, <2>1
  <2>10. CASE UNCHANGED vars
    BY <2>10, <2>1 DEF vars, clientVars, readerVars, serverVars
  <2> QED
    BY <2>2, <2>3, <2>4, <2>5, <2>6, <2>7, <2>8, <2>9, <2>10 DEF Next, ReadLoop
<1> QED
  BY <1>1, <1>2, LinesAreOwnInvariant, PTL DEF Spec

(* When Close has returned the process has ended, unless the reader had     *)
(* given up before.                                                        *)
THEOREM CloseEnds == Spec => []CloseEndsTheServer
BY ClosedByWhomInvariant, PTL

-----------------------------------------------------------------------------
(* Type correctness of the client, its callers, the pipes and the server.   *)
THEOREM TypeCorrect == Spec => []TypeOK
<1>1. /\ CallTypes /\ OneLoad /\ IdsAreCounted /\ IdsAreOwn /\ LinesAreOwn /\ PendingIsOwn
      /\ RoomForAll /\ AnswersToCome /\ ClosedByWhom
      => TypeOK
  <2> SUFFICES ASSUME CallTypes, OneLoad, IdsAreCounted, IdsAreOwn, LinesAreOwn, PendingIsOwn,
                      RoomForAll, AnswersToCome, ClosedByWhom
               PROVE  TypeOK
    OBVIOUS
  <2>1. MaxCalls \in Nat /\ nextID \in 1 .. MaxCalls + 2
    BY ChannelIsNew, StdioClientAssumption
  <2>2. \A ch \in 1 .. nextID - 1 : ch \in Channels
    BY <2>1 DEF Channels
  <2>3. DOMAIN pending \subseteq Nat \ {0} /\ \A id \in DOMAIN pending : pending[id] \in Channels
    BY <2>1, <2>2 DEF PendingIsOwn
  <2>4. ASSUME NEW c \in Callers
        PROVE  call[c].ch \in {0} \cup Channels
    BY <2>2 DEF IdsAreOwn
  <2>5. call \in [Callers -> [pc : Pcs, op : Ops, id : Nat, ch : {0} \cup Channels]]
    BY <2>4 DEF CallTypes, CallRecords
  <2>6. Ops = {"", "call", "initialize", "initialized", "list"}
    BY DEF Ops, Asking, LoadOps
  <2>7. call \in [Callers -> [pc : {"idle", "register", "write", "writing", "waiting", "forget"},
                              op : {"", "call", "initialize", "initialized", "list"},
                              id : Nat, ch : {0} \cup Channels]]
    BY <2>5, <2>6 DEF Pcs
  <2>8. taken.ch = 0 \/ taken.ch \in Channels
    BY <2>1, <2>2 DEF PendingIsOwn
  <2>9. taken \in [ch : {0} \cup Channels, line : Responses] /\ reader \in {"reading", "sending", "ended"}
    BY <2>8 DEF PendingIsOwn
  <2>10. loads \in Nat /\ started \in 0 .. MaxCalls
         /\ loading \in Callers \cup {NoOne} /\ tools \in {"unknown", "loaded", "degraded"}
    BY DEF OneLoad
  <2>11. server.up \in BOOLEAN /\ Len(stdin) <= Capacity /\ Len(stdout) <= Capacity
    BY DEF LinesAreOwn
  <2>12. closed \in BOOLEAN /\ mu \in Callers \cup {NoOne} /\ gaveUp \in BOOLEAN
         /\ closer \in {"open", "waiting", "done"}
    BY DEF AnswersToCome, ClosedByWhom
  <2>13. channels \in [Channels -> Responses]
    BY DEF RoomForAll
  <2> QED
    BY <2>1, <2>3, <2>7, <2>9, <2>10, <2>11, <2>12, <2>13, Zenon DEF TypeOK
<1> QED
  BY <1>1, CallTypesInvariant, OneLoadInvariant, IdsAreCountedInvariant, IdsAreOwnInvariant, LinesAreOwnInvariant,
     PendingIsOwnInvariant, RoomForAllInvariant, AnswersToComeInvariant, ClosedByWhomInvariant, PTL
=============================================================================
