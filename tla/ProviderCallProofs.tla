------------------------ MODULE ProviderCallProofs ------------------------
(***************************************************************************)
(* What goes to a provider, for logs of any length, any ids and any of the  *)
(* strategies that cut them (Compaction), and what becomes of its answer,   *)
(* streamed or not, for any number of calls, chunks and attempts            *)
(* (ProviderStream).                                                       *)
(***************************************************************************)
EXTENDS ProviderStream, Compaction, FiniteSetTheorems, SequenceTheorems, TLAPS

-----------------------------------------------------------------------------
(* A selection: every member of a finite set of naturals once, least first. *)
Below(S, i) == Cardinality({j \in S : j < i})

LEMMA BelowIs ==
  ASSUME NEW S \in SUBSET Nat, IsFiniteSet(S), NEW i \in S
  PROVE  /\ IsFiniteSet({j \in S : j < i})
         /\ Below(S, i) \in Nat /\ Below(S, i) < Cardinality(S)
         /\ \A k \in S : i < k => Below(S, i) < Below(S, k)
<1>1. \A k \in S : IsFiniteSet({j \in S : j < k})
  BY FS_Subset
<1>2. \A k \in S : Below(S, k) \in Nat
  BY <1>1, FS_CardinalityType DEF Below
<1>3. ASSUME NEW T \in SUBSET S, {j \in S : j < i} \cup {i} \subseteq T
      PROVE  Below(S, i) < Cardinality(T)
  <2>1. IsFiniteSet(T)
    BY FS_Subset
  <2> DEFINE B == {j \in S : j < i}
  <2>2. IsFiniteSet(B) /\ i \notin B /\ B \cup {i} \subseteq T /\ Cardinality(B) = Below(S, i)
    BY <1>1, <1>3 DEF Below
  <2> HIDE DEF B
  <2>3. Cardinality(B \cup {i}) = Cardinality(B) + 1
    BY <2>2, FS_AddElement
  <2>4. Cardinality(B \cup {i}) <= Cardinality(T) /\ Cardinality(T) \in Nat
    BY <2>1, <2>2, FS_Subset, FS_CardinalityType
  <2>5. Below(S, i) \in Nat
    BY <1>2
  <2>6. Below(S, i) + 1 <= Cardinality(T)
    BY <2>2, <2>3, <2>4
  <2> QED
    BY <2>4, <2>5, <2>6
<1>4. {j \in S : j < i} \cup {i} \subseteq S
  OBVIOUS
<1>5. Below(S, i) < Cardinality(S)
  BY <1>3, <1>4
<1>6. ASSUME NEW k \in S, i < k
      PROVE  Below(S, i) < Below(S, k)
  <2> DEFINE T == {j \in S : j < k}
  <2>1. \A j \in S : j \in Nat /\ (j < i => j < k)
    BY <1>6
  <2>2. {j \in S : j < i} \cup {i} \subseteq T /\ T \in SUBSET S
    BY <1>6, <2>1
  <2>3. Below(S, k) = Cardinality(T)
    BY DEF Below
  <2> HIDE DEF T
  <2> QED
    BY <1>3, <2>2, <2>3
<1> QED
  BY <1>1, <1>2, <1>5, <1>6

LEMMA SomeNth ==
  ASSUME NEW S \in SUBSET Nat, IsFiniteSet(S), NEW n \in 1 .. Cardinality(S)
  PROVE  \E i \in S : Below(S, i) = n - 1
<1> DEFINE T == 0 .. Cardinality(S) - 1
           f == [i \in S |-> Below(S, i)]
<1>1. Cardinality(S) \in Nat
  BY FS_CardinalityType
<1>2. 0 \in Int /\ Cardinality(S) - 1 \in Int
  BY <1>1
<1>3. IsFiniteSet(T) /\ Cardinality(T) = Cardinality(S)
  BY <1>1, <1>2, FS_Interval
<1>4. \A i \in S : f[i] \in T
  <2> SUFFICES ASSUME NEW i \in S
               PROVE  Below(S, i) \in T
    OBVIOUS
  <2>1. Below(S, i) \in Nat /\ Below(S, i) < Cardinality(S)
    BY BelowIs
  <2> QED
    BY <1>1, <2>1
<1>5. \A i, k \in S : f[i] = f[k] => i = k
  <2> SUFFICES ASSUME NEW i \in S, NEW k \in S, Below(S, i) = Below(S, k), i # k
               PROVE  FALSE
    OBVIOUS
  <2>1. i < k \/ k < i
    OBVIOUS
  <2>2. Below(S, i) \in Nat /\ Below(S, k) \in Nat
    BY BelowIs
  <2>3. i < k => Below(S, i) < Below(S, k)
    BY BelowIs
  <2>4. k < i => Below(S, k) < Below(S, i)
    BY BelowIs
  <2> QED
    BY <2>1, <2>2, <2>3, <2>4
<1>6. f \in Injection(S, T)
  <2>1. f \in [S -> T]
    BY <1>4
  <2> HIDE DEF f, T
  <2> QED
    BY <1>5, <2>1 DEF Injection, IsInjective
<1> HIDE DEF f, T
<1>7. f \in Surjection(S, T)
  BY <1>3, <1>6, FS_Injection
<1>8. n - 1 \in T
  BY <1>1 DEF T
<1>9. PICK i \in S : f[i] = n - 1
  BY <1>7, <1>8 DEF Surjection
<1> QED
  BY <1>9 DEF f

LEMMA InOrderIs ==
  ASSUME NEW S \in SUBSET Nat, IsFiniteSet(S)
  PROVE  /\ Cardinality(S) \in Nat
         /\ InOrder(S) \in Seq(S) /\ Len(InOrder(S)) = Cardinality(S)
         /\ DOMAIN InOrder(S) = 1 .. Cardinality(S)
         /\ \A n \in 1 .. Cardinality(S) : InOrder(S)[n] \in S
         /\ \A m, n \in 1 .. Cardinality(S) : m < n => InOrder(S)[m] < InOrder(S)[n]
         /\ \A i \in S : \E n \in 1 .. Cardinality(S) : InOrder(S)[n] = i
<1> DEFINE at == InOrder(S)
           C == Cardinality(S)
<1>1. C \in Nat
  BY FS_CardinalityType
<1>2. DOMAIN at = 1 .. C /\ at = [n \in 1 .. C |-> CHOOSE i \in S : Below(S, i) = n - 1]
  BY DEF InOrder, Below
<1>3. \A n \in 1 .. C : at[n] \in S /\ Below(S, at[n]) = n - 1
  <2> SUFFICES ASSUME NEW n \in 1 .. C
               PROVE  at[n] \in S /\ Below(S, at[n]) = n - 1
    OBVIOUS
  <2>1. \E i \in S : Below(S, i) = n - 1
    BY SomeNth
  <2>2. at[n] = CHOOSE i \in S : Below(S, i) = n - 1
    BY <1>2
  <2> HIDE DEF at
  <2> QED
    BY <2>1, <2>2
<1>4. \A m, n \in 1 .. C : m < n => at[m] < at[n]
  <2> HIDE DEF at, C
  <2> SUFFICES ASSUME NEW m \in 1 .. C, NEW n \in 1 .. C, m < n, ~(at[m] < at[n])
               PROVE  FALSE
    OBVIOUS
  <2>1. at[m] \in Nat /\ at[n] \in Nat /\ at[m] \in S /\ at[n] \in S
    BY <1>3
  <2>2. at[n] < at[m] \/ at[n] = at[m]
    BY <2>1
  <2>3. at[n] < at[m] => Below(S, at[n]) < Below(S, at[m])
    BY <2>1, BelowIs
  <2>4. Below(S, at[m]) = m - 1 /\ Below(S, at[n]) = n - 1
    BY <1>3
  <2> QED
    BY <1>1, <2>2, <2>3, <2>4
<1>5. \A i \in S : \E n \in 1 .. C : at[n] = i
  <2> HIDE DEF at, C
  <2> SUFFICES ASSUME NEW i \in S
               PROVE  \E n \in 1 .. C : at[n] = i
    OBVIOUS
  <2> DEFINE n == Below(S, i) + 1
  <2>1. Below(S, i) \in Nat /\ Below(S, i) < C
    BY BelowIs DEF C
  <2>2. n \in 1 .. C /\ n - 1 = Below(S, i)
    BY <1>1, <2>1
  <2> HIDE DEF n
  <2>3. at[n] \in S /\ Below(S, at[n]) = Below(S, i)
    BY <1>3, <2>2
  <2>4. at[n] = i \/ at[n] < i \/ i < at[n]
    <3>1. at[n] \in Nat /\ i \in Nat
      BY <2>3
    <3> QED
      BY <3>1
  <2>5. at[n] < i => Below(S, at[n]) < Below(S, i)
    BY <2>3, BelowIs
  <2>6. i < at[n] => Below(S, i) < Below(S, at[n])
    BY <2>3, BelowIs
  <2> QED
    BY <2>1, <2>2, <2>3, <2>4, <2>5, <2>6
<1>6. at \in Seq(S) /\ Len(at) = C
  <2> HIDE DEF at, C
  <2>1. at \in [1 .. C -> S]
    BY <1>2, <1>3
  <2> QED
    BY <1>1, <1>2, <2>1, LenProperties
<1> QED
  BY <1>1, <1>2, <1>3, <1>4, <1>5, <1>6

LEMMA ItemsAtIs ==
  ASSUME NEW S \in SUBSET Nat, IsFiniteSet(S), NEW f
  PROVE  /\ Cardinality(S) \in Nat
         /\ ItemsAt(f, S) = [n \in 1 .. Cardinality(S) |-> f[InOrder(S)[n]]]
         /\ DOMAIN ItemsAt(f, S) = 1 .. Cardinality(S)
         /\ Len(ItemsAt(f, S)) = Cardinality(S)
         /\ ItemsAt(f, S) \in Seq({f[i] : i \in S})
         /\ \A n \in 1 .. Cardinality(S) : ItemsAt(f, S)[n] = f[InOrder(S)[n]]
<1>1. DOMAIN InOrder(S) = 1 .. Cardinality(S) /\ Cardinality(S) \in Nat
  BY InOrderIs
<1>2. ItemsAt(f, S) = [n \in 1 .. Cardinality(S) |-> f[InOrder(S)[n]]]
  BY <1>1 DEF ItemsAt
<1>3. \A n \in 1 .. Cardinality(S) : InOrder(S)[n] \in S
  BY InOrderIs
<1>4. ItemsAt(f, S) \in [1 .. Cardinality(S) -> {f[i] : i \in S}]
  BY <1>2, <1>3
<1> QED
  BY <1>1, <1>2, <1>4, LenProperties

-----------------------------------------------------------------------------
(* Compaction: CompactionTypeOK and CompactionInv are an inductive invariant. *)
(* The uses and results of a sound log: each id used once, and answered at  *)
(* most once, after its use.                                               *)
Call == {"tool_use", "tool_result"}
Same(events, i, j) == events[i].id = events[j].id

IsUse(events, i) == i \in DOMAIN events /\ events[i].type = "tool_use"
IsResult(events, i) == i \in DOMAIN events /\ events[i].type = "tool_result"
IsCompact(events, i) == i \in DOMAIN events /\ events[i].type = "compact"

HaveIds(events) == \A i \in DOMAIN events : events[i].type \in Call => events[i].id \in CallIds
UsedOnce(events) ==
  \A i, j \in DOMAIN events : IsUse(events, i) /\ IsUse(events, j) /\ Same(events, i, j) => i = j
AnsweredOnce(events) ==
  \A i, j \in DOMAIN events : IsResult(events, i) /\ IsResult(events, j) /\ Same(events, i, j) => i = j
AnsweredAfterUse(events) ==
  \A j \in DOMAIN events : IsResult(events, j) =>
    \E i \in DOMAIN events : i < j /\ IsUse(events, i) /\ Same(events, i, j)

CallsSound(events) ==
  HaveIds(events) /\ UsedOnce(events) /\ AnsweredOnce(events) /\ AnsweredAfterUse(events)

(* What a compact replaces are messages before it. *)
SpansBefore(events) ==
  \A k \in DOMAIN events : IsCompact(events, k) =>
    /\ events[k].span \subseteq DOMAIN events
    /\ \A i \in events[k].span : i < k /\ events[i].type \in MessageTypes

(* No two compacts replace the same, but for a call that one replaces       *)
(* without its huge result and a later one with it.                        *)
Cut(events, k, m, i) ==
  /\ IsUse(events, i)
  /\ \E j \in DOMAIN events :
       /\ IsResult(events, j) /\ Same(events, i, j) /\ events[j].info = "huge"
       /\ j \notin events[k].span /\ events[m].span = {i, j}
SpansApart(events) ==
  \A k, m \in DOMAIN events : IsCompact(events, k) /\ IsCompact(events, m) /\ k < m =>
    \A i \in events[k].span : i \in events[m].span => Cut(events, k, m, i)
SpansDisjoint(events) ==
  \A k, m \in DOMAIN events : IsCompact(events, k) /\ IsCompact(events, m) =>
    \A i \in events[k].span : i \in events[m].span => k = m

(* No call without a result is replaced. *)
ReplacedAnswered(events) ==
  \A u \in DOMAIN events : IsUse(events, u) /\ u \in Replaced(events) =>
    events[u].id \in Ids(events, "tool_result")

SpansSound(events) == SpansBefore(events) /\ SpansApart(events) /\ ReplacedAnswered(events)

(* A huge result that is not replaced has its call with it. *)
HugeWhole(events) ==
  \A u, j \in DOMAIN events :
    IsUse(events, u) /\ IsResult(events, j) /\ Same(events, u, j) /\ events[j].info = "huge" =>
      (u \in Replaced(events) => j \in Replaced(events))

(* A compact replaces a call and its result, or neither. *)
PairsWhole(events) ==
  \A u, j \in DOMAIN events :
    IsUse(events, u) /\ IsResult(events, j) /\ Same(events, u, j) =>
      \A k \in DOMAIN events : IsCompact(events, k) =>
        (u \in events[k].span <=> j \in events[k].span)

(* The ids used are the first of IdOrder. *)
IdsInOrder(events) ==
  \E n \in 0 .. Cardinality(CallIds) : Ids(events, "tool_use") = {IdOrder[k] : k \in 1 .. n}

(* A step's calls follow its message, and each has its result before the     *)
(* next message of the assistant.                                          *)
Opens(events, a, u) ==
  /\ a < u /\ events[a].type = "assistant_message"
  /\ \A k \in DOMAIN events : a < k /\ k <= u => events[k].type = "tool_use"
CallsFollow(events) ==
  \A u \in DOMAIN events : IsUse(events, u) => \E a \in DOMAIN events : Opens(events, a, u)
AnsweredInTime(events) ==
  \A u, m \in DOMAIN events : IsUse(events, u) /\ events[m].type = "assistant_message" /\ u < m =>
    \E j \in DOMAIN events : j < m /\ IsResult(events, j) /\ Same(events, u, j)

CallsTogether(events) == CallsFollow(events) /\ AnsweredInTime(events)

AllHugeReplaced(events) ==
  \A j \in DOMAIN events : IsResult(events, j) /\ events[j].info = "huge" => j \in Replaced(events)

Steps == {"idle", "turn", "called", "refused", "tools"}

CompactionTypeOK ==
  /\ log \in Seq(Event) /\ strategies \in StrategyLists /\ step \in Steps
  /\ hook \in DOMAIN strategies

Named(n, name) == strategies[n].name = name
MarkerTailInstalled == \E n \in DOMAIN strategies : Named(n, "MarkerTail")

(* A ToolOutputCap goes before each MarkerTail. *)
CapsBeforeCuts ==
  \A n \in DOMAIN strategies : Named(n, "MarkerTail") =>
    \E m \in DOMAIN strategies : m < n /\ Named(m, "ToolOutputCap")
CappedBefore(h) == \E m \in DOMAIN strategies : m < h /\ Named(m, "ToolOutputCap")

LogSound(events) ==
  /\ CallsSound(events) /\ SpansSound(events) /\ IdsInOrder(events)
  /\ CapsBeforeCuts => HugeWhole(events)
  /\ ~CutsBeforeCap => SpansDisjoint(events)
  /\ ~MarkerTailInstalled => PairsWhole(events)

CompactionInv ==
  /\ LogSound(log) /\ CallsTogether(log)
  /\ step # "turn" => hook = 1
  /\ CappedBefore(hook) => AllHugeReplaced(log)
  /\ step \in {"turn", "called", "refused"} => Pending(log) = {}
  /\ step = "refused" => ~ProviderReady(log)
  /\ step = "called" => ProviderReady(log)

-----------------------------------------------------------------------------
(* Events, and the ids in their order. *)
LEMMA EventTypesOfMakers ==
  /\ UserMessage \in Event
  /\ \A stop \in StopReasons : AssistantMessage(stop) \in Event
  /\ \A c \in CallIds : ToolUse(c) \in Event
  /\ \A c \in CallIds, kind \in ResultKinds : ToolResult(c, kind) \in Event
  /\ \A T \in SUBSET Nat : Compact(T) \in Event
  /\ \A n \in Nat : Revert(n) \in Event
BY DEF UserMessage, AssistantMessage, ToolUse, ToolResult, Compact, Revert, MakeEvent,
       Event, EventTypes, Infos, StopReasons, ResultKinds

LEMMA FieldsOfMakers ==
  /\ UserMessage.type = "user_message"
  /\ \A stop : AssistantMessage(stop).type = "assistant_message"
  /\ \A c : ToolUse(c).type = "tool_use" /\ ToolUse(c).id = c
  /\ \A c, kind : /\ ToolResult(c, kind).type = "tool_result" /\ ToolResult(c, kind).id = c
                  /\ ToolResult(c, kind).info = kind
  /\ \A T : Compact(T).type = "compact" /\ Compact(T).span = T
  /\ \A n : Revert(n).type = "revert" /\ Revert(n).span = {n}
BY DEF UserMessage, AssistantMessage, ToolUse, ToolResult, Compact, Revert, MakeEvent

LEMMA IdOrderIs ==
  /\ Cardinality(CallIds) \in Nat /\ Len(IdOrder) = Cardinality(CallIds)
  /\ IdOrder \in [1 .. Cardinality(CallIds) -> CallIds]
  /\ \A i, j \in 1 .. Cardinality(CallIds) : IdOrder[i] = IdOrder[j] => i = j
<1> DEFINE N == Cardinality(CallIds)
<1>1. N \in Nat /\ ExistsBijection(1 .. N, CallIds)
  BY CompactionAssumption, FS_CardinalityType
<1> DEFINE Ordered(o) == \A i, j \in DOMAIN o : o[i] = o[j] => i = j
<1>2. \E o \in [1 .. N -> CallIds] : Ordered(o)
  <2> HIDE DEF N
  <2>1. PICK o : o \in Bijection(1 .. N, CallIds)
    BY <1>1 DEF ExistsBijection
  <2>2. o \in [1 .. N -> CallIds] /\ \A i, j \in 1 .. N : o[i] = o[j] => i = j
    BY <2>1 DEF Bijection, Injection, IsInjective
  <2> QED
    BY <2>2
<1>3. IdOrder = CHOOSE o \in [1 .. N -> CallIds] : Ordered(o)
  BY DEF IdOrder
<1>4. IdOrder \in [1 .. N -> CallIds] /\ Ordered(IdOrder)
  <2> HIDE DEF N, Ordered
  <2> QED
    BY <1>2, <1>3
<1> HIDE DEF N
<1>5. Len(IdOrder) = N
  BY <1>1, <1>4, LenProperties
<1> QED
  BY <1>1, <1>4, <1>5 DEF N

LEMMA FirstIds ==
  ASSUME NEW n \in 0 .. Cardinality(CallIds)
  PROVE  Cardinality({IdOrder[k] : k \in 1 .. n}) = n
<1> DEFINE T == {IdOrder[k] : k \in 1 .. n}
           f == [k \in 1 .. n |-> IdOrder[k]]
<1>1. n \in Nat /\ 1 .. n \subseteq 1 .. Cardinality(CallIds)
  BY IdOrderIs
<1>2. f \in [1 .. n -> T]
  OBVIOUS
<1>3. \A i, j \in 1 .. n : f[i] = f[j] => i = j
  BY <1>1, IdOrderIs
<1>4. \A t \in T : \E k \in 1 .. n : f[k] = t
  OBVIOUS
<1> HIDE DEF T, f
<1>5. f \in Bijection(1 .. n, T)
  BY <1>2, <1>3, <1>4 DEF Bijection, Injection, Surjection, IsInjective
<1>6. ExistsBijection(1 .. n, T)
  BY <1>5 DEF ExistsBijection
<1> QED
  BY <1>1, <1>6, FS_CountingElements DEF T

-----------------------------------------------------------------------------
(* A log that begins with another one. *)
Extends(events, longer) ==
  /\ DOMAIN events \subseteq DOMAIN longer
  /\ \A i \in DOMAIN events : longer[i] = events[i]
  /\ \A i \in DOMAIN events, j \in DOMAIN longer : j \notin DOMAIN events => i < j

Added(events, longer) == DOMAIN longer \ DOMAIN events

LEMMA Concatenated ==
  ASSUME NEW events \in Seq(Event), NEW more \in Seq(Event)
  PROVE  /\ events \o more \in Seq(Event)
         /\ Extends(events, events \o more)
         /\ \A j \in Added(events, events \o more) :
              j - Len(events) \in DOMAIN more /\ (events \o more)[j] = more[j - Len(events)]
         /\ \A n \in DOMAIN more :
              /\ Len(events) + n \in Added(events, events \o more)
              /\ (events \o more)[Len(events) + n] = more[n]
<1>1. /\ events \o more \in Seq(Event)
      /\ Len(events) \in Nat /\ Len(more) \in Nat /\ Len(events \o more) = Len(events) + Len(more)
      /\ DOMAIN events = 1 .. Len(events) /\ DOMAIN more = 1 .. Len(more)
      /\ DOMAIN (events \o more) = 1 .. Len(events) + Len(more)
  OBVIOUS
<1>2. \A i \in 1 .. Len(events) + Len(more) :
        (events \o more)[i] = IF i <= Len(events) THEN events[i] ELSE more[i - Len(events)]
  OBVIOUS
<1> QED
  BY <1>1, <1>2 DEF Extends, Added

AddedAre(events, longer, n, more) ==
  /\ \A j \in Added(events, longer) : \E k \in 1 .. n :
       j = Len(events) + k /\ longer[j] = more[k]
  /\ \A k \in 1 .. n :
       Len(events) + k \in Added(events, longer) /\ longer[Len(events) + k] = more[k]

LEMMA Joined ==
  ASSUME NEW events \in Seq(Event), NEW more \in Seq(Event), NEW n \in Nat, DOMAIN more = 1 .. n,
         NEW longer, longer = events \o more
  PROVE  /\ longer \in Seq(Event) /\ Extends(events, longer)
         /\ AddedAre(events, longer, n, more)
<1>1. /\ longer \in Seq(Event) /\ Extends(events, longer)
      /\ \A j \in Added(events, longer) :
           j - Len(events) \in DOMAIN more /\ longer[j] = more[j - Len(events)]
      /\ \A k \in DOMAIN more :
           Len(events) + k \in Added(events, longer) /\ longer[Len(events) + k] = more[k]
  BY Concatenated
<1>2. ASSUME NEW j \in Added(events, longer)
      PROVE  \E k \in 1 .. n : j = Len(events) + k /\ longer[j] = more[k]
  <2>1. j - Len(events) \in 1 .. n /\ longer[j] = more[j - Len(events)]
    BY <1>1
  <2>2. j \in Nat /\ Len(events) \in Nat
    BY <1>1 DEF Added
  <2>3. j = Len(events) + (j - Len(events))
    BY <2>2
  <2> QED
    BY <2>1, <2>3
<1> QED
  BY <1>1, <1>2 DEF AddedAre

LEMMA FollowedBy ==
  ASSUME NEW events \in Seq(Event), NEW e \in Event, NEW longer, longer = events \o <<e>>
  PROVE  /\ longer \in Seq(Event) /\ DOMAIN longer = 1 .. Len(events) + 1
         /\ \A k \in 1 .. Len(events) : longer[k] = events[k]
         /\ longer[Len(events) + 1] = e
<1>1. <<e>> \in Seq(Event) /\ Len(<<e>>) = 1 /\ <<e>>[1] = e /\ Len(events) \in Nat
  OBVIOUS
<1>2. longer \in Seq(Event) /\ Len(longer) = Len(events) + 1
  BY <1>1, ConcatProperties
<1>3. \A k \in 1 .. Len(events) : longer[k] = events[k]
  BY <1>1, ConcatProperties
<1>4. longer[Len(events) + 1] = e
  BY <1>1, ConcatProperties
<1> QED
  BY <1>2, <1>3, <1>4

LEMMA Appended ==
  ASSUME NEW events \in Seq(Event), NEW e \in Event
  PROVE  /\ Append(events, e) \in Seq(Event)
         /\ Extends(events, Append(events, e))
         /\ Added(events, Append(events, e)) = {Len(events) + 1}
         /\ Append(events, e)[Len(events) + 1] = e
BY DEF Extends, Added

-----------------------------------------------------------------------------
(* Sound calls have no violations where a result is seen with its call, and *)
(* nothing is unresolved where a call is seen with its result.             *)
ResultsWithCall(events, V) ==
  \A j \in V : IsResult(events, j) => \E i \in V : IsUse(events, i) /\ Same(events, i, j)
CallsWithResult(events, V) ==
  \A i \in V : IsUse(events, i) => \E j \in V : IsResult(events, j) /\ Same(events, i, j)

LEMMA FirstUseIs ==
  ASSUME NEW events, NEW V \in SUBSET DOMAIN events, DOMAIN events \subseteq Nat,
         UsedOnce(events), NEW u \in V, IsUse(events, u)
  PROVE  FirstUse(events, V, events[u].id) = u
<1> DEFINE P(i) == /\ events[i].id = events[u].id
                   /\ \A j \in At(events, V, "tool_use") : events[j].id = events[u].id => i <= j
           A == At(events, V, "tool_use")
<1>1. \A j \in A : events[j].id = events[u].id => j = u
  BY DEF At, IsUse, UsedOnce, Same
<1>2. u \in A /\ u \in Nat
  BY DEF At, IsUse
<1>3. P(u)
  BY <1>1, <1>2
<1>4. FirstUse(events, V, events[u].id) = CHOOSE i \in A : P(i)
  BY DEF FirstUse
<1>5. \A i \in A : P(i) => i = u
  BY <1>1
<1> HIDE DEF P, A
<1> QED
  BY <1>2, <1>3, <1>4, <1>5

LEMMA NoViolations ==
  ASSUME NEW events \in Seq(Event), NEW V \in SUBSET DOMAIN events,
         CallsSound(events), ResultsWithCall(events, V)
  PROVE  Violations(events, V) = {}
<1>0. DOMAIN events \subseteq Nat
  BY DOMAIN events = 1 .. Len(events)
<1> DEFINE uses == At(events, V, "tool_use")
           results == At(events, V, "tool_result")
           named(S) == {i \in S : events[i].id # NoCall}
           known == {i \in named(results) : events[i].id \in IdsAt(events, V, "tool_use")}
<1>1. \A i \in uses \cup results : events[i].id # NoCall
  BY CompactionAssumption DEF At, CallsSound, HaveIds, Call
<1>2. Repeated(events, named(uses)) = {}
  BY <1>0 DEF Repeated, At, CallsSound, UsedOnce, IsUse, Same
<1>3. Repeated(events, named(results)) = {}
  BY <1>0 DEF Repeated, At, CallsSound, AnsweredOnce, IsResult, Same
<1>4. ASSUME NEW j \in results
      PROVE  \E u \in V : IsUse(events, u) /\ Same(events, u, j) /\ u < j
  <2>1. IsResult(events, j) /\ j \in V /\ j \in DOMAIN events
    BY DEF At, IsResult
  <2>2. PICK u \in V : IsUse(events, u) /\ Same(events, u, j)
    BY <2>1 DEF ResultsWithCall
  <2>3. PICK i \in DOMAIN events : i < j /\ IsUse(events, i) /\ Same(events, i, j)
    BY <2>1 DEF CallsSound, AnsweredAfterUse
  <2>4. u = i
    BY <2>2, <2>3 DEF CallsSound, UsedOnce, Same
  <2> QED
    BY <2>2, <2>3, <2>4
<1>5. \A j \in results : events[j].id \in IdsAt(events, V, "tool_use")
  BY <1>4 DEF IdsAt, At, IsUse, Same
<1>6. ASSUME NEW j \in results
      PROVE  ~(j <= FirstUse(events, V, events[j].id))
  <2>1. PICK u \in V : IsUse(events, u) /\ Same(events, u, j) /\ u < j
    BY <1>4
  <2>2. FirstUse(events, V, events[u].id) = u
    BY <1>0, <2>1, FirstUseIs DEF CallsSound
  <2>3. events[u].id = events[j].id /\ j \in Nat /\ u \in Nat
    BY <1>0, <2>1 DEF Same, At
  <2> QED
    BY <2>1, <2>2, <2>3
<1> DEFINE missing == {<<"missing_id", i>> : i \in (uses \cup results) \ named(uses \cup results)}
           orphans == {<<"orphan_tool_result", i>> : i \in named(results) \ known}
           early == {<<"tool_result_before_tool_use", i>> :
                       i \in {j \in known : j <= FirstUse(events, V, events[j].id)}}
           twice == {<<"duplicate_tool_use_id", i>> : i \in Repeated(events, named(uses))}
           again == {<<"duplicate_tool_result", i>> : i \in Repeated(events, named(results))}
<1>7. missing = {} /\ orphans = {} /\ early = {}
  BY <1>1, <1>5, <1>6
<1>8. twice = {} /\ again = {}
  BY <1>2, <1>3
<1>9. Violations(events, V) = missing \cup twice \cup orphans \cup early \cup again
  BY DEF Violations
<1> HIDE DEF missing, twice, orphans, early, again
<1> QED
  BY <1>7, <1>8, <1>9

LEMMA NoneUnresolved ==
  ASSUME NEW events, NEW V \in SUBSET DOMAIN events, CallsWithResult(events, V)
  PROVE  Unresolved(events, V) = {}
<1>1. \A i \in At(events, V, "tool_use") : events[i].id \in IdsAt(events, V, "tool_result")
  BY DEF CallsWithResult, At, IdsAt, IsUse, IsResult, Same
<1> QED
  BY <1>1 DEF Unresolved

LEMMA AllAnswered ==
  ASSUME NEW events, Pending(events) = {}
  PROVE  CallsWithResult(events, DOMAIN events)
<1> SUFFICES ASSUME NEW i \in DOMAIN events, IsUse(events, i)
             PROVE  \E j \in DOMAIN events : IsResult(events, j) /\ Same(events, i, j)
  BY DEF CallsWithResult
<1>1. events[i].id \in Ids(events, "tool_use")
  BY DEF Ids, IdsAt, At, IsUse
<1>2. events[i].id \in Ids(events, "tool_result")
  BY <1>1 DEF Pending
<1> QED
  BY <1>2 DEF Ids, IdsAt, At, IsResult, Same

(* PrepareProviderCall refuses a sound log only if a compact splits a call  *)
(* from its result.                                                        *)
LEMMA ReadyUnlessSplit ==
  ASSUME NEW events \in Seq(Event), CallsSound(events), Pending(events) = {},
         ~SplitPair(events)
  PROVE  ProviderReady(events)
<1>1. Visible(events) \subseteq DOMAIN events
  BY DEF Visible
<1>2. ResultsWithCall(events, DOMAIN events)
  BY DEF CallsSound, AnsweredAfterUse, ResultsWithCall
<1>3. \A u, j \in DOMAIN events :
        IsUse(events, u) /\ IsResult(events, j) /\ Same(events, u, j) =>
          (u \in Visible(events) <=> j \in Visible(events))
  BY DEF SplitPair, At, IsUse, IsResult, Same
<1>4. ResultsWithCall(events, Visible(events))
  BY <1>1, <1>2, <1>3 DEF ResultsWithCall
<1>5. CallsWithResult(events, Visible(events))
  BY <1>1, <1>3, AllAnswered DEF CallsWithResult
<1> QED
  BY <1>1, <1>2, <1>4, <1>5, NoViolations, NoneUnresolved DEF ProviderReady, DurableIntact

LEMMA FinitePositions ==
  ASSUME NEW events \in Seq(Event), NEW T \in SUBSET DOMAIN events
  PROVE  /\ DOMAIN events = 1 .. Len(events) /\ Len(events) \in Nat
         /\ DOMAIN events \subseteq Nat /\ T \subseteq Nat /\ IsFiniteSet(T)
<1>1. Len(events) \in Nat /\ DOMAIN events = 1 .. Len(events)
  OBVIOUS
<1>2. 1 \in Int /\ Len(events) \in Int
  BY <1>1
<1>3. IsFiniteSet(1 .. Len(events))
  BY <1>2, FS_Interval
<1> QED
  BY <1>1, <1>3, FS_Subset

-----------------------------------------------------------------------------
(* Calls stay together whatever follows but a message of the assistant, and  *)
(* that one too when all are answered.                                     *)
LEMMA StillFollow ==
  ASSUME NEW events \in Seq(Event), NEW longer \in Seq(Event), Extends(events, longer),
         CallsFollow(events), NEW u \in DOMAIN events, IsUse(longer, u)
  PROVE  \E a \in DOMAIN longer : Opens(longer, a, u)
<1>1. IsUse(events, u)
  BY DEF IsUse, Extends
<1>2. PICK a \in DOMAIN events : Opens(events, a, u)
  BY <1>1 DEF CallsFollow
<1>3. \A k \in DOMAIN longer : k <= u => k \in DOMAIN events
  <2> SUFFICES ASSUME NEW k \in DOMAIN longer, k <= u, k \notin DOMAIN events
               PROVE  FALSE
    OBVIOUS
  <2>1. u < k
    BY DEF Extends
  <2>2. u \in Nat /\ k \in Nat
    BY FinitePositions
  <2> QED
    BY <2>1, <2>2
<1>4. Opens(longer, a, u)
  BY <1>2, <1>3 DEF Opens, Extends
<1> QED
  BY <1>2, <1>4 DEF Extends

LEMMA StillInTime ==
  ASSUME NEW events \in Seq(Event), NEW longer \in Seq(Event), Extends(events, longer),
         AnsweredInTime(events), NEW u \in DOMAIN longer, NEW m \in DOMAIN events,
         IsUse(longer, u), longer[m].type = "assistant_message", u < m
  PROVE  \E j \in DOMAIN longer : j < m /\ IsResult(longer, j) /\ Same(longer, u, j)
<1>1. u \in DOMAIN events
  <2> SUFFICES ASSUME u \notin DOMAIN events
               PROVE  FALSE
    OBVIOUS
  <2>1. m < u
    BY DEF Extends
  <2>2. u \in Nat /\ m \in Nat
    BY FinitePositions
  <2> QED
    BY <2>1, <2>2
<1>2. IsUse(events, u) /\ events[m].type = "assistant_message"
  BY <1>1 DEF IsUse, Extends
<1>3. PICK j \in DOMAIN events : j < m /\ IsResult(events, j) /\ Same(events, u, j)
  BY <1>1, <1>2 DEF AnsweredInTime
<1> QED
  BY <1>1, <1>3 DEF IsResult, Same, Extends

LEMMA TogetherKept ==
  ASSUME NEW events \in Seq(Event), NEW longer \in Seq(Event), Extends(events, longer),
         CallsTogether(events),
         \A k \in Added(events, longer) : longer[k].type \notin {"assistant_message", "tool_use"}
  PROVE  CallsTogether(longer)
<1>1. \A k \in DOMAIN longer : longer[k].type \in {"assistant_message", "tool_use"} => k \in DOMAIN events
  BY DEF Added
<1>2. CallsFollow(longer)
  BY <1>1, StillFollow DEF CallsTogether, CallsFollow, IsUse
<1>3. AnsweredInTime(longer)
  BY <1>1, StillInTime DEF CallsTogether, AnsweredInTime
<1> QED
  BY <1>2, <1>3 DEF CallsTogether

LEMMA TogetherStepped ==
  ASSUME NEW events \in Seq(Event), CallsTogether(events), Pending(events) = {},
         NEW mid \in Seq(Event), Extends(events, mid), NEW a, Added(events, mid) = {a},
         mid[a].type = "assistant_message",
         NEW longer \in Seq(Event), Extends(mid, longer),
         \A k \in Added(mid, longer) : longer[k].type = "tool_use"
  PROVE  CallsTogether(longer)
<1>1. DOMAIN mid \subseteq Nat /\ DOMAIN longer \subseteq Nat
  BY FinitePositions
<1>2. a \in DOMAIN mid /\ a \notin DOMAIN events /\ \A k \in DOMAIN mid : k \in DOMAIN events \/ k = a
  BY DEF Added
<1>3. \A u \in DOMAIN mid : IsUse(mid, u) => u \in DOMAIN events
  BY <1>2 DEF IsUse
<1>4. CallsFollow(mid)
  BY <1>3, StillFollow DEF CallsTogether, CallsFollow
<1>5. AnsweredInTime(mid)
  <2> SUFFICES ASSUME NEW u \in DOMAIN mid, NEW m \in DOMAIN mid,
                      IsUse(mid, u), mid[m].type = "assistant_message", u < m
               PROVE  \E j \in DOMAIN mid : j < m /\ IsResult(mid, j) /\ Same(mid, u, j)
    BY DEF AnsweredInTime
  <2>1. CASE m \in DOMAIN events
    BY <2>1, StillInTime DEF CallsTogether
  <2>2. CASE m = a
    <3>1. u \in DOMAIN events /\ IsUse(events, u)
      BY <1>3 DEF IsUse, Extends
    <3>2. PICK j \in DOMAIN events : IsResult(events, j) /\ Same(events, u, j)
      BY <3>1, AllAnswered DEF CallsWithResult
    <3>3. j < m
      BY <1>2, <2>2 DEF Extends
    <3> QED
      BY <3>1, <3>2, <3>3 DEF IsResult, Same, Extends
  <2> QED
    BY <1>2, <2>1, <2>2
<1>6. CallsFollow(longer)
  <2> SUFFICES ASSUME NEW u \in DOMAIN longer, IsUse(longer, u)
               PROVE  \E k \in DOMAIN longer : Opens(longer, k, u)
    BY DEF CallsFollow
  <2>1. CASE u \in DOMAIN mid
    BY <1>4, <2>1, StillFollow
  <2>2. CASE u \notin DOMAIN mid
    <3>1. a \in DOMAIN longer /\ longer[a] = mid[a] /\ a < u
      BY <1>2, <2>2 DEF Extends
    <3>2. ASSUME NEW k \in DOMAIN longer, a < k
          PROVE  longer[k].type = "tool_use"
      <4>1. k \notin DOMAIN mid
        <5> SUFFICES ASSUME k \in DOMAIN mid
                     PROVE  FALSE
          OBVIOUS
        <5>1. k \in DOMAIN events
          BY <1>1, <1>2, <3>2
        <5>2. k < a
          BY <1>2, <5>1 DEF Extends
        <5> QED
          BY <1>1, <1>2, <3>2, <5>2
      <4> QED
        BY <4>1 DEF Added
    <3>3. Opens(longer, a, u)
      BY <3>1, <3>2 DEF Opens
    <3> QED
      BY <3>1, <3>3
  <2> QED
    BY <2>1, <2>2
<1>7. AnsweredInTime(longer)
  <2>1. \A m \in DOMAIN longer : longer[m].type = "assistant_message" => m \in DOMAIN mid
    BY DEF Added
  <2> QED
    BY <1>5, <2>1, StillInTime DEF AnsweredInTime
<1> QED
  BY <1>6, <1>7 DEF CallsTogether

-----------------------------------------------------------------------------
(* Events that are no compacts change nothing that is replaced. *)
LEMMA ReplacedIs ==
  ASSUME NEW events
  PROVE  \A i : i \in Replaced(events) <=>
                  \E k \in DOMAIN events : IsCompact(events, k) /\ i \in events[k].span
BY DEF Replaced, At, IsCompact

LEMMA ReplacedBefore ==
  ASSUME NEW events, SpansBefore(events)
  PROVE  Replaced(events) \subseteq DOMAIN events
BY ReplacedIs DEF SpansBefore

Plain(events, longer) ==
  Extends(events, longer) /\ \A i \in Added(events, longer) : longer[i].type # "compact"

LEMMA PlainCompacts ==
  ASSUME NEW events, NEW longer, Plain(events, longer)
  PROVE  /\ \A k : IsCompact(longer, k) <=> IsCompact(events, k)
         /\ \A k : IsCompact(events, k) => longer[k].span = events[k].span
         /\ Replaced(longer) = Replaced(events)
<1>1. \A k : IsCompact(longer, k) <=> IsCompact(events, k)
  BY DEF Plain, Extends, Added, IsCompact
<1>2. \A k : IsCompact(events, k) => longer[k].span = events[k].span
  BY DEF Plain, Extends, IsCompact
<1>3. \A i : i \in Replaced(longer) <=> i \in Replaced(events)
  BY <1>1, <1>2, ReplacedIs DEF IsCompact
<1> QED
  BY <1>1, <1>2, <1>3

LEMMA CutKept ==
  ASSUME NEW events, NEW longer, Extends(events, longer),
         NEW k \in DOMAIN events, NEW m \in DOMAIN events, NEW i, Cut(events, k, m, i),
         longer[k].span = events[k].span, longer[m].span = events[m].span
  PROVE  Cut(longer, k, m, i)
<1>1. \A j \in DOMAIN events : longer[j] = events[j] /\ j \in DOMAIN longer
  BY DEF Extends
<1>2. PICK j \in DOMAIN events :
        /\ IsResult(events, j) /\ Same(events, i, j) /\ events[j].info = "huge"
        /\ j \notin events[k].span /\ events[m].span = {i, j}
  BY DEF Cut
<1>3. IsUse(events, i) /\ i \in DOMAIN events
  BY DEF Cut, IsUse
<1>4. IsUse(longer, i) /\ IsResult(longer, j) /\ Same(longer, i, j) /\ longer[j].info = "huge"
  BY <1>1, <1>2, <1>3 DEF IsUse, IsResult, Same
<1> QED
  BY <1>1, <1>2, <1>4 DEF Cut

(* A call and its result in the longer log, of which one is replaced, are   *)
(* both in the shorter one.                                                *)
LEMMA ReplacedPairIsOld ==
  ASSUME NEW events, NEW longer, Plain(events, longer),
         DOMAIN longer \subseteq Nat,
         CallsSound(longer), SpansSound(events),
         NEW u, NEW j, IsUse(longer, u), IsResult(longer, j), Same(longer, u, j),
         u \in Replaced(events) \/ j \in Replaced(events)
  PROVE  IsUse(events, u) /\ IsResult(events, j) /\ Same(events, u, j)
<1>1. Replaced(events) \subseteq DOMAIN events
  BY ReplacedBefore DEF SpansSound
<1>2. \A i \in DOMAIN events : longer[i] = events[i] /\ i \in DOMAIN longer
  BY DEF Plain, Extends
<1>3. u \in Nat /\ j \in Nat /\ u < j
  <2>1. PICK i \in DOMAIN longer : i < j /\ IsUse(longer, i) /\ Same(longer, i, j)
    BY DEF CallsSound, AnsweredAfterUse, IsResult
  <2>2. i = u
    BY <2>1 DEF CallsSound, UsedOnce, Same, IsUse
  <2> QED
    BY <2>1, <2>2 DEF IsResult, IsUse
<1>4. j \in DOMAIN events => u \in DOMAIN events
  <2> SUFFICES ASSUME j \in DOMAIN events, u \notin DOMAIN events
               PROVE  FALSE
    OBVIOUS
  <2>1. j < u
    BY DEF Plain, Extends, IsUse
  <2> QED
    BY <1>3, <2>1
<1>5. u \in DOMAIN events
  BY <1>1, <1>4
<1>6. j \in DOMAIN events
  <2>1. CASE u \in Replaced(events)
    <3>1. IsUse(events, u)
      BY <1>2, <1>5 DEF IsUse
    <3>2. events[u].id \in Ids(events, "tool_result")
      BY <1>5, <2>1, <3>1 DEF SpansSound, ReplacedAnswered
    <3>3. PICK i \in DOMAIN events : events[i].type = "tool_result" /\ events[i].id = events[u].id
      BY <3>2 DEF Ids, IdsAt, At
    <3>4. IsResult(longer, i) /\ Same(longer, i, j)
      BY <1>2, <1>5, <3>3 DEF IsResult, Same
    <3>5. i = j
      BY <3>4 DEF CallsSound, AnsweredOnce, IsResult
    <3> QED
      BY <3>3, <3>5
  <2> QED
    BY <1>1, <2>1
<1> QED
  BY <1>2, <1>5, <1>6 DEF IsUse, IsResult, Same

LEMMA PlainSpans ==
  ASSUME NEW events, NEW longer, Plain(events, longer), DOMAIN longer \subseteq Nat,
         CallsSound(longer), SpansSound(events)
  PROVE  /\ SpansSound(longer)
         /\ SpansDisjoint(events) => SpansDisjoint(longer)
         /\ HugeWhole(events) => HugeWhole(longer)
         /\ PairsWhole(events) => PairsWhole(longer)
<1>1. \A i \in DOMAIN events : longer[i] = events[i] /\ i \in DOMAIN longer
  BY DEF Plain, Extends
<1>2. SpansBefore(longer)
  <2> SUFFICES ASSUME NEW k \in DOMAIN longer, IsCompact(longer, k)
               PROVE  /\ longer[k].span \subseteq DOMAIN longer
                      /\ \A i \in longer[k].span : i < k /\ longer[i].type \in MessageTypes
    BY DEF SpansBefore
  <2>1. IsCompact(events, k) /\ longer[k].span = events[k].span /\ k \in DOMAIN events
    BY PlainCompacts DEF IsCompact
  <2>2. /\ events[k].span \subseteq DOMAIN events
        /\ \A i \in events[k].span : i < k /\ events[i].type \in MessageTypes
    BY <2>1 DEF SpansSound, SpansBefore
  <2> QED
    BY <1>1, <2>1, <2>2
<1>3. SpansApart(longer)
  <2> SUFFICES ASSUME NEW k \in DOMAIN longer, NEW m \in DOMAIN longer, k < m,
                      IsCompact(longer, k), IsCompact(longer, m),
                      NEW i, i \in longer[k].span, i \in longer[m].span
               PROVE  Cut(longer, k, m, i)
    BY DEF SpansApart
  <2>1. /\ IsCompact(events, k) /\ k \in DOMAIN events /\ longer[k].span = events[k].span
        /\ IsCompact(events, m) /\ m \in DOMAIN events /\ longer[m].span = events[m].span
    BY PlainCompacts DEF IsCompact
  <2>2. Cut(events, k, m, i)
    BY <2>1 DEF SpansSound, SpansApart
  <2> QED
    BY <1>1, <2>1, <2>2, CutKept DEF Plain
<1>8. SpansDisjoint(events) => SpansDisjoint(longer)
  BY PlainCompacts DEF SpansDisjoint, IsCompact
<1>4. Replaced(longer) = Replaced(events) /\ Replaced(events) \subseteq DOMAIN events
  BY PlainCompacts, ReplacedBefore DEF SpansSound
<1>5. ReplacedAnswered(longer)
  <2> SUFFICES ASSUME NEW u \in DOMAIN longer, IsUse(longer, u), u \in Replaced(longer)
               PROVE  longer[u].id \in Ids(longer, "tool_result")
    BY DEF ReplacedAnswered
  <2>1. u \in DOMAIN events /\ IsUse(events, u) /\ u \in Replaced(events) /\ longer[u] = events[u]
    BY <1>1, <1>4 DEF IsUse
  <2>2. events[u].id \in Ids(events, "tool_result")
    BY <2>1 DEF SpansSound, ReplacedAnswered
  <2> QED
    BY <1>1, <2>1, <2>2 DEF Ids, IdsAt, At
<1>6. ASSUME HugeWhole(events)
      PROVE  HugeWhole(longer)
  <2> SUFFICES ASSUME NEW u \in DOMAIN longer, NEW j \in DOMAIN longer,
                      IsUse(longer, u), IsResult(longer, j), Same(longer, u, j),
                      longer[j].info = "huge", u \in Replaced(longer)
               PROVE  j \in Replaced(longer)
    BY DEF HugeWhole
  <2>1. IsUse(events, u) /\ IsResult(events, j) /\ Same(events, u, j)
    BY <1>4, ReplacedPairIsOld
  <2> QED
    BY <1>1, <1>4, <1>6, <2>1 DEF HugeWhole, IsUse, IsResult
<1>7. ASSUME PairsWhole(events)
      PROVE  PairsWhole(longer)
  <2> SUFFICES ASSUME NEW u \in DOMAIN longer, NEW j \in DOMAIN longer,
                      IsUse(longer, u), IsResult(longer, j), Same(longer, u, j),
                      NEW k \in DOMAIN longer, IsCompact(longer, k)
               PROVE  u \in longer[k].span <=> j \in longer[k].span
    BY DEF PairsWhole
  <2>1. IsCompact(events, k) /\ longer[k].span = events[k].span /\ k \in DOMAIN events
    BY PlainCompacts DEF IsCompact
  <2>2. \A i \in events[k].span : i \in Replaced(events)
    BY <2>1, ReplacedIs
  <2>3. u \in events[k].span \/ j \in events[k].span =>
          IsUse(events, u) /\ IsResult(events, j) /\ Same(events, u, j)
    BY <2>2, ReplacedPairIsOld
  <2> QED
    BY <1>7, <2>1, <2>3 DEF PairsWhole, IsUse, IsResult
<1> QED
  BY <1>2, <1>3, <1>5, <1>6, <1>7, <1>8 DEF SpansSound

-----------------------------------------------------------------------------
(* Events that are no calls and no results leave the calls as they are. *)
LEMMA CallsKept ==
  ASSUME NEW events, NEW longer, Extends(events, longer),
         \A i \in Added(events, longer) : longer[i].type \notin Call
  PROVE  /\ \A type \in Call : Ids(longer, type) = Ids(events, type)
         /\ Pending(longer) = Pending(events)
         /\ CallsSound(events) => CallsSound(longer)
<1>1. \A i \in DOMAIN events : longer[i] = events[i] /\ i \in DOMAIN longer
  BY DEF Extends
<1>2. \A i \in DOMAIN longer : longer[i].type \in Call => i \in DOMAIN events
  BY DEF Added
<1>3. \A i : IsUse(longer, i) <=> IsUse(events, i)
  BY <1>1, <1>2 DEF IsUse, Call
<1>4. \A i : IsResult(longer, i) <=> IsResult(events, i)
  BY <1>1, <1>2 DEF IsResult, Call
<1>5. \A type \in Call : Ids(longer, type) = Ids(events, type)
  <2> SUFFICES ASSUME NEW type \in Call
               PROVE  Ids(longer, type) = Ids(events, type)
    OBVIOUS
  <2>1. At(longer, DOMAIN longer, type) = At(events, DOMAIN events, type)
    BY <1>1, <1>2 DEF At
  <2>2. \A i \in At(events, DOMAIN events, type) : longer[i].id = events[i].id
    BY <1>1 DEF At
  <2> QED
    BY <2>1, <2>2 DEF Ids, IdsAt
<1>6. Pending(longer) = Pending(events)
  BY <1>5 DEF Pending, Call
<1>7. ASSUME CallsSound(events)
      PROVE  CallsSound(longer)
  <2>1. HaveIds(longer)
    BY <1>1, <1>2, <1>7 DEF CallsSound, HaveIds
  <2>2. UsedOnce(longer)
    BY <1>1, <1>3, <1>7 DEF CallsSound, UsedOnce, Same, IsUse
  <2>3. AnsweredOnce(longer)
    BY <1>1, <1>4, <1>7 DEF CallsSound, AnsweredOnce, Same, IsResult
  <2>4. AnsweredAfterUse(longer)
    <3> SUFFICES ASSUME NEW j \in DOMAIN longer, IsResult(longer, j)
                 PROVE  \E i \in DOMAIN longer : i < j /\ IsUse(longer, i) /\ Same(longer, i, j)
      BY DEF AnsweredAfterUse
    <3>1. IsResult(events, j) /\ j \in DOMAIN events
      BY <1>4 DEF IsResult
    <3>2. PICK i \in DOMAIN events : i < j /\ IsUse(events, i) /\ Same(events, i, j)
      BY <1>7, <3>1 DEF CallsSound, AnsweredAfterUse
    <3> QED
      BY <1>1, <1>3, <3>1, <3>2 DEF Same
  <2> QED
    BY <2>1, <2>2, <2>3, <2>4 DEF CallsSound
<1> QED
  BY <1>5, <1>6, <1>7

-----------------------------------------------------------------------------
(* Compacts of messages that nothing replaces yet, or of a huge result that *)
(* nothing replaces, with its call.                                        *)
Unreplaced(events) ==
  {i \in DOMAIN events : events[i].type \in MessageTypes /\ i \notin Replaced(events)}

CutBefore(events, i, span) ==
  /\ IsUse(events, i)
  /\ \E j \in DOMAIN events :
       /\ IsResult(events, j) /\ Same(events, i, j) /\ events[j].info = "huge"
       /\ j \notin Replaced(events) /\ span = {i, j}

Compacted(events, longer) ==
  /\ Extends(events, longer)
  /\ \A k \in Added(events, longer) :
       /\ longer[k].type = "compact"
       /\ \A i \in longer[k].span : i \in Unreplaced(events) \/ CutBefore(events, i, longer[k].span)
  /\ \A k, m \in Added(events, longer) :
       \A i \in longer[k].span : i \in longer[m].span => k = m

Projectable(events) ==
  events \in Seq(Event) /\ CallsSound(events) /\ SpansSound(events) /\ Pending(events) = {}

(* A set with a call has its result, and the other way round. *)
Closed(events, T) ==
  \A u, j \in DOMAIN events : IsUse(events, u) /\ IsResult(events, j) /\ Same(events, u, j) =>
    (u \in T <=> j \in T)

AddedClosed(events, longer) == \A k \in Added(events, longer) : Closed(events, longer[k].span)
AddedFresh(events, longer) == \A k \in Added(events, longer) : longer[k].span \subseteq Unreplaced(events)

LEMMA CompactedReplaced ==
  ASSUME NEW events, NEW longer, Compacted(events, longer)
  PROVE  /\ Replaced(events) \subseteq Replaced(longer)
         /\ \A k \in Added(events, longer) : longer[k].span \subseteq Replaced(longer)
<1>1. \A k : IsCompact(events, k) => IsCompact(longer, k) /\ longer[k].span = events[k].span
  BY DEF Compacted, Extends, IsCompact
<1>2. \A k \in Added(events, longer) : IsCompact(longer, k)
  BY DEF Compacted, Added, IsCompact
<1> QED
  BY <1>1, <1>2, ReplacedIs DEF IsCompact

LEMMA CompactedKept ==
  ASSUME NEW events, NEW longer \in Seq(Event), Compacted(events, longer), Projectable(events)
  PROVE  /\ Projectable(longer)
         /\ \A type \in Call : Ids(longer, type) = Ids(events, type)
         /\ PairsWhole(events) /\ AddedClosed(events, longer) => PairsWhole(longer)
         /\ HugeWhole(events) /\ AddedClosed(events, longer) => HugeWhole(longer)
         /\ SpansDisjoint(events) /\ AddedFresh(events, longer) => SpansDisjoint(longer)
<1>1. Extends(events, longer) /\ \A i \in Added(events, longer) : longer[i].type \notin Call
  BY DEF Compacted, Call
<1>2. /\ CallsSound(longer) /\ Pending(longer) = {}
      /\ \A type \in Call : Ids(longer, type) = Ids(events, type)
  BY <1>1, CallsKept DEF Projectable
<1>3. \A i \in DOMAIN events : longer[i] = events[i] /\ i \in DOMAIN longer
  BY <1>1 DEF Extends
<1>4. \A k \in DOMAIN longer : k \in DOMAIN events \/ k \in Added(events, longer)
  BY DEF Added
<1>5. SpansBefore(events) /\ SpansApart(events)
  BY DEF Projectable, SpansSound
<1>6. \A k \in DOMAIN events : IsCompact(longer, k) => IsCompact(events, k) /\ longer[k].span = events[k].span
  BY <1>3 DEF IsCompact
<1>7. SpansBefore(longer)
  <2> SUFFICES ASSUME NEW k \in DOMAIN longer, IsCompact(longer, k)
               PROVE  /\ longer[k].span \subseteq DOMAIN longer
                      /\ \A i \in longer[k].span : i < k /\ longer[i].type \in MessageTypes
    BY DEF SpansBefore
  <2>1. CASE k \in DOMAIN events
    <3>1. IsCompact(events, k) /\ longer[k].span = events[k].span
      BY <1>6, <2>1
    <3>2. /\ events[k].span \subseteq DOMAIN events
          /\ \A i \in events[k].span : i < k /\ events[i].type \in MessageTypes
      BY <1>5, <2>1, <3>1 DEF SpansBefore
    <3> QED
      BY <1>3, <3>1, <3>2
  <2>2. CASE k \in Added(events, longer)
    <3>1. \A i \in longer[k].span : i \in Unreplaced(events) \/ IsUse(events, i)
      BY <2>2 DEF Compacted, CutBefore
    <3>2. \A i \in DOMAIN events : i < k
      BY <1>1, <2>2 DEF Extends, Added
    <3>3. \A i \in longer[k].span : i \in DOMAIN events /\ events[i].type \in MessageTypes
      BY <3>1 DEF Unreplaced, IsUse, MessageTypes
    <3> QED
      BY <1>3, <3>2, <3>3
  <2> QED
    BY <1>4, <2>1, <2>2
<1>8. SpansApart(longer)
  <2> SUFFICES ASSUME NEW k \in DOMAIN longer, NEW m \in DOMAIN longer, k < m,
                      IsCompact(longer, k), IsCompact(longer, m),
                      NEW i, i \in longer[k].span, i \in longer[m].span
               PROVE  Cut(longer, k, m, i)
    BY DEF SpansApart
  <2>1. CASE k \in DOMAIN events /\ m \in DOMAIN events
    <3>1. /\ IsCompact(events, k) /\ longer[k].span = events[k].span
          /\ IsCompact(events, m) /\ longer[m].span = events[m].span
      BY <1>6, <2>1
    <3>2. Cut(events, k, m, i)
      BY <1>5, <2>1, <3>1 DEF SpansApart
    <3> QED
      BY <1>1, <2>1, <3>1, <3>2, CutKept
  <2>2. CASE k \in DOMAIN events /\ m \in Added(events, longer)
    <3>1. i \in Replaced(events) /\ longer[k].span \subseteq Replaced(events)
      BY <1>6, <2>2, ReplacedIs
    <3>2. CutBefore(events, i, longer[m].span)
      BY <2>2, <3>1 DEF Compacted, Unreplaced
    <3>3. PICK j \in DOMAIN events :
            /\ IsResult(events, j) /\ Same(events, i, j) /\ events[j].info = "huge"
            /\ j \notin Replaced(events) /\ longer[m].span = {i, j}
      BY <3>2 DEF CutBefore
    <3>4. IsUse(events, i) /\ i \in DOMAIN events
      BY <3>2 DEF CutBefore, IsUse
    <3>5. IsUse(longer, i) /\ IsResult(longer, j) /\ Same(longer, i, j) /\ longer[j].info = "huge"
      BY <1>3, <3>3, <3>4 DEF IsUse, IsResult, Same
    <3> QED
      BY <1>3, <3>1, <3>3, <3>5 DEF Cut
  <2>3. CASE k \in Added(events, longer) /\ m \in DOMAIN events
    <3>1. m < k
      BY <1>1, <2>3 DEF Extends, Added
    <3>2. k \in Nat /\ m \in Nat
      BY FinitePositions
    <3> QED
      BY <3>1, <3>2
  <2>4. CASE k \in Added(events, longer) /\ m \in Added(events, longer)
    <3>1. k = m
      BY <2>4 DEF Compacted
    <3>2. k \in Nat
      BY FinitePositions
    <3> QED
      BY <3>1, <3>2
  <2> QED
    BY <1>4, <2>1, <2>2, <2>3, <2>4
<1>11. ASSUME SpansDisjoint(events), AddedFresh(events, longer)
       PROVE  SpansDisjoint(longer)
  <2> SUFFICES ASSUME NEW k \in DOMAIN longer, NEW m \in DOMAIN longer,
                      IsCompact(longer, k), IsCompact(longer, m),
                      NEW i, i \in longer[k].span, i \in longer[m].span
               PROVE  k = m
    BY DEF SpansDisjoint
  <2>1. \A n \in DOMAIN events : IsCompact(longer, n) /\ i \in longer[n].span => i \in Replaced(events)
    BY <1>6, ReplacedIs
  <2>2. \A n \in Added(events, longer) : i \in longer[n].span => i \notin Replaced(events)
    BY <1>11 DEF AddedFresh, Unreplaced
  <2>3. CASE k \in DOMAIN events /\ m \in DOMAIN events
    BY <1>6, <1>11, <2>3 DEF SpansDisjoint
  <2>4. CASE k \in Added(events, longer) /\ m \in Added(events, longer)
    BY <2>4 DEF Compacted
  <2> QED
    BY <1>4, <2>1, <2>2, <2>3, <2>4
<1>12. ASSUME HugeWhole(events), AddedClosed(events, longer)
       PROVE  HugeWhole(longer)
  <2> SUFFICES ASSUME NEW u \in DOMAIN longer, NEW j \in DOMAIN longer,
                      IsUse(longer, u), IsResult(longer, j), Same(longer, u, j),
                      longer[j].info = "huge", u \in Replaced(longer)
               PROVE  j \in Replaced(longer)
    BY DEF HugeWhole
  <2>1. u \in DOMAIN events /\ j \in DOMAIN events
    BY <1>1, <1>4 DEF IsUse, IsResult, Call
  <2>2. /\ IsUse(events, u) /\ IsResult(events, j) /\ Same(events, u, j)
        /\ events[j].info = "huge"
    BY <1>3, <2>1 DEF IsUse, IsResult, Same
  <2>3. PICK k \in DOMAIN longer : IsCompact(longer, k) /\ u \in longer[k].span
    BY ReplacedIs
  <2>4. CASE k \in DOMAIN events
    <3>1. u \in Replaced(events)
      BY <1>6, <2>3, <2>4, ReplacedIs
    <3>2. j \in Replaced(events)
      BY <1>12, <2>1, <2>2, <3>1 DEF HugeWhole
    <3> QED
      BY <3>2, CompactedReplaced
  <2>5. CASE k \in Added(events, longer)
    <3>1. j \in longer[k].span
      BY <1>12, <2>1, <2>2, <2>3, <2>5 DEF AddedClosed, Closed
    <3> QED
      BY <2>3, <3>1, ReplacedIs
  <2> QED
    BY <1>4, <2>4, <2>5
<1>9. ReplacedAnswered(longer)
  <2> SUFFICES ASSUME NEW u \in DOMAIN longer, IsUse(longer, u)
               PROVE  longer[u].id \in Ids(longer, "tool_result")
    BY DEF ReplacedAnswered
  <2>1. longer[u].id \in Ids(longer, "tool_use")
    BY DEF Ids, IdsAt, At, IsUse
  <2> QED
    BY <1>2, <2>1 DEF Pending
<1>10. ASSUME PairsWhole(events), AddedClosed(events, longer)
       PROVE  PairsWhole(longer)
  <2> SUFFICES ASSUME NEW u \in DOMAIN longer, NEW j \in DOMAIN longer,
                      IsUse(longer, u), IsResult(longer, j), Same(longer, u, j),
                      NEW k \in DOMAIN longer, IsCompact(longer, k)
               PROVE  u \in longer[k].span <=> j \in longer[k].span
    BY DEF PairsWhole
  <2>1. u \in DOMAIN events /\ j \in DOMAIN events
    BY <1>1, <1>4 DEF IsUse, IsResult, Call
  <2>2. IsUse(events, u) /\ IsResult(events, j) /\ Same(events, u, j)
    BY <1>3, <2>1 DEF IsUse, IsResult, Same
  <2>3. CASE k \in DOMAIN events
    BY <1>6, <1>10, <2>1, <2>2, <2>3 DEF PairsWhole
  <2>4. CASE k \in Added(events, longer)
    BY <1>10, <2>1, <2>2, <2>4 DEF AddedClosed, Closed
  <2> QED
    BY <1>4, <2>3, <2>4
<1> QED
  BY <1>2, <1>7, <1>8, <1>9, <1>10, <1>11, <1>12 DEF Projectable, SpansSound

-----------------------------------------------------------------------------
(* The strategies compact messages that nothing replaces; all but           *)
(* MarkerTail keep a call with its result.                                 *)
LEMMA OlderIs ==
  ASSUME NEW events \in Seq(Event), NEW keep \in Nat
  PROVE  Older(events, keep) \subseteq Unreplaced(events)
<1> DEFINE T == Unreplaced(events)
           messages == MessageEvents(events)
           n == Len(messages) - keep
<1>1. T \in SUBSET Nat /\ IsFiniteSet(T)
  BY FinitePositions DEF Unreplaced
<1>2. messages = InOrder(T)
  BY DEF MessageEvents, Select, Unreplaced
<1>3. messages \in Seq(T) /\ Len(messages) \in Nat
  BY <1>1, <1>2, InOrderIs
<1>4. Older(events, keep) = Elements(SeqOfFirst(messages, n))
  BY DEF Older
<1> HIDE DEF T, messages
<1>5. n \in Int /\ n <= Len(messages)
  BY <1>3
<1>6. SeqOfFirst(messages, n) \in Seq(T)
  <2>1. CASE n <= 0
    BY <2>1 DEF SeqOfFirst
  <2>2. CASE ~(n <= 0)
    <3>1. 1 \in 1 .. Len(messages) + 1 /\ n \in 1 - 1 .. Len(messages)
      BY <1>3, <1>5, <2>2
    <3>2. SubSeq(messages, 1, n) \in Seq(T)
      BY <1>3, <3>1, SubSeqProperties
    <3> QED
      BY <2>2, <3>2 DEF SeqOfFirst
  <2> QED
    BY <2>1, <2>2
<1> DEFINE first == SeqOfFirst(messages, n)
<1>7. \A i \in DOMAIN first : first[i] \in T
  <2> HIDE DEF first
  <2>1. first \in Seq(T)
    BY <1>6 DEF first
  <2> QED
    BY <2>1
<1> HIDE DEF first, n
<1>8. Older(events, keep) = {first[i] : i \in DOMAIN first}
  BY <1>4 DEF Elements, first
<1> QED
  BY <1>7, <1>8 DEF T

LEMMA SafeRangeIs ==
  ASSUME NEW events, CallsSound(events), NEW T \in SUBSET DOMAIN events
  PROVE  /\ SafeRange(T, events) \subseteq T
         /\ Closed(events, SafeRange(T, events))
         /\ \A u \in SafeRange(T, events) : IsUse(events, u) =>
              \E j \in SafeRange(T, events) : IsResult(events, j) /\ Same(events, u, j)
<1> DEFINE Partners(i, type) == {j \in At(events, DOMAIN events, type) : events[j].id = events[i].id}
           R == SafeRange(T, events)
<1>1. /\ \A i \in T : events[i].type = "tool_use" =>
           (i \in R <=> Partners(i, "tool_result") # {} /\ Partners(i, "tool_result") \subseteq T)
      /\ \A i \in T : events[i].type = "tool_result" =>
           (i \in R <=> Partners(i, "tool_use") \subseteq T)
      /\ R \subseteq T
  BY Zenon DEF SafeRange
<1> HIDE DEF R
<1>2. ASSUME NEW u \in DOMAIN events, NEW j \in DOMAIN events,
             IsUse(events, u), IsResult(events, j), Same(events, u, j)
      PROVE  Partners(u, "tool_result") = {j} /\ Partners(j, "tool_use") = {u}
  <2>1. \A i \in Partners(u, "tool_result") : i = j
    BY <1>2 DEF CallsSound, AnsweredOnce, At, IsResult, Same
  <2>2. \A i \in Partners(j, "tool_use") : i = u
    BY <1>2 DEF CallsSound, UsedOnce, At, IsUse, Same
  <2>3. j \in Partners(u, "tool_result") /\ u \in Partners(j, "tool_use")
    BY <1>2 DEF At, IsUse, IsResult, Same
  <2> HIDE DEF Partners
  <2> QED
    BY <2>1, <2>2, <2>3
<1>3. \A u \in DOMAIN events, j \in DOMAIN events :
        IsUse(events, u) /\ IsResult(events, j) /\ Same(events, u, j) => (u \in R <=> j \in R)
  <2> SUFFICES ASSUME NEW u \in DOMAIN events, NEW j \in DOMAIN events,
                      IsUse(events, u), IsResult(events, j), Same(events, u, j)
               PROVE  u \in R <=> j \in R
    OBVIOUS
  <2>1. Partners(u, "tool_result") = {j} /\ Partners(j, "tool_use") = {u}
    BY <1>2
  <2>2. events[u].type = "tool_use" /\ events[j].type = "tool_result"
    BY DEF IsUse, IsResult
  <2> HIDE DEF Partners
  <2> QED
    BY <1>1, <2>1, <2>2
<1>4. ASSUME NEW u \in R, IsUse(events, u)
      PROVE  \E j \in R : IsResult(events, j) /\ Same(events, u, j)
  <2>1. PICK j \in Partners(u, "tool_result") : TRUE
    BY <1>1, <1>4 DEF IsUse
  <2>2. IsResult(events, j) /\ Same(events, u, j) /\ j \in DOMAIN events
    BY <2>1 DEF At, IsResult, Same
  <2> QED
    BY <1>3, <1>4, <2>2 DEF IsUse
<1> QED
  BY <1>1, <1>3, <1>4 DEF R, Closed

LEMMA OneCompact ==
  ASSUME NEW events \in Seq(Event), NEW T \in SUBSET Unreplaced(events),
         NEW longer, longer = Append(events, Compact(T)) \/ longer = events
  PROVE  /\ longer \in Seq(Event) /\ Compacted(events, longer) /\ AddedFresh(events, longer)
         /\ Closed(events, T) => AddedClosed(events, longer)
<1>1. CASE longer = events
  <2>1. Extends(events, events) /\ Added(events, events) = {}
    BY DEF Extends, Added
  <2> QED
    BY <1>1, <2>1 DEF Compacted, AddedClosed, AddedFresh
<1>2. CASE longer = Append(events, Compact(T))
  <2>1. T \in SUBSET Nat
    BY FinitePositions DEF Unreplaced
  <2>2. Compact(T) \in Event /\ Compact(T).type = "compact" /\ Compact(T).span = T
    BY <2>1, EventTypesOfMakers, FieldsOfMakers
  <2>3. /\ longer \in Seq(Event) /\ Extends(events, longer)
        /\ Added(events, longer) = {Len(events) + 1} /\ longer[Len(events) + 1] = Compact(T)
    BY <1>2, <2>2, Appended
  <2> QED
    BY <2>2, <2>3 DEF Compacted, AddedClosed, AddedFresh
<1> QED
  BY <1>1, <1>2

LEMMA CutCompacts ==
  ASSUME NEW events, Projectable(events), NEW answered \in BOOLEAN,
         NEW strategy \in Strategies, strategy.name # "ToolOutputCap",
         NEW longer, longer = Apply(strategy, events, answered)
  PROVE  /\ longer \in Seq(Event) /\ Compacted(events, longer) /\ AddedFresh(events, longer)
         /\ strategy.name # "MarkerTail" => AddedClosed(events, longer)
<1>1. events \in Seq(Event) /\ CallsSound(events)
  BY DEF Projectable
<1>2. strategy.name \in StrategyNames /\ strategy.max \in Nat /\ strategy.keep \in Nat
  BY DEF Strategies
<1>3. PICK T : T = Older(events, strategy.keep)
  OBVIOUS
<1>4. PICK R : R = SafeRange(T, events)
  OBVIOUS
<1>5. T \in SUBSET Unreplaced(events) /\ Unreplaced(events) \subseteq DOMAIN events
  BY <1>1, <1>2, <1>3, OlderIs DEF Unreplaced
<1>6. R \in SUBSET Unreplaced(events) /\ Closed(events, R)
  BY <1>1, <1>4, <1>5, SafeRangeIs
<1>7. CompactIf(events, R) = Append(events, Compact(R)) \/ CompactIf(events, R) = events
  BY DEF CompactIf
<1>8. CASE strategy.name = "MarkerTail"
  <2>1. longer = MarkerTail(events, strategy.max, strategy.keep)
    BY <1>8 DEF Apply
  <2>2. longer = Append(events, Compact(T)) \/ longer = events
    BY <1>3, <2>1 DEF MarkerTail
  <2> QED
    BY <1>1, <1>5, <1>8, <2>2, OneCompact
<1>9. CASE strategy.name = "TokenMarkerTail"
  <2>1. longer = TokenMarkerTail(events, strategy.max, strategy.keep)
    BY <1>9 DEF Apply
  <2>2. longer = Append(events, Compact(R)) \/ longer = events
    BY <1>3, <1>4, <1>7, <2>1 DEF TokenMarkerTail
  <2> QED
    BY <1>1, <1>6, <2>2, OneCompact
<1>10. CASE strategy.name = "SummaryTail"
  <2>1. longer = SummaryTail(events, strategy.max, strategy.keep, answered)
    BY <1>10 DEF Apply
  <2>2. longer = Append(events, Compact(R)) \/ longer = events
    BY <1>3, <1>4, <1>7, <2>1 DEF SummaryTail
  <2> QED
    BY <1>1, <1>6, <2>2, OneCompact
<1> QED
  BY <1>2, <1>8, <1>9, <1>10 DEF StrategyNames

LEMMA CapCompacts ==
  ASSUME NEW events, Projectable(events)
  PROVE  /\ ToolOutputCap(events) \in Seq(Event)
         /\ Compacted(events, ToolOutputCap(events))
         /\ AddedClosed(events, ToolOutputCap(events))
         /\ HugeWhole(events) => AddedFresh(events, ToolOutputCap(events))
         /\ AllHugeReplaced(ToolOutputCap(events))
<1> DEFINE CallOf(i) == {j \in At(events, DOMAIN events, "tool_use") : events[j].id = events[i].id}
           H == {i \in DOMAIN events :
                   /\ events[i].type = "tool_result" /\ events[i].info = "huge"
                   /\ i \notin Replaced(events) /\ CallOf(i) # {}}
           huge == InOrder(H)
           Span(i) == {i} \cup CallOf(i)
           more == [n \in DOMAIN huge |-> Compact(Span(huge[n]))]
           longer == events \o more
<1>1. events \in Seq(Event) /\ CallsSound(events) /\ SpansSound(events)
  BY DEF Projectable
<1>2. /\ H \in SUBSET Nat /\ IsFiniteSet(H) /\ H \subseteq DOMAIN events
      /\ DOMAIN events \subseteq Nat
  <2>1. H \in SUBSET DOMAIN events
    OBVIOUS
  <2> HIDE DEF H
  <2> QED
    BY <1>1, <2>1, FinitePositions
<1>3. /\ Cardinality(H) \in Nat /\ DOMAIN huge = 1 .. Cardinality(H)
      /\ \A n \in DOMAIN huge : huge[n] \in H
      /\ \A m, n \in DOMAIN huge : m < n => huge[m] < huge[n]
      /\ \A i \in H : \E n \in DOMAIN huge : huge[n] = i
  <2> HIDE DEF H
  <2> QED
    BY <1>2, InOrderIs
<1>4. \A m, n \in DOMAIN huge : huge[m] = huge[n] => m = n
  <2> SUFFICES ASSUME NEW m \in DOMAIN huge, NEW n \in DOMAIN huge, huge[m] = huge[n], m # n
               PROVE  FALSE
    OBVIOUS
  <2> HIDE DEF huge, H
  <2>1. m \in Nat /\ n \in Nat
    BY <1>3
  <2>2. m < n \/ n < m
    BY <2>1
  <2>3. huge[m] \in Nat /\ huge[n] \in Nat
    BY <1>2, <1>3
  <2>4. ~(huge[m] < huge[n]) /\ ~(huge[n] < huge[m])
    BY <2>3
  <2> QED
    BY <1>3, <2>2, <2>4
<1>5. ASSUME NEW j \in H
      PROVE  \E u \in DOMAIN events :
               IsUse(events, u) /\ IsResult(events, j) /\ Same(events, u, j) /\ CallOf(j) = {u}
  <2>1. PICK u : u \in CallOf(j)
    OBVIOUS
  <2>2. u \in DOMAIN events /\ IsUse(events, u) /\ IsResult(events, j) /\ Same(events, u, j)
    BY <2>1 DEF At, IsUse, IsResult, Same
  <2>3. \A i \in CallOf(j) : i = u
    BY <1>1, <2>2 DEF CallsSound, UsedOnce, At, IsUse, Same
  <2>4. CallOf(j) = {u}
    BY <2>1, <2>3
  <2> QED
    BY <2>2, <2>4
<1>6. ASSUME NEW j \in H
      PROVE  /\ Span(j) \subseteq DOMAIN events /\ Closed(events, Span(j))
             /\ \A i \in Span(j) : i \in Unreplaced(events) \/ CutBefore(events, i, Span(j))
             /\ HugeWhole(events) => Span(j) \subseteq Unreplaced(events)
  <2>1. PICK u \in DOMAIN events :
          IsUse(events, u) /\ IsResult(events, j) /\ Same(events, u, j) /\ CallOf(j) = {u}
    BY <1>5
  <2>2. j \in DOMAIN events /\ j \notin Replaced(events) /\ events[j].info = "huge"
    OBVIOUS
  <2>3. Span(j) = {j, u}
    BY <2>1
  <2> HIDE DEF Span, CallOf, H
  <2>4. HugeWhole(events) => u \notin Replaced(events)
    BY <2>1, <2>2 DEF HugeWhole
  <2>7. j \in Unreplaced(events)
    BY <2>1, <2>2 DEF Unreplaced, MessageTypes, IsResult
  <2>8. CutBefore(events, u, Span(j))
    <3>1. {j, u} = {u, j}
      OBVIOUS
    <3> QED
      BY <2>1, <2>2, <2>3, <3>1 DEF CutBefore
  <2>5. HugeWhole(events) => Span(j) \subseteq Unreplaced(events)
    BY <2>1, <2>2, <2>3, <2>4 DEF Unreplaced, MessageTypes, IsUse, IsResult
  <2>6. Closed(events, {j, u})
    <3> SUFFICES ASSUME NEW v \in DOMAIN events, NEW k \in DOMAIN events,
                        IsUse(events, v), IsResult(events, k), Same(events, v, k)
                 PROVE  v \in {j, u} <=> k \in {j, u}
      BY DEF Closed
    <3>1. v # j /\ k # u
      BY <2>1 DEF IsUse, IsResult
    <3>2. v = u => k = j
      BY <1>1, <2>1 DEF CallsSound, AnsweredOnce, Same, IsResult
    <3>3. k = j => v = u
      BY <1>1, <2>1 DEF CallsSound, UsedOnce, Same, IsUse
    <3> QED
      BY <3>1, <3>2, <3>3
  <2> QED
    BY <2>1, <2>2, <2>3, <2>5, <2>6, <2>7, <2>8
<1>7. ASSUME NEW j \in H, NEW k \in H, NEW i, i \in Span(j), i \in Span(k)
      PROVE  j = k
  <2>1. PICK u \in DOMAIN events :
          IsUse(events, u) /\ IsResult(events, j) /\ Same(events, u, j) /\ CallOf(j) = {u}
    BY <1>5
  <2>2. PICK v \in DOMAIN events :
          IsUse(events, v) /\ IsResult(events, k) /\ Same(events, v, k) /\ CallOf(k) = {v}
    BY <1>5
  <2>3. (i = j \/ i = u) /\ (i = k \/ i = v)
    BY <1>7, <2>1, <2>2
  <2>4. j # v /\ k # u
    BY <2>1, <2>2 DEF IsUse, IsResult
  <2>5. u = v => j = k
    BY <1>1, <2>1, <2>2 DEF CallsSound, AnsweredOnce, Same, IsResult
  <2> QED
    BY <2>3, <2>4, <2>5
<1>8. ToolOutputCap(events) = longer
  BY DEF ToolOutputCap, Select
<1>9. \A n \in DOMAIN huge : Span(huge[n]) \in SUBSET Nat
  BY <1>2, <1>3, <1>6
<1>10. /\ more \in Seq(Event) /\ DOMAIN more = DOMAIN huge
       /\ \A n \in DOMAIN more : more[n].type = "compact" /\ more[n].span = Span(huge[n])
  <2> HIDE DEF huge, Span
  <2>1. \A n \in DOMAIN huge : Compact(Span(huge[n])) \in Event
    BY <1>9, EventTypesOfMakers
  <2>2. more \in [1 .. Cardinality(H) -> Event]
    BY <1>3, <2>1
  <2> HIDE DEF H
  <2>3. more \in Seq(Event)
    BY <1>3, <2>2
  <2> QED
    BY <2>3, FieldsOfMakers
<1> HIDE DEF more, huge, Span
<1>11. longer \in Seq(Event) /\ Extends(events, longer)
  BY <1>1, <1>10, Concatenated
<1>12. \A k \in Added(events, longer) :
         /\ k - Len(events) \in DOMAIN huge /\ longer[k].type = "compact"
         /\ longer[k].span = Span(huge[k - Len(events)])
  <2>1. \A k \in Added(events, longer) :
          k - Len(events) \in DOMAIN more /\ longer[k] = more[k - Len(events)]
    BY <1>1, <1>10, Concatenated
  <2> QED
    BY <1>10, <2>1
<1>13. \A n \in DOMAIN huge :
         Len(events) + n \in Added(events, longer) /\ longer[Len(events) + n].span = Span(huge[n])
  BY <1>1, <1>10, Concatenated
<1> HIDE DEF longer, H
<1>14. ASSUME NEW k \in Added(events, longer), NEW m \in Added(events, longer),
              NEW i, i \in longer[k].span, i \in longer[m].span
       PROVE  k = m
  <2>1. huge[k - Len(events)] = huge[m - Len(events)]
    BY <1>3, <1>7, <1>12, <1>14
  <2>2. k - Len(events) = m - Len(events)
    BY <1>4, <1>12, <2>1
  <2>3. k \in Nat /\ m \in Nat /\ Len(events) \in Nat
    BY <1>1, <1>11 DEF Added
  <2> QED
    BY <2>2, <2>3
<1>15. Compacted(events, longer)
  BY <1>3, <1>6, <1>11, <1>12, <1>14 DEF Compacted
<1>16. AddedClosed(events, longer)
  BY <1>3, <1>6, <1>12 DEF AddedClosed
<1>18. HugeWhole(events) => AddedFresh(events, longer)
  BY <1>3, <1>6, <1>12 DEF AddedFresh
<1>17. AllHugeReplaced(longer)
  <2> SUFFICES ASSUME NEW j \in DOMAIN longer, IsResult(longer, j), longer[j].info = "huge"
               PROVE  j \in Replaced(longer)
    BY DEF AllHugeReplaced
  <2>1. j \in DOMAIN events /\ longer[j] = events[j]
    BY <1>11, <1>12 DEF IsResult, Added, Extends
  <2>2. CASE j \in Replaced(events)
    BY <1>15, <2>2, CompactedReplaced
  <2>3. CASE j \notin Replaced(events)
    <3>1. PICK u \in DOMAIN events : IsUse(events, u) /\ Same(events, u, j)
      BY <1>1, <2>1 DEF CallsSound, AnsweredAfterUse, IsResult
    <3>2. u \in CallOf(j)
      BY <3>1 DEF At, IsUse, Same
    <3>3. j \in H
      BY <2>1, <2>3, <3>2 DEF H, IsResult
    <3>4. PICK n \in DOMAIN huge : huge[n] = j
      BY <1>3, <3>3
    <3>5. j \in longer[Len(events) + n].span
      BY <1>13, <3>4 DEF Span
    <3> QED
      BY <1>13, <1>15, <3>5, CompactedReplaced
  <2> QED
    BY <2>2, <2>3
<1> QED
  BY <1>8, <1>11, <1>15, <1>16, <1>17, <1>18

LEMMA AppliedKept ==
  ASSUME NEW events, Projectable(events), NEW answered \in BOOLEAN, NEW strategy \in Strategies,
         NEW longer, longer = Apply(strategy, events, answered)
  PROVE  /\ Projectable(longer) /\ Extends(events, longer)
         /\ Ids(longer, "tool_use") = Ids(events, "tool_use")
         /\ CallsTogether(events) => CallsTogether(longer)
         /\ strategy.name # "MarkerTail" =>
              /\ PairsWhole(events) => PairsWhole(longer)
              /\ HugeWhole(events) => HugeWhole(longer)
         /\ strategy.name # "ToolOutputCap" \/ HugeWhole(events) =>
              (SpansDisjoint(events) => SpansDisjoint(longer))
         /\ strategy.name = "ToolOutputCap" \/ AllHugeReplaced(events) => AllHugeReplaced(longer)
<1>1. /\ longer \in Seq(Event) /\ Compacted(events, longer)
      /\ strategy.name # "MarkerTail" => AddedClosed(events, longer)
      /\ strategy.name # "ToolOutputCap" \/ HugeWhole(events) => AddedFresh(events, longer)
      /\ strategy.name = "ToolOutputCap" => AllHugeReplaced(longer)
  <2>1. CASE strategy.name = "ToolOutputCap"
    <3>1. longer = ToolOutputCap(events)
      BY <2>1 DEF Apply
    <3> QED
      BY <2>1, <3>1, CapCompacts
  <2>2. CASE strategy.name # "ToolOutputCap"
    BY <2>2, CutCompacts
  <2> QED
    BY <2>1, <2>2
<1>2. /\ Projectable(longer)
      /\ Ids(longer, "tool_use") = Ids(events, "tool_use")
      /\ PairsWhole(events) /\ AddedClosed(events, longer) => PairsWhole(longer)
      /\ HugeWhole(events) /\ AddedClosed(events, longer) => HugeWhole(longer)
      /\ SpansDisjoint(events) /\ AddedFresh(events, longer) => SpansDisjoint(longer)
  BY <1>1, CompactedKept DEF Call
<1>3. AllHugeReplaced(events) => AllHugeReplaced(longer)
  <2> SUFFICES ASSUME AllHugeReplaced(events),
                      NEW j \in DOMAIN longer, IsResult(longer, j), longer[j].info = "huge"
               PROVE  j \in Replaced(longer)
    BY DEF AllHugeReplaced
  <2>1. IsResult(events, j) /\ longer[j] = events[j] /\ j \in DOMAIN events
    BY <1>1 DEF Compacted, Extends, Added, IsResult
  <2> QED
    BY <1>1, <2>1, CompactedReplaced DEF AllHugeReplaced
<1>4. Extends(events, longer) /\ (CallsTogether(events) => CallsTogether(longer))
  BY <1>1, TogetherKept DEF Compacted, Projectable
<1> QED
  BY <1>1, <1>2, <1>3, <1>4

-----------------------------------------------------------------------------
(* What the host and the loop add. *)
LEMMA PlainLog ==
  ASSUME NEW events \in Seq(Event), LogSound(events), NEW longer \in Seq(Event),
         Plain(events, longer), CallsSound(longer), IdsInOrder(longer)
  PROVE  LogSound(longer)
<1>1. DOMAIN longer \subseteq Nat /\ SpansSound(events)
  BY FinitePositions DEF LogSound
<1> QED
  BY <1>1, PlainSpans DEF LogSound

LEMMA NoCallsLog ==
  ASSUME NEW events \in Seq(Event), LogSound(events), NEW longer \in Seq(Event),
         Plain(events, longer), \A i \in Added(events, longer) : longer[i].type \notin Call
  PROVE  LogSound(longer) /\ Pending(longer) = Pending(events)
<1>1. Extends(events, longer) /\ CallsSound(events) /\ IdsInOrder(events)
  BY DEF Plain, LogSound
<1>2. /\ Ids(longer, "tool_use") = Ids(events, "tool_use")
      /\ Pending(longer) = Pending(events) /\ CallsSound(longer)
  BY <1>1, CallsKept DEF Call
<1>3. IdsInOrder(longer)
  BY <1>1, <1>2 DEF IdsInOrder
<1> QED
  BY <1>2, <1>3, PlainLog

LEMMA ResultsLog ==
  ASSUME NEW events \in Seq(Event), LogSound(events), NEW longer \in Seq(Event),
         Extends(events, longer),
         \A k \in Added(events, longer) :
           longer[k].type = "tool_result" /\ longer[k].id \in Pending(events),
         \A k, m \in Added(events, longer) : longer[k].id = longer[m].id => k = m
  PROVE  /\ LogSound(longer)
         /\ \A c \in Pending(longer) :
              c \in Pending(events) /\ \A k \in Added(events, longer) : longer[k].id # c
<1>1. CallsSound(events) /\ IdsInOrder(events)
  BY DEF LogSound
<1>2. Plain(events, longer)
  BY DEF Plain
<1>3. \A i \in DOMAIN events : longer[i] = events[i] /\ i \in DOMAIN longer
  BY DEF Extends
<1>4. \A i \in DOMAIN longer : i \in DOMAIN events \/ i \in Added(events, longer)
  BY DEF Added
<1>5. \A i : IsUse(longer, i) <=> IsUse(events, i)
  BY <1>3, <1>4 DEF IsUse
<1>6. \A i \in DOMAIN events : IsResult(longer, i) <=> IsResult(events, i)
  BY <1>3 DEF IsResult
<1>7. ASSUME NEW k \in Added(events, longer)
      PROVE  /\ longer[k].id \in CallIds
             /\ \A i \in DOMAIN events : IsResult(events, i) => events[i].id # longer[k].id
             /\ \E u \in DOMAIN events : u < k /\ IsUse(events, u) /\ events[u].id = longer[k].id
  <2>1. longer[k].id \in Ids(events, "tool_use") /\ longer[k].id \notin Ids(events, "tool_result")
    BY DEF Pending
  <2>2. PICK u \in DOMAIN events : events[u].type = "tool_use" /\ events[u].id = longer[k].id
    BY <2>1 DEF Ids, IdsAt, At
  <2>3. u < k
    BY DEF Extends, Added
  <2>4. longer[k].id \in CallIds
    BY <1>1, <2>2 DEF CallsSound, HaveIds, Call
  <2>5. \A i \in DOMAIN events : IsResult(events, i) => events[i].id # longer[k].id
    BY <2>1 DEF Ids, IdsAt, At, IsResult
  <2> QED
    BY <2>2, <2>3, <2>4, <2>5 DEF IsUse
<1>8. HaveIds(longer)
  BY <1>1, <1>3, <1>4, <1>7 DEF CallsSound, HaveIds
<1>9. UsedOnce(longer)
  BY <1>1, <1>3, <1>5 DEF CallsSound, UsedOnce, Same, IsUse
<1>10. AnsweredOnce(longer)
  <2> SUFFICES ASSUME NEW i \in DOMAIN longer, NEW j \in DOMAIN longer,
                      IsResult(longer, i), IsResult(longer, j), longer[i].id = longer[j].id
               PROVE  i = j
    BY DEF AnsweredOnce, Same
  <2>1. CASE i \in DOMAIN events /\ j \in DOMAIN events
    BY <1>1, <1>3, <1>6, <2>1 DEF CallsSound, AnsweredOnce, Same
  <2>2. CASE i \in Added(events, longer) /\ j \in Added(events, longer)
    BY <2>2
  <2>3. CASE i \in DOMAIN events /\ j \in Added(events, longer)
    BY <1>3, <1>6, <1>7, <2>3
  <2>4. CASE i \in Added(events, longer) /\ j \in DOMAIN events
    BY <1>3, <1>6, <1>7, <2>4
  <2> QED
    BY <1>4, <2>1, <2>2, <2>3, <2>4
<1>11. AnsweredAfterUse(longer)
  <2> SUFFICES ASSUME NEW j \in DOMAIN longer, IsResult(longer, j)
               PROVE  \E i \in DOMAIN longer : i < j /\ IsUse(longer, i) /\ longer[i].id = longer[j].id
    BY DEF AnsweredAfterUse, Same
  <2>1. CASE j \in DOMAIN events
    <3>1. PICK i \in DOMAIN events : i < j /\ IsUse(events, i) /\ Same(events, i, j)
      BY <1>1, <1>6, <2>1 DEF CallsSound, AnsweredAfterUse
    <3> QED
      BY <1>3, <1>5, <2>1, <3>1 DEF Same
  <2>2. CASE j \in Added(events, longer)
    <3>1. PICK i \in DOMAIN events : i < j /\ IsUse(events, i) /\ events[i].id = longer[j].id
      BY <1>7, <2>2
    <3> QED
      BY <1>3, <1>5, <3>1
  <2> QED
    BY <1>4, <2>1, <2>2
<1>12. Ids(longer, "tool_use") = Ids(events, "tool_use")
  BY <1>3, <1>4 DEF Ids, IdsAt, At
<1>13. LogSound(longer)
  <2>1. IdsInOrder(longer)
    BY <1>1, <1>12 DEF IdsInOrder
  <2> QED
    BY <1>2, <1>8, <1>9, <1>10, <1>11, <2>1, PlainLog DEF CallsSound
<1>14. ASSUME NEW c \in Pending(longer)
       PROVE  c \in Pending(events) /\ \A k \in Added(events, longer) : longer[k].id # c
  <2>1. c \in Ids(events, "tool_use") /\ c \notin Ids(longer, "tool_result")
    BY <1>12 DEF Pending
  <2>2. \A i \in DOMAIN longer : longer[i].type = "tool_result" => longer[i].id # c
    BY <2>1 DEF Ids, IdsAt, At
  <2>3. c \notin Ids(events, "tool_result")
    BY <1>3, <2>2 DEF Ids, IdsAt, At
  <2>4. \A k \in Added(events, longer) : longer[k].id # c
    BY <2>2 DEF Added
  <2> QED
    BY <2>1, <2>3, <2>4 DEF Pending
<1> QED
  BY <1>13, <1>14

LEMMA UsesLog ==
  ASSUME NEW events \in Seq(Event), LogSound(events), NEW longer \in Seq(Event),
         Extends(events, longer), IdsInOrder(longer),
         \A k \in Added(events, longer) :
           /\ longer[k].type = "tool_use" /\ longer[k].id \in CallIds
           /\ longer[k].id \notin Ids(events, "tool_use"),
         \A k, m \in Added(events, longer) : longer[k].id = longer[m].id => k = m
  PROVE  LogSound(longer)
<1>1. CallsSound(events)
  BY DEF LogSound
<1>2. Plain(events, longer)
  BY DEF Plain
<1>3. \A i \in DOMAIN events : longer[i] = events[i] /\ i \in DOMAIN longer
  BY DEF Extends
<1>4. \A i \in DOMAIN longer : i \in DOMAIN events \/ i \in Added(events, longer)
  BY DEF Added
<1>5. \A i : IsResult(longer, i) <=> IsResult(events, i)
  BY <1>3, <1>4 DEF IsResult
<1>6. \A i \in DOMAIN events : IsUse(longer, i) <=> IsUse(events, i)
  BY <1>3 DEF IsUse
<1>7. \A k \in Added(events, longer), i \in DOMAIN events :
        IsUse(events, i) => events[i].id # longer[k].id
  BY DEF Ids, IdsAt, At, IsUse
<1>8. HaveIds(longer)
  BY <1>1, <1>3, <1>4 DEF CallsSound, HaveIds
<1>9. UsedOnce(longer)
  <2> SUFFICES ASSUME NEW i \in DOMAIN longer, NEW j \in DOMAIN longer,
                      IsUse(longer, i), IsUse(longer, j), longer[i].id = longer[j].id
               PROVE  i = j
    BY DEF UsedOnce, Same
  <2>1. CASE i \in DOMAIN events /\ j \in DOMAIN events
    BY <1>1, <1>3, <1>6, <2>1 DEF CallsSound, UsedOnce, Same
  <2>2. CASE i \in Added(events, longer) /\ j \in Added(events, longer)
    BY <2>2
  <2>3. CASE i \in DOMAIN events /\ j \in Added(events, longer)
    BY <1>3, <1>6, <1>7, <2>3
  <2>4. CASE i \in Added(events, longer) /\ j \in DOMAIN events
    BY <1>3, <1>6, <1>7, <2>4
  <2> QED
    BY <1>4, <2>1, <2>2, <2>3, <2>4
<1>10. AnsweredOnce(longer)
  BY <1>1, <1>3, <1>5 DEF CallsSound, AnsweredOnce, Same, IsResult
<1>11. AnsweredAfterUse(longer)
  <2> SUFFICES ASSUME NEW j \in DOMAIN longer, IsResult(longer, j)
               PROVE  \E i \in DOMAIN longer : i < j /\ IsUse(longer, i) /\ Same(longer, i, j)
    BY DEF AnsweredAfterUse
  <2>1. IsResult(events, j) /\ j \in DOMAIN events
    BY <1>5 DEF IsResult
  <2>2. PICK i \in DOMAIN events : i < j /\ IsUse(events, i) /\ Same(events, i, j)
    BY <1>1, <2>1 DEF CallsSound, AnsweredAfterUse
  <2> QED
    BY <1>3, <1>6, <2>1, <2>2 DEF Same
<1> QED
  BY <1>2, <1>8, <1>9, <1>10, <1>11, PlainLog DEF CallsSound

(* The calls of a step have the next ids. *)
IsBatch(more, n, used) == \A k \in 1 .. n : more[k] = ToolUse(IdOrder[used + k])

LEMMA BatchLog ==
  ASSUME NEW events \in Seq(Event), LogSound(events), NEW n \in Nat,
         NEW used, used = Cardinality(Ids(events, "tool_use")), used + n \in 0 .. Len(IdOrder),
         NEW longer \in Seq(Event), Extends(events, longer),
         NEW more, IsBatch(more, n, used), AddedAre(events, longer, n, more)
  PROVE  LogSound(longer)
<1> DEFINE First(m) == {IdOrder[k] : k \in 1 .. m}
<1>1. PICK m \in 0 .. Cardinality(CallIds) : Ids(events, "tool_use") = First(m)
  BY DEF LogSound, IdsInOrder
<1>2. used = m /\ m \in Nat
  <2>1. Cardinality(First(m)) = m
    BY FirstIds
  <2>2. m \in Nat
    OBVIOUS
  <2> HIDE DEF First
  <2> QED
    BY <1>1, <2>1, <2>2
<1>3. Cardinality(CallIds) \in Nat /\ m + n \in 0 .. Cardinality(CallIds)
  BY <1>2, IdOrderIs
<1>4. \A k \in 1 .. n : used + k \in 1 .. Cardinality(CallIds) /\ used + k \notin 1 .. m
  BY <1>2, <1>3
<1>5. \A k \in 1 .. n : IdOrder[used + k] \in CallIds /\ IdOrder[used + k] \notin First(m)
  <2> SUFFICES ASSUME NEW k \in 1 .. n
               PROVE  IdOrder[used + k] \in CallIds /\ \A l \in 1 .. m : IdOrder[l] # IdOrder[used + k]
    OBVIOUS
  <2>1. used + k \in 1 .. Cardinality(CallIds) /\ used + k \notin 1 .. m
    BY <1>4
  <2>2. 1 .. m \subseteq 1 .. Cardinality(CallIds)
    BY <1>3, <1>2
  <2>3. IdOrder[used + k] \in CallIds
    BY <2>1, IdOrderIs
  <2>4. ASSUME NEW l \in 1 .. m, IdOrder[l] = IdOrder[used + k]
        PROVE  FALSE
    <3>1. l \in 1 .. Cardinality(CallIds)
      BY <2>2
    <3>2. l = used + k
      BY <2>1, <2>4, <3>1, IdOrderIs
    <3> QED
      BY <2>1, <3>2
  <2> QED
    BY <2>3, <2>4
<1>6. \A k, l \in 1 .. n : IdOrder[used + k] = IdOrder[used + l] => k = l
  <2> SUFFICES ASSUME NEW k \in 1 .. n, NEW l \in 1 .. n, IdOrder[used + k] = IdOrder[used + l]
               PROVE  k = l
    OBVIOUS
  <2>1. used + k = used + l
    BY <1>4, IdOrderIs
  <2> QED
    BY <1>2, <2>1
<1>10. \A k \in 1 .. n : more[k].type = "tool_use" /\ more[k].id = IdOrder[used + k]
  BY FieldsOfMakers DEF IsBatch
<1>11. \A j \in Added(events, longer) : \E k \in 1 .. n :
         /\ j = Len(events) + k
         /\ longer[j].type = "tool_use" /\ longer[j].id = IdOrder[used + k]
  <2> SUFFICES ASSUME NEW j \in Added(events, longer)
               PROVE  \E k \in 1 .. n :
                        /\ j = Len(events) + k
                        /\ longer[j].type = "tool_use" /\ longer[j].id = IdOrder[used + k]
    OBVIOUS
  <2>1. PICK k \in 1 .. n : j = Len(events) + k /\ longer[j] = more[k]
    BY DEF AddedAre
  <2>2. longer[j].type = "tool_use" /\ longer[j].id = IdOrder[used + k]
    BY <1>10, <2>1
  <2> QED
    BY <2>1, <2>2
<1>12. \A k \in 1 .. n :
         /\ Len(events) + k \in DOMAIN longer
         /\ longer[Len(events) + k].type = "tool_use"
         /\ longer[Len(events) + k].id = IdOrder[used + k]
  BY <1>10 DEF AddedAre, Added
<1>13. \A k \in Added(events, longer) :
         /\ longer[k].type = "tool_use" /\ longer[k].id \in CallIds
         /\ longer[k].id \notin Ids(events, "tool_use")
  BY <1>1, <1>5, <1>11
<1>14. ASSUME NEW i \in Added(events, longer), NEW j \in Added(events, longer),
              longer[i].id = longer[j].id
       PROVE  i = j
  <2>1. PICK k \in 1 .. n : i = Len(events) + k /\ longer[i].id = IdOrder[used + k]
    BY <1>11
  <2>2. PICK l \in 1 .. n : j = Len(events) + l /\ longer[j].id = IdOrder[used + l]
    BY <1>11
  <2> QED
    BY <1>6, <1>14, <2>1, <2>2
<1>15. Ids(longer, "tool_use") = First(m + n)
  <2>1. \A i \in DOMAIN events : longer[i] = events[i] /\ i \in DOMAIN longer
    BY DEF Extends
  <2>2. ASSUME NEW c \in Ids(longer, "tool_use")
        PROVE  c \in First(m + n)
    <3>1. PICK i \in DOMAIN longer : longer[i].type = "tool_use" /\ longer[i].id = c
      BY DEF Ids, IdsAt, At
    <3>2. CASE i \in DOMAIN events
      <4>1. c \in Ids(events, "tool_use")
        BY <2>1, <3>1, <3>2 DEF Ids, IdsAt, At
      <4>2. 1 .. m \subseteq 1 .. m + n
        BY <1>2
      <4> QED
        BY <1>1, <4>1, <4>2
    <3>3. CASE i \in Added(events, longer)
      <4>1. PICK k \in 1 .. n : c = IdOrder[used + k]
        BY <1>11, <3>1, <3>3
      <4>2. used + k \in 1 .. m + n
        BY <1>2
      <4> QED
        BY <4>1, <4>2
    <3> QED
      BY <3>2, <3>3 DEF Added
  <2>3. ASSUME NEW k \in 1 .. m + n
        PROVE  IdOrder[k] \in Ids(longer, "tool_use")
    <3>1. CASE k \in 1 .. m
      <4>1. IdOrder[k] \in Ids(events, "tool_use")
        BY <1>1, <3>1
      <4> QED
        BY <2>1, <4>1 DEF Ids, IdsAt, At
    <3>2. CASE k \notin 1 .. m
      <4>1. k - m \in 1 .. n /\ used + (k - m) = k
        BY <1>2, <3>2
      <4>2. /\ Len(events) + (k - m) \in DOMAIN longer
            /\ longer[Len(events) + (k - m)].type = "tool_use"
            /\ longer[Len(events) + (k - m)].id = IdOrder[k]
        BY <1>12, <4>1
      <4> QED
        BY <4>2 DEF Ids, IdsAt, At
    <3> QED
      BY <3>1, <3>2
  <2> QED
    BY <2>2, <2>3
<1>16. IdsInOrder(longer)
  BY <1>3, <1>15 DEF IdsInOrder
<1> QED
  BY <1>13, <1>14, <1>16, UsesLog

(* Every call on hold is answered, in the order of the log. *)
IsAnswers(more, n, uses, size) ==
  \A k \in 1 .. n : more[k] = ToolResult(uses[k].id, size[uses[k].id])

LEMMA AnswersLog ==
  ASSUME NEW events \in Seq(Event), LogSound(events), NEW n \in Nat,
         NEW size \in [Pending(events) -> Sizes],
         NEW uses, uses = PendingToolUses(events), n = Len(uses),
         NEW longer \in Seq(Event), Extends(events, longer),
         NEW more, IsAnswers(more, n, uses, size), AddedAre(events, longer, n, more)
  PROVE  LogSound(longer) /\ Pending(longer) = {}
<1> DEFINE T == {i \in At(events, DOMAIN events, "tool_use") :
                   events[i].id \notin Ids(events, "tool_result")}
<1>1. T \in SUBSET Nat /\ IsFiniteSet(T) /\ T \subseteq DOMAIN events
  <2>1. T \in SUBSET DOMAIN events
    BY DEF At
  <2> HIDE DEF T
  <2> QED
    BY <2>1, FinitePositions
<1>2. uses = ItemsAt(events, T)
  BY DEF PendingToolUses
<1>3. \A i \in T : IsUse(events, i) /\ events[i].id \in Pending(events)
  BY DEF At, IsUse, Pending, Ids, IdsAt
<1>4. ASSUME NEW c \in Pending(events)
      PROVE  \E i \in T : events[i].id = c
  <2>1. c \in Ids(events, "tool_use") /\ c \notin Ids(events, "tool_result")
    BY DEF Pending
  <2>2. PICK i \in At(events, DOMAIN events, "tool_use") : events[i].id = c
    BY <2>1 DEF Ids, IdsAt
  <2> QED
    BY <2>1, <2>2
<1> HIDE DEF T
<1>5. /\ n = Cardinality(T) /\ \A k \in 1 .. n : uses[k] = events[InOrder(T)[k]]
      /\ \A k \in 1 .. n : InOrder(T)[k] \in T
      /\ \A k, l \in 1 .. n : k < l => InOrder(T)[k] < InOrder(T)[l]
      /\ \A i \in T : \E k \in 1 .. n : InOrder(T)[k] = i
  <2>1. n = Cardinality(T)
    BY <1>1, <1>2, ItemsAtIs
  <2>2. \A k \in 1 .. Cardinality(T) : uses[k] = events[InOrder(T)[k]]
    <3>1. \A k \in 1 .. Cardinality(T) : ItemsAt(events, T)[k] = events[InOrder(T)[k]]
      BY <1>1, ItemsAtIs
    <3> QED
      BY <1>2, <3>1
  <2>3. /\ \A k \in 1 .. Cardinality(T) : InOrder(T)[k] \in T
        /\ \A k, l \in 1 .. Cardinality(T) : k < l => InOrder(T)[k] < InOrder(T)[l]
        /\ \A i \in T : \E k \in 1 .. Cardinality(T) : InOrder(T)[k] = i
    BY <1>1, InOrderIs
  <2> QED
    BY <2>1, <2>2, <2>3
<1>6. \A k \in 1 .. n : uses[k].id \in Pending(events)
  BY <1>3, <1>5
<1>7. ASSUME NEW k \in 1 .. n, NEW l \in 1 .. n, uses[k].id = uses[l].id
      PROVE  k = l
  <2>1. InOrder(T)[k] = InOrder(T)[l]
    <3>1. \A i, j \in T : events[i].id = events[j].id => i = j
      BY <1>1, <1>3 DEF LogSound, CallsSound, UsedOnce, Same
    <3> QED
      BY <1>5, <1>7, <3>1
  <2>2. InOrder(T)[k] \in Nat /\ InOrder(T)[l] \in Nat
    BY <1>1, <1>5
  <2>3. ~(k < l) /\ ~(l < k)
    BY <1>5, <2>1, <2>2
  <2> QED
    BY <2>3
<1>8. \A j \in Added(events, longer) : \E k \in 1 .. n :
        /\ j = Len(events) + k
        /\ longer[j].type = "tool_result" /\ longer[j].id = uses[k].id
  <2>1. \A k \in 1 .. n : more[k].type = "tool_result" /\ more[k].id = uses[k].id
    BY FieldsOfMakers DEF IsAnswers
  <2> SUFFICES ASSUME NEW j \in Added(events, longer)
               PROVE  \E k \in 1 .. n :
                        /\ j = Len(events) + k
                        /\ longer[j].type = "tool_result" /\ longer[j].id = uses[k].id
    OBVIOUS
  <2>2. PICK k \in 1 .. n : j = Len(events) + k /\ longer[j] = more[k]
    BY DEF AddedAre
  <2>3. longer[j].type = "tool_result" /\ longer[j].id = uses[k].id
    BY <2>1, <2>2
  <2> QED
    BY <2>2, <2>3
<1>9. \A j \in Added(events, longer) :
        longer[j].type = "tool_result" /\ longer[j].id \in Pending(events)
  BY <1>6, <1>8
<1>10. ASSUME NEW i \in Added(events, longer), NEW j \in Added(events, longer),
              longer[i].id = longer[j].id
       PROVE  i = j
  <2>1. PICK k \in 1 .. n : i = Len(events) + k /\ longer[i].id = uses[k].id
    BY <1>8
  <2>2. PICK l \in 1 .. n : j = Len(events) + l /\ longer[j].id = uses[l].id
    BY <1>8
  <2> QED
    BY <1>7, <1>10, <2>1, <2>2
<1>11. /\ LogSound(longer)
       /\ \A c \in Pending(longer) :
            c \in Pending(events) /\ \A k \in Added(events, longer) : longer[k].id # c
  BY <1>9, <1>10, ResultsLog
<1>12. ASSUME NEW c \in Pending(longer)
       PROVE  FALSE
  <2>1. PICK i \in T : events[i].id = c
    BY <1>4, <1>11
  <2>2. PICK k \in 1 .. n : uses[k].id = c
    BY <1>5, <2>1
  <2>3. Len(events) + k \in Added(events, longer) /\ longer[Len(events) + k].id = c
    BY <2>2, FieldsOfMakers DEF AddedAre, IsAnswers
  <2> QED
    BY <1>11, <2>3
<1> QED
  BY <1>11, <1>12

-----------------------------------------------------------------------------
(* The steps of the host and the loop. *)
LEMMA StrategiesAre ==
  ASSUME strategies \in StrategyLists
  PROVE  /\ strategies \in Seq(Strategies) /\ Len(strategies) \in Nat \ {0}
         /\ DOMAIN strategies = 1 .. Len(strategies) /\ 1 \in DOMAIN strategies
         /\ \A n \in DOMAIN strategies : Named(n, "ToolOutputCap") /\ ~CutsBeforeCap => CapsBeforeCuts
<1>1. strategies \in Seq(Strategies) /\ strategies # <<>>
  BY CompactionAssumption
<1>2. Len(strategies) \in Nat \ {0} /\ DOMAIN strategies = 1 .. Len(strategies)
  BY <1>1
<1>3. 1 \in DOMAIN strategies
  BY <1>2
<1>4. ASSUME NEW m \in DOMAIN strategies, Named(m, "ToolOutputCap"), ~CutsBeforeCap,
             NEW n \in DOMAIN strategies, Named(n, "MarkerTail")
      PROVE  \E l \in DOMAIN strategies : l < n /\ Named(l, "ToolOutputCap")
  <2>1. n \in Nat /\ m \in Nat /\ n # m
    BY <1>2, <1>4 DEF Named
  <2>2. CASE n < m
    <3>1. ~(\A l \in 1 .. n : strategies[l].name # "ToolOutputCap")
      BY <1>4, <2>2 DEF CutsBeforeCap, Named
    <3>2. PICK l \in 1 .. n : Named(l, "ToolOutputCap")
      BY <3>1 DEF Named
    <3>3. l # n
      BY <1>4, <3>2 DEF Named
    <3>4. l \in DOMAIN strategies /\ l < n
      BY <1>2, <2>1, <3>3
    <3> QED
      BY <3>2, <3>4
  <2>3. CASE m < n
    BY <1>4, <2>3
  <2> QED
    BY <2>1, <2>2, <2>3
<1> QED
  BY <1>1, <1>2, <1>3, <1>4 DEF CapsBeforeCuts

(* The hook that is next, on the log the hooks before it leave. *)
LEMMA ProjectedLog ==
  ASSUME log \in Seq(Event), strategies \in StrategyLists, hook \in DOMAIN strategies,
         LogSound(log), CappedBefore(hook) => AllHugeReplaced(log), Pending(log) = {},
         NEW answered \in BOOLEAN,
         NEW longer, longer = Apply(strategies[hook], log, answered)
  PROVE  /\ longer \in Seq(Event) /\ LogSound(longer) /\ Pending(longer) = {}
         /\ CallsTogether(log) => CallsTogether(longer)
         /\ CappedBefore(hook + 1) => AllHugeReplaced(longer)
<1>1. PICK strategy : strategy = strategies[hook]
  OBVIOUS
<1>2. strategy \in Strategies /\ hook \in Nat /\ DOMAIN strategies \subseteq Nat
  BY <1>1, StrategiesAre
<1>3. Projectable(log) /\ IdsInOrder(log)
  BY DEF Projectable, LogSound
<1>4. /\ Projectable(longer) /\ Ids(longer, "tool_use") = Ids(log, "tool_use")
      /\ CallsTogether(log) => CallsTogether(longer)
      /\ strategy.name # "MarkerTail" =>
           /\ PairsWhole(log) => PairsWhole(longer)
           /\ HugeWhole(log) => HugeWhole(longer)
      /\ strategy.name # "ToolOutputCap" \/ HugeWhole(log) =>
           (SpansDisjoint(log) => SpansDisjoint(longer))
      /\ strategy.name = "ToolOutputCap" \/ AllHugeReplaced(log) => AllHugeReplaced(longer)
  BY <1>1, <1>2, <1>3, AppliedKept
<1>5. AllHugeReplaced(longer) => HugeWhole(longer)
  BY DEF AllHugeReplaced, HugeWhole
<1>6. ASSUME CapsBeforeCuts
      PROVE  HugeWhole(longer)
  <2>1. CASE strategy.name = "MarkerTail"
    <3>1. CappedBefore(hook)
      BY <1>1, <1>6, <2>1 DEF CapsBeforeCuts, CappedBefore, Named
    <3> QED
      BY <1>4, <1>5, <3>1
  <2>2. CASE strategy.name # "MarkerTail"
    BY <1>4, <1>6, <2>2 DEF LogSound
  <2> QED
    BY <2>1, <2>2
<1>7. ASSUME ~CutsBeforeCap
      PROVE  SpansDisjoint(longer)
  <2>1. SpansDisjoint(log)
    BY <1>7 DEF LogSound
  <2>2. CASE strategy.name = "ToolOutputCap"
    <3>1. CapsBeforeCuts
      BY <1>1, <1>7, <2>2, StrategiesAre DEF Named
    <3>2. HugeWhole(log)
      BY <3>1 DEF LogSound
    <3> QED
      BY <1>4, <2>1, <3>2
  <2>3. CASE strategy.name # "ToolOutputCap"
    BY <1>4, <2>1, <2>3
  <2> QED
    BY <2>2, <2>3
<1>8. ASSUME ~MarkerTailInstalled
      PROVE  PairsWhole(longer)
  <2>1. strategy.name # "MarkerTail"
    BY <1>1, <1>8 DEF MarkerTailInstalled, Named
  <2> QED
    BY <1>4, <1>8, <2>1 DEF LogSound
<1>9. ASSUME CappedBefore(hook + 1)
      PROVE  AllHugeReplaced(longer)
  <2>1. PICK m \in DOMAIN strategies : m < hook + 1 /\ Named(m, "ToolOutputCap")
    BY <1>9 DEF CappedBefore
  <2>2. m < hook \/ m = hook
    BY <1>2, <2>1
  <2>3. CASE m < hook
    BY <1>4, <2>1, <2>3 DEF CappedBefore
  <2>4. CASE m = hook
    BY <1>1, <1>4, <2>1, <2>4 DEF Named
  <2> QED
    BY <2>2, <2>3, <2>4
<1>10. IdsInOrder(longer)
  BY <1>3, <1>4 DEF IdsInOrder
<1>11. LogSound(longer)
  BY <1>4, <1>6, <1>7, <1>8, <1>10 DEF LogSound, Projectable
<1> QED
  BY <1>4, <1>9, <1>11 DEF Projectable

LEMMA SaidLog ==
  ASSUME log \in Seq(Event), LogSound(log), NEW e \in Event, e.type \notin Call \cup {"compact"}
  PROVE  /\ Append(log, e) \in Seq(Event) /\ LogSound(Append(log, e))
         /\ Pending(Append(log, e)) = Pending(log)
         /\ CallsTogether(log) /\ e.type # "assistant_message" => CallsTogether(Append(log, e))
<1>1. PICK longer : longer = Append(log, e)
  OBVIOUS
<1>2. /\ longer \in Seq(Event) /\ Extends(log, longer)
      /\ \A i \in Added(log, longer) : longer[i] = e
  BY <1>1, Appended
<1>3. Plain(log, longer) /\ \A i \in Added(log, longer) : longer[i].type \notin Call
  BY <1>2 DEF Plain
<1>4. CallsTogether(log) /\ e.type # "assistant_message" => CallsTogether(longer)
  BY <1>2, TogetherKept DEF Call
<1> QED
  BY <1>1, <1>2, <1>3, <1>4, NoCallsLog

LEMMA AnsweredLog ==
  ASSUME log \in Seq(Event), LogSound(log), NEW c \in Pending(log), NEW size \in Sizes
  PROVE  /\ Append(log, ToolResult(c, size)) \in Seq(Event) /\ LogSound(Append(log, ToolResult(c, size)))
         /\ CallsTogether(log) => CallsTogether(Append(log, ToolResult(c, size)))
<1>1. PICK longer : longer = Append(log, ToolResult(c, size))
  OBVIOUS
<1>2. c \in CallIds
  <2>1. PICK i \in DOMAIN log : log[i].type = "tool_use" /\ log[i].id = c
    BY DEF Pending, Ids, IdsAt, At
  <2> QED
    BY <2>1 DEF LogSound, CallsSound, HaveIds, Call
<1>3. /\ ToolResult(c, size) \in Event
      /\ ToolResult(c, size).type = "tool_result" /\ ToolResult(c, size).id = c
  BY <1>2, EventTypesOfMakers, FieldsOfMakers DEF Sizes, ResultKinds
<1>4. /\ longer \in Seq(Event) /\ Extends(log, longer) /\ Added(log, longer) = {Len(log) + 1}
      /\ longer[Len(log) + 1] = ToolResult(c, size)
  BY <1>1, <1>3, Appended
<1>5. LogSound(longer)
  BY <1>3, <1>4, ResultsLog
<1>6. CallsTogether(log) => CallsTogether(longer)
  BY <1>3, <1>4, TogetherKept
<1> QED
  BY <1>1, <1>4, <1>5, <1>6

LEMMA SteppedLog ==
  ASSUME log \in Seq(Event), LogSound(log), NEW n \in Nat, NEW stop \in StopReasons,
         NEW used, used = Cardinality(Ids(log, "tool_use")), used + n \in 0 .. Len(IdOrder),
         NEW batch, batch = [k \in 1 .. n |-> ToolUse(IdOrder[used + k])],
         NEW longer, longer = log \o <<AssistantMessage(stop)>> \o batch
  PROVE  /\ longer \in Seq(Event) /\ LogSound(longer)
         /\ CallsTogether(log) /\ Pending(log) = {} => CallsTogether(longer)
<1>1. PICK one : one = <<AssistantMessage(stop)>>
  OBVIOUS
<1>2. PICK mid : mid = log \o one
  OBVIOUS
<1>3. /\ AssistantMessage(stop) \in Event
      /\ AssistantMessage(stop).type = "assistant_message"
  BY EventTypesOfMakers, FieldsOfMakers
<1>4. one \in Seq(Event) /\ DOMAIN one = 1 .. 1 /\ one[1].type = "assistant_message" /\ 1 \in Nat
  BY <1>1, <1>3
<1>5. mid \in Seq(Event) /\ Extends(log, mid) /\ AddedAre(log, mid, 1, one)
  BY <1>2, <1>4, Joined
<1>6. \A j \in Added(log, mid) : mid[j].type = "assistant_message"
  BY <1>4, <1>5 DEF AddedAre
<1>7. Plain(log, mid) /\ \A j \in Added(log, mid) : mid[j].type \notin Call
  BY <1>5, <1>6 DEF Plain, Call
<1>8. LogSound(mid)
  BY <1>5, <1>7, NoCallsLog
<1>9. Ids(mid, "tool_use") = Ids(log, "tool_use")
  BY <1>5, <1>7, CallsKept DEF Call
<1>10. used \in Nat /\ used + n <= Len(IdOrder) /\ Len(IdOrder) = Cardinality(CallIds)
  <2>1. PICK m \in 0 .. Cardinality(CallIds) : Ids(log, "tool_use") = {IdOrder[k] : k \in 1 .. m}
    BY DEF LogSound, IdsInOrder
  <2>2. used = m
    BY <2>1, FirstIds
  <2> QED
    BY <2>2, IdOrderIs
<1>11. ASSUME NEW k \in 1 .. n
       PROVE  ToolUse(IdOrder[used + k]) \in Event
  <2>1. used + k \in 1 .. Cardinality(CallIds)
    BY <1>10
  <2>2. IdOrder[used + k] \in CallIds
    BY <2>1, IdOrderIs
  <2> QED
    BY <2>2, EventTypesOfMakers
<1>12. batch \in Seq(Event) /\ DOMAIN batch = 1 .. n /\ IsBatch(batch, n, used)
  <2>1. batch \in [1 .. n -> Event]
    BY <1>11
  <2>2. IsBatch(batch, n, used)
    BY DEF IsBatch
  <2> QED
    BY <2>1, <2>2
<1>13. longer = mid \o batch
  BY <1>1, <1>2
<1>14. longer \in Seq(Event) /\ Extends(mid, longer) /\ AddedAre(mid, longer, n, batch)
  BY <1>5, <1>12, <1>13, Joined
<1>15. used = Cardinality(Ids(mid, "tool_use"))
  BY <1>9
<1>16. CallsTogether(log) /\ Pending(log) = {} => CallsTogether(longer)
  <2>1. \A k \in 1 .. n : batch[k].type = "tool_use"
    BY <1>12, FieldsOfMakers DEF IsBatch
  <2>2. ASSUME NEW j \in Added(mid, longer)
        PROVE  longer[j].type = "tool_use"
    <3>1. PICK k \in 1 .. n : longer[j] = batch[k]
      BY <1>14 DEF AddedAre
    <3> QED
      BY <2>1, <3>1
  <2>3. Added(log, mid) = {Len(log) + 1}
    BY <1>5 DEF AddedAre
  <2> QED
    BY <1>5, <1>6, <1>14, <2>2, <2>3, TogetherStepped
<1> QED
  BY <1>5, <1>8, <1>12, <1>14, <1>15, <1>16, BatchLog

LEMMA DispatchedLog ==
  ASSUME log \in Seq(Event), LogSound(log), NEW size \in [Pending(log) -> Sizes],
         NEW uses, uses = PendingToolUses(log),
         NEW answers, answers = [i \in DOMAIN uses |-> ToolResult(uses[i].id, size[uses[i].id])],
         NEW longer, longer = log \o answers
  PROVE  /\ longer \in Seq(Event) /\ LogSound(longer) /\ Pending(longer) = {}
         /\ CallsTogether(log) => CallsTogether(longer)
<1> DEFINE T == {i \in At(log, DOMAIN log, "tool_use") : log[i].id \notin Ids(log, "tool_result")}
           n == Cardinality(T)
<1>1. T \in SUBSET Nat /\ IsFiniteSet(T) /\ T \subseteq DOMAIN log
  <2>1. T \in SUBSET DOMAIN log
    BY DEF At
  <2> HIDE DEF T
  <2> QED
    BY <2>1, FinitePositions
<1>2. uses = ItemsAt(log, T)
  BY DEF PendingToolUses
<1>3. \A i \in T : log[i].id \in Pending(log) /\ log[i].id \in CallIds
  BY DEF At, Pending, Ids, IdsAt, LogSound, CallsSound, HaveIds, Call
<1> HIDE DEF T
<1>4. /\ n \in Nat /\ DOMAIN uses = 1 .. n /\ Len(uses) = n
      /\ uses \in Seq({log[i] : i \in T})
  BY <1>1, <1>2, ItemsAtIs
<1> HIDE DEF n
<1>5. ASSUME NEW k \in 1 .. n
      PROVE  ToolResult(uses[k].id, size[uses[k].id]) \in Event
  <2>1. uses[k] \in {log[i] : i \in T}
    BY <1>4
  <2>2. uses[k].id \in Pending(log) /\ uses[k].id \in CallIds
    BY <1>3, <2>1
  <2>3. size[uses[k].id] \in ResultKinds
    BY <2>2 DEF Sizes, ResultKinds
  <2> QED
    BY <2>2, <2>3, EventTypesOfMakers
<1>6. answers \in Seq(Event) /\ DOMAIN answers = 1 .. n /\ IsAnswers(answers, n, uses, size)
  <2>1. answers \in [1 .. n -> Event]
    BY <1>4, <1>5
  <2>2. IsAnswers(answers, n, uses, size)
    BY <1>4 DEF IsAnswers
  <2> QED
    BY <1>4, <2>1, <2>2
<1>7. longer \in Seq(Event) /\ Extends(log, longer) /\ AddedAre(log, longer, n, answers)
  BY <1>4, <1>6, Joined
<1>8. n = Len(uses)
  BY <1>4
<1>9. CallsTogether(log) => CallsTogether(longer)
  <2>1. \A k \in 1 .. n : answers[k].type = "tool_result"
    BY <1>6, FieldsOfMakers DEF IsAnswers
  <2>2. ASSUME NEW j \in Added(log, longer)
        PROVE  longer[j].type = "tool_result"
    <3>1. PICK k \in 1 .. n : longer[j] = answers[k]
      BY <1>7 DEF AddedAre
    <3> QED
      BY <2>1, <3>1
  <2> QED
    BY <1>7, <2>2, TogetherKept
<1> QED
  BY <1>4, <1>6, <1>7, <1>8, <1>9, AnswersLog

-----------------------------------------------------------------------------
(* The log of a session stays sound, with what its compacts replace, and    *)
(* the strategies never see a call on hold (strategies.go, agent_loop.go).  *)
CompactionSound == CompactionTypeOK /\ CompactionInv

LEMMA CompactionInitSound == CompactionInit => CompactionSound
<1> SUFFICES ASSUME CompactionInit
             PROVE  CompactionSound
  OBVIOUS
<1>1. /\ log = <<>> /\ step = "idle" /\ DOMAIN log = {} /\ hook = 1
      /\ strategies \in StrategyLists
  BY DEF CompactionInit
<1>2. CompactionTypeOK
  BY <1>1, StrategiesAre DEF CompactionTypeOK, Steps
<1>3. /\ CallsSound(log) /\ HugeWhole(log) /\ PairsWhole(log) /\ SpansSound(log)
      /\ SpansDisjoint(log) /\ AllHugeReplaced(log)
  BY <1>1 DEF CallsSound, HaveIds, UsedOnce, AnsweredOnce, AnsweredAfterUse, HugeWhole, PairsWhole,
              SpansSound, SpansBefore, SpansApart, ReplacedAnswered, SpansDisjoint, AllHugeReplaced
<1>4. IdsInOrder(log)
  <2>1. Ids(log, "tool_use") = {} /\ {IdOrder[k] : k \in 1 .. 0} = {}
    BY <1>1 DEF Ids, IdsAt, At
  <2>2. 0 \in 0 .. Cardinality(CallIds)
    BY IdOrderIs
  <2> QED
    BY <2>1, <2>2 DEF IdsInOrder
<1>5. CallsTogether(log)
  BY <1>1 DEF CallsTogether, CallsFollow, AnsweredInTime
<1> QED
  BY <1>1, <1>2, <1>3, <1>4, <1>5 DEF CompactionSound, CompactionInv, LogSound

(* A step that leaves a sound log, and where the host and the loop are then. *)
LEMMA SoundAfter ==
  ASSUME CompactionSound, UNCHANGED strategies, hook' \in DOMAIN strategies, step' \in Steps,
         log' \in Seq(Event), LogSound(log'), CallsTogether(log'),
         step' # "turn" => hook' = 1, CappedBefore(hook') => AllHugeReplaced(log'),
         step' \in {"turn", "called", "refused"} => Pending(log') = {},
         step' = "refused" => ~ProviderReady(log'),
         step' = "called" => ProviderReady(log')
  PROVE  CompactionSound'
<1>1. strategies' = strategies /\ strategies \in StrategyLists
  BY DEF CompactionSound, CompactionTypeOK
<1>2. CompactionTypeOK'
  BY <1>1 DEF CompactionTypeOK
<1>3. /\ MarkerTailInstalled' <=> MarkerTailInstalled
      /\ CapsBeforeCuts' <=> CapsBeforeCuts
      /\ CutsBeforeCap' <=> CutsBeforeCap
      /\ CappedBefore(hook)' <=> CappedBefore(hook')
  BY <1>1 DEF MarkerTailInstalled, CapsBeforeCuts, CutsBeforeCap, CappedBefore, Named
<1>4. LogSound(log)'
  BY <1>3 DEF LogSound
<1> QED
  BY <1>2, <1>3, <1>4 DEF CompactionSound, CompactionInv

LEMMA SoundBetween ==
  ASSUME CompactionSound, step # "turn", UNCHANGED <<strategies, hook>>, step' \in Steps,
         log' \in Seq(Event), LogSound(log'), CallsTogether(log'),
         step' \in {"turn", "called", "refused"} => Pending(log') = {},
         step' = "refused" => ~ProviderReady(log'),
         step' = "called" => ProviderReady(log')
  PROVE  CompactionSound'
<1>1. hook' = 1 /\ hook' \in DOMAIN strategies /\ strategies \in StrategyLists
  BY DEF CompactionSound, CompactionTypeOK, CompactionInv
<1>2. ~CappedBefore(hook')
  BY <1>1, StrategiesAre DEF CappedBefore
<1> QED
  BY <1>1, <1>2, SoundAfter

LEMMA CompactionNextSound == CompactionSound /\ [CompactionNext]_compactionVars => CompactionSound'
<1> SUFFICES ASSUME CompactionSound, [CompactionNext]_compactionVars
             PROVE  CompactionSound'
  OBVIOUS
<1>1. /\ log \in Seq(Event) /\ strategies \in StrategyLists /\ LogSound(log) /\ CallsTogether(log)
      /\ hook \in DOMAIN strategies /\ (CappedBefore(hook) => AllHugeReplaced(log))
      /\ step # "turn" => hook = 1
      /\ step \in {"turn", "called", "refused"} => Pending(log) = {}
      /\ step = "refused" => ~ProviderReady(log)
      /\ step = "called" => ProviderReady(log)
  BY DEF CompactionSound, CompactionTypeOK, CompactionInv
<1>2. CASE Say
  <2>1. UserMessage \in Event /\ UserMessage.type \notin Call \cup {"compact", "assistant_message"}
    BY EventTypesOfMakers, FieldsOfMakers DEF Call
  <2>2. /\ log' = Append(log, UserMessage) /\ UNCHANGED <<strategies, hook>> /\ step # "turn"
        /\ step' = IF Pending(log) = {} THEN "turn" ELSE "idle"
    BY <1>2 DEF Say, AtRest
  <2>3. log' \in Seq(Event) /\ LogSound(log') /\ CallsTogether(log') /\ Pending(log') = Pending(log)
    BY <1>1, <2>1, <2>2, SaidLog
  <2> QED
    BY <2>2, <2>3, SoundBetween DEF Steps
<1>3. CASE ResumeTurn
  <2>1. /\ log' = log /\ UNCHANGED <<strategies, hook>> /\ step # "turn"
        /\ step' = "turn" /\ Pending(log) = {}
    BY <1>3 DEF ResumeTurn, AtRest
  <2> QED
    BY <1>1, <2>1, SoundBetween DEF Steps
<1>4. CASE HoldForApproval
  <2>1. log' = log /\ UNCHANGED <<strategies, hook>> /\ step # "turn" /\ step' = "idle"
    BY <1>4 DEF HoldForApproval
  <2> QED
    BY <1>1, <2>1, SoundBetween DEF Steps
<1>5. ASSUME NEW c \in CallIds, Approve(c)
      PROVE  CompactionSound'
  <2>1. PICK size \in Sizes : log' = Append(log, ToolResult(c, size))
    BY <1>5 DEF Approve
  <2>2. c \in Pending(log) /\ UNCHANGED <<strategies, hook>> /\ step # "turn" /\ step' = "idle"
    BY <1>5 DEF Approve, AtRest
  <2>3. log' \in Seq(Event) /\ LogSound(log') /\ CallsTogether(log')
    BY <1>1, <2>1, <2>2, AnsweredLog
  <2> QED
    BY <2>2, <2>3, SoundBetween DEF Steps
<1>6. ASSUME NEW i \in DOMAIN log, RevertCompact(i)
      PROVE  CompactionSound'
  <2>1. i \in Nat
    BY <1>1, FinitePositions
  <2>2. Revert(i) \in Event /\ Revert(i).type \notin Call \cup {"compact", "assistant_message"}
    BY <2>1, EventTypesOfMakers, FieldsOfMakers DEF Call
  <2>3. /\ log' = Append(log, Revert(i)) /\ UNCHANGED <<strategies, hook>>
        /\ step # "turn" /\ step' = "idle"
    BY <1>6 DEF RevertCompact, AtRest
  <2>4. log' \in Seq(Event) /\ LogSound(log') /\ CallsTogether(log')
    BY <1>1, <2>2, <2>3, SaidLog
  <2> QED
    BY <2>3, <2>4, SoundBetween DEF Steps
<1>7. CASE PreProjection
  <2>1. step = "turn" /\ UNCHANGED strategies
    BY <1>7 DEF PreProjection
  <2>2. PICK answered \in BOOLEAN : log' = Apply(strategies[hook], log, answered)
    BY <1>7 DEF PreProjection
  <2>3. /\ log' \in Seq(Event) /\ LogSound(log') /\ CallsTogether(log') /\ Pending(log') = {}
        /\ CappedBefore(hook + 1) => AllHugeReplaced(log')
    BY <1>1, <2>1, <2>2, ProjectedLog
  <2>4. DOMAIN strategies = 1 .. Len(strategies) /\ 1 \in DOMAIN strategies
    BY <1>1, StrategiesAre
  <2>5. CASE hook < Len(strategies)
    <3>1. hook' = hook + 1 /\ step' = step
      BY <1>7, <2>5 DEF PreProjection
    <3>2. hook' \in DOMAIN strategies
      BY <1>1, <2>4, <2>5, <3>1
    <3> QED
      BY <2>1, <2>3, <3>1, <3>2, SoundAfter DEF Steps
  <2>6. CASE ~(hook < Len(strategies))
    <3>1. hook' = 1 /\ step' = IF ProviderReady(log') THEN "called" ELSE "refused"
      BY <1>7, <2>6 DEF PreProjection
    <3>2. ~CappedBefore(hook')
      BY <2>4, <3>1 DEF CappedBefore
    <3> QED
      BY <2>1, <2>3, <2>4, <3>1, <3>2, SoundAfter DEF Steps
  <2> QED
    BY <2>5, <2>6
<1>8. CASE ProviderStep
  <2>1. PICK used : used = Cardinality(Ids(log, "tool_use"))
    OBVIOUS
  <2>2. PICK n \in 0 .. MaxBatch :
          /\ used + n \in 0 .. Len(IdOrder)
          /\ log' = log \o <<AssistantMessage(IF n = 0 THEN "end_turn" ELSE "tool_use")>>
                        \o [k \in 1 .. n |-> ToolUse(IdOrder[used + k])]
          /\ step' = IF n = 0 THEN "idle" ELSE "tools"
    BY <1>8, <2>1 DEF ProviderStep
  <2>3. UNCHANGED <<strategies, hook>> /\ n \in Nat /\ step = "called"
    BY <1>8 DEF ProviderStep
  <2>4. PICK stop \in StopReasons : stop = IF n = 0 THEN "end_turn" ELSE "tool_use"
    BY DEF StopReasons
  <2>5. log' \in Seq(Event) /\ LogSound(log') /\ CallsTogether(log')
    BY <1>1, <2>1, <2>2, <2>3, <2>4, SteppedLog
  <2> QED
    BY <2>2, <2>3, <2>5, SoundBetween DEF Steps
<1>9. CASE Dispatch
  <2>1. UNCHANGED <<strategies, hook>> /\ step # "turn" /\ step' = "turn"
    BY <1>9 DEF Dispatch
  <2>2. PICK size \in [Pending(log) -> Sizes] :
          LET uses == PendingToolUses(log)
          IN  log' = log \o [i \in DOMAIN uses |-> ToolResult(uses[i].id, size[uses[i].id])]
    BY <1>9 DEF Dispatch
  <2>3. log' \in Seq(Event) /\ LogSound(log') /\ CallsTogether(log') /\ Pending(log') = {}
    BY <1>1, <2>2, DispatchedLog
  <2> QED
    BY <2>1, <2>3, SoundBetween DEF Steps
<1>10. CASE UNCHANGED compactionVars
  <2>1. log' = log /\ UNCHANGED <<strategies, hook>> /\ step' = step /\ step \in Steps
    BY <1>10 DEF compactionVars, CompactionSound, CompactionTypeOK
  <2> QED
    BY <1>1, <2>1, SoundAfter
<1> QED
  BY <1>2, <1>3, <1>4, <1>5, <1>6, <1>7, <1>8, <1>9, <1>10 DEF CompactionNext

THEOREM CompactionStaysSound == CompactionSpec => [](CompactionTypeOK /\ CompactionInv)
<1>1. CompactionSound => CompactionTypeOK /\ CompactionInv
  BY DEF CompactionSound
<1> QED
  BY <1>1, CompactionInitSound, CompactionNextSound, PTL DEF CompactionSpec

-----------------------------------------------------------------------------
(* Each message shown once. *)
LEMMA FirstOfIs ==
  ASSUME NEW S \in SUBSET Nat, IsFiniteSet(S), S # {}
  PROVE  FirstOf(S) \in S /\ \A i \in S : FirstOf(S) <= i
<1> DEFINE i == InOrder(S)[1]
<1>1. Cardinality(S) \in Nat /\ Cardinality(S) # 0
  BY FS_CardinalityType, FS_EmptySet
<1>2. 1 \in 1 .. Cardinality(S)
  BY <1>1
<1>3. i \in S
  BY <1>2, InOrderIs
<1>4. ASSUME NEW j \in S
      PROVE  i <= j
  <2>1. PICK n \in 1 .. Cardinality(S) : InOrder(S)[n] = j
    BY InOrderIs
  <2>2. n = 1 \/ 1 < n
    BY <1>1
  <2>3. 1 < n => i < j
    BY <1>2, <2>1, InOrderIs
  <2>4. i \in Nat /\ j \in Nat
    BY <1>3
  <2> QED
    BY <2>1, <2>2, <2>3, <2>4
<1> HIDE DEF i
<1>5. \E l \in S : \A j \in S : l <= j
  BY <1>3, <1>4
<1> QED
  BY <1>5 DEF FirstOf

(* No two of three compacts that replace a call do so with its result. *)
LEMMA TwoCaps ==
  ASSUME NEW a \in Nat, NEW b \in Nat, NEW c \in Nat, NEW i,
         CallsSound(log), DOMAIN log \subseteq Nat,
         CutThenCapped(a, b, i), CutThenCapped(a, c, i) \/ CutThenCapped(c, a, i),
         CutThenCapped(b, c, i) \/ CutThenCapped(c, b, i)
  PROVE  FALSE
<1> DEFINE Caps(k, m, j) == /\ IsResult(log, j) /\ log[j].id = log[i].id
                            /\ j \notin log[k].span /\ j \in log[m].span
<1>1. ASSUME NEW k, NEW m, CutThenCapped(k, m, i)
      PROVE  k < m /\ \E j \in DOMAIN log : Caps(k, m, j)
  BY <1>1 DEF CutThenCapped, At, IsResult
<1>2. \A j, l \in DOMAIN log : IsResult(log, j) /\ IsResult(log, l)
        /\ log[j].id = log[i].id /\ log[l].id = log[i].id => j = l
  BY DEF CallsSound, AnsweredOnce, Same
<1>3. PICK j \in DOMAIN log : Caps(a, b, j)
  BY <1>1
<1>4. ASSUME NEW k, NEW m, CutThenCapped(k, m, i)
      PROVE  j \notin log[k].span /\ j \in log[m].span
  <2>1. PICK l \in DOMAIN log : Caps(k, m, l)
    BY <1>1, <1>4
  <2>2. l = j
    BY <1>2, <1>3, <2>1
  <2> QED
    BY <2>1, <2>2
<1>5. a < b
  BY <1>1
<1>6. CASE CutThenCapped(a, c, i)
  <2>1. j \in log[c].span /\ j \in log[b].span
    BY <1>3, <1>4, <1>6
  <2> QED
    BY <1>4, <2>1
<1>7. CASE CutThenCapped(c, a, i)
  <2>1. j \in log[a].span
    BY <1>4, <1>7
  <2> QED
    BY <1>3, <2>1
<1> QED
  BY <1>6, <1>7

LEMMA ShownOnce ==
  ASSUME log \in Seq(Event), LogSound(log)
  PROVE  EachMessageShownOnce
<1> DEFINE A == ActiveCompacts(log)
           Span(k) == log[k].span
           First(k) == FirstOf(log[k].span)
<1>1. \A k \in A : k \in DOMAIN log /\ k \in Nat /\ IsCompact(log, k)
  BY FinitePositions DEF ActiveCompacts, At, IsCompact
<1>2. ASSUME NEW k \in A, NEW m \in A, k < m, NEW i \in Span(k), i \in Span(m)
      PROVE  CutThenCapped(k, m, i)
  <2>1. k # m
    BY <1>1, <1>2
  <2>2. CutsBeforeCap
    BY <1>1, <1>2, <2>1 DEF LogSound, SpansDisjoint
  <2>3. Cut(log, k, m, i)
    BY <1>1, <1>2 DEF LogSound, SpansSound, SpansApart
  <2> QED
    BY <1>2, <2>2, <2>3 DEF Cut, CutThenCapped, IsUse, IsResult, Same, At
<1>3. ASSUME NEW k \in A, NEW m \in A, k # m, NEW i \in Span(k), i \in Span(m)
      PROVE  CutThenCapped(k, m, i) \/ CutThenCapped(m, k, i)
  <2>1. k < m \/ m < k
    BY <1>1, <1>3
  <2> QED
    BY <1>2, <1>3, <2>1
<1>4. IsFiniteSet(A)
  <2>1. A \in SUBSET DOMAIN log
    BY <1>1
  <2> HIDE DEF A
  <2> QED
    BY <2>1, FinitePositions
<1>5. ASSUME NEW k \in A
      PROVE  First(k) \in Span(k)
  <2>1. Span(k) # {} /\ Span(k) \in SUBSET DOMAIN log
    BY <1>1 DEF LogSound, SpansSound, SpansBefore, ActiveCompacts
  <2>2. Span(k) \in SUBSET Nat /\ IsFiniteSet(Span(k))
    BY <2>1, FinitePositions
  <2> QED
    BY <2>1, <2>2, FirstOfIs
<1>6. ASSUME NEW i \in DOMAIN log \ Visible(log), log[i].type \in MessageTypes,
             NEW K, K = {k \in A : i \in Span(k)}
      PROVE  \/ Cardinality(K) = 1
             \/ \E k, m \in A : K = {k, m} /\ CutThenCapped(k, m, i)
  <2>1. K # {}
    BY <1>6 DEF Visible, Shadowed, MessageTypes
  <2>2. PICK k \in K : TRUE
    BY <2>1
  <2>3. CASE K = {k}
    BY <2>3, FS_Singleton
  <2>4. CASE K # {k}
    <3>1. PICK m \in K : m # k
      BY <2>2, <2>4
    <3>2. CutThenCapped(k, m, i) \/ CutThenCapped(m, k, i)
      BY <1>3, <1>6, <2>2, <3>1
    <3>3. ASSUME NEW a \in A, NEW b \in A, CutThenCapped(a, b, i), NEW c \in K, a \in K, b \in K
          PROVE  c \in {a, b}
      <4> SUFFICES ASSUME c # a, c # b
                   PROVE  FALSE
        OBVIOUS
      <4>1. \A x, y \in K : x # y => CutThenCapped(x, y, i) \/ CutThenCapped(y, x, i)
        BY <1>3, <1>6
      <4>2. CutThenCapped(a, c, i) \/ CutThenCapped(c, a, i)
        BY <3>3, <4>1
      <4>3. CutThenCapped(b, c, i) \/ CutThenCapped(c, b, i)
        BY <3>3, <4>1
      <4>4. a \in Nat /\ b \in Nat /\ c \in Nat
        BY <1>1, <1>6, <3>3
      <4>5. CallsSound(log) /\ DOMAIN log \subseteq Nat
        BY FinitePositions DEF LogSound
      <4> HIDE DEF A, Span
      <4> QED
        BY <3>3, <4>2, <4>3, <4>4, <4>5, TwoCaps
    <3>4. CASE CutThenCapped(k, m, i)
      <4>1. K = {k, m} /\ k \in A /\ m \in A
        BY <1>6, <2>2, <3>1, <3>3, <3>4
      <4> QED
        BY <3>4, <4>1
    <3>5. CASE CutThenCapped(m, k, i)
      <4>1. K = {m, k} /\ k \in A /\ m \in A
        BY <1>6, <2>2, <3>1, <3>3, <3>5
      <4> QED
        BY <3>5, <4>1
    <3> QED
      BY <3>2, <3>4, <3>5
  <2> QED
    BY <2>3, <2>4
<1>7. \/ Cardinality(Summarised(log)) = Cardinality(A)
      \/ \E k, m \in A : CutThenCapped(k, m, First(k))
  <2> SUFFICES ASSUME ~\E k, m \in A : CutThenCapped(k, m, First(k))
               PROVE  Cardinality(Summarised(log)) = Cardinality(A)
    OBVIOUS
  <2> DEFINE T == {First(k) : k \in A}
             f == [k \in A |-> First(k)]
  <2>1. f \in [A -> T] /\ \A t \in T : \E k \in A : f[k] = t
    OBVIOUS
  <2>2. \A k, m \in A : f[k] = f[m] => k = m
    <3> SUFFICES ASSUME NEW k \in A, NEW m \in A, First(k) = First(m), k # m
                 PROVE  FALSE
      OBVIOUS
    <3>1. First(k) \in Span(k) /\ First(k) \in Span(m)
      BY <1>5
    <3>2. CutThenCapped(k, m, First(k)) \/ CutThenCapped(m, k, First(m))
      BY <1>3, <3>1
    <3> QED
      BY <3>2
  <2>3. Summarised(log) = T
    BY DEF Summarised
  <2> HIDE DEF f, T, A
  <2>4. f \in Bijection(A, T)
    BY <2>1, <2>2 DEF Bijection, Injection, Surjection, IsInjective
  <2>5. ExistsBijection(A, T)
    BY <2>4 DEF ExistsBijection
  <2> QED
    BY <1>4, <2>3, <2>5, FS_Bijection
<1> QED
  BY <1>6, <1>7 DEF EachMessageShownOnce

(* A message is in the view or behind exactly one summary, which has a      *)
(* place of its own, whatever was compacted, combined and reverted          *)
(* (ApplyMutations, mutations.go; messageEvents, strategies.go).           *)
THEOREM MessagesShownOnce == CompactionSpec => []EachMessageShownOnce
<1>1. CompactionTypeOK /\ CompactionInv => EachMessageShownOnce
  BY ShownOnce DEF CompactionTypeOK, CompactionInv
<1> QED
  BY <1>1, CompactionStaysSound, PTL

-----------------------------------------------------------------------------
(* What is refused, and SummaryTail's own log. *)
LEMMA NotSplit ==
  ASSUME NEW events \in Seq(Event), CallsSound(events), PairsWhole(events)
  PROVE  ~SplitPair(events)
<1> SUFFICES ASSUME NEW i \in DOMAIN events, NEW j \in DOMAIN events,
                    IsUse(events, i), IsResult(events, j), Same(events, i, j)
             PROVE  i \in Visible(events) <=> j \in Visible(events)
  BY DEF SplitPair, At, IsUse, IsResult, Same
<1>1. \A k \in ActiveCompacts(events) : i \in events[k].span <=> j \in events[k].span
  BY DEF PairsWhole, ActiveCompacts, At, IsCompact
<1>2. i \in Shadowed(events) <=> j \in Shadowed(events)
  BY <1>1 DEF Shadowed
<1> QED
  BY <1>2 DEF Visible, IsUse, IsResult

LEMMA SubLogReady ==
  ASSUME NEW events \in Seq(Event), CallsSound(events), NEW keep \in Nat
  PROVE  ProviderReady(SubLog(events, keep))
<1> DEFINE R == SafeRange(Older(events, keep), events)
           at == InOrder(R)
           n == Cardinality(R)
           items == ItemsAt(events, R)
           sub == SubLog(events, keep)
<1>1. Older(events, keep) \in SUBSET DOMAIN events
  BY OlderIs DEF Unreplaced
<1>2. /\ R \in SUBSET DOMAIN events
      /\ \A i \in R : events[i].type \in MessageTypes
      /\ \A u, j \in DOMAIN events : IsUse(events, u) /\ IsResult(events, j) /\ Same(events, u, j) =>
           (u \in R <=> j \in R)
      /\ \A u \in R : IsUse(events, u) => \E j \in R : IsResult(events, j) /\ Same(events, u, j)
  <2>1. /\ R \subseteq Older(events, keep) /\ Closed(events, R)
        /\ \A u \in R : IsUse(events, u) => \E j \in R : IsResult(events, j) /\ Same(events, u, j)
    BY <1>1, SafeRangeIs
  <2>2. \A i \in Older(events, keep) : events[i].type \in MessageTypes
    BY OlderIs DEF Unreplaced
  <2> HIDE DEF R
  <2> QED
    BY <1>1, <2>1, <2>2 DEF Closed
<1> HIDE DEF R
<1>3. R \in SUBSET Nat /\ IsFiniteSet(R)
  BY <1>2, FinitePositions
<1>4. /\ n \in Nat /\ DOMAIN at = 1 .. n
      /\ \A k \in 1 .. n : at[k] \in R
      /\ \A k, l \in 1 .. n : k < l => at[k] < at[l]
      /\ \A i \in R : \E k \in 1 .. n : at[k] = i
  BY <1>3, InOrderIs
<1>5. /\ DOMAIN items = 1 .. n /\ Len(items) = n
      /\ items \in Seq({events[i] : i \in R})
      /\ \A k \in 1 .. n : items[k] = events[at[k]]
  <2>1. DOMAIN items = 1 .. n /\ Len(items) = n
    BY <1>3, ItemsAtIs
  <2>2. items \in Seq({events[i] : i \in R})
    BY <1>3, ItemsAtIs
  <2>3. \A k \in 1 .. n : items[k] = events[at[k]]
    BY <1>3, ItemsAtIs
  <2> QED
    BY <2>1, <2>2, <2>3
<1>6. sub = items \o <<UserMessage>>
  BY DEF SubLog, R
<1> HIDE DEF at, n, items, sub
<1>7. \A i \in R : events[i] \in Event
  BY <1>2
<1>8. items \in Seq(Event) /\ UserMessage \in Event
  <2>1. {events[i] : i \in R} \subseteq Event
    BY <1>7
  <2> QED
    BY <1>5, <2>1, EventTypesOfMakers
<1>9. /\ sub \in Seq(Event) /\ DOMAIN sub = 1 .. n + 1
      /\ \A k \in 1 .. n : sub[k] = events[at[k]]
      /\ sub[n + 1] = UserMessage
  <2>1. /\ sub \in Seq(Event) /\ DOMAIN sub = 1 .. Len(items) + 1
        /\ \A k \in 1 .. Len(items) : sub[k] = items[k]
        /\ sub[Len(items) + 1] = UserMessage
    BY <1>6, <1>8, FollowedBy
  <2> QED
    BY <1>5, <2>1
<1>10. \A k \in 1 .. n : k \in DOMAIN sub
  BY <1>4, <1>9
<1>11. \A k \in DOMAIN sub : sub[k].type \in Call => k \in 1 .. n
  BY <1>4, <1>9, FieldsOfMakers DEF Call
<1>12. \A k \in 1 .. n : /\ IsUse(sub, k) <=> IsUse(events, at[k])
                         /\ IsResult(sub, k) <=> IsResult(events, at[k])
  BY <1>2, <1>4, <1>9, <1>10 DEF IsUse, IsResult
<1>13. \A k, l \in 1 .. n : at[k] = at[l] => k = l
  <2> SUFFICES ASSUME NEW k \in 1 .. n, NEW l \in 1 .. n, at[k] = at[l], k # l
               PROVE  FALSE
    OBVIOUS
  <2>1. k < l \/ l < k
    OBVIOUS
  <2>2. at[k] \in Nat /\ at[l] \in Nat
    BY <1>3, <1>4
  <2> QED
    BY <1>4, <2>1, <2>2
<1>14. \A k \in DOMAIN sub : IsUse(sub, k) \/ IsResult(sub, k) => k \in 1 .. n
  BY <1>11 DEF IsUse, IsResult, Call
<1>15. HaveIds(sub)
  BY <1>2, <1>4, <1>9, <1>11 DEF CallsSound, HaveIds
<1>16. UsedOnce(sub)
  BY <1>2, <1>4, <1>9, <1>12, <1>13, <1>14 DEF CallsSound, UsedOnce, Same
<1>17. AnsweredOnce(sub)
  BY <1>2, <1>4, <1>9, <1>12, <1>13, <1>14 DEF CallsSound, AnsweredOnce, Same
<1>18. AnsweredAfterUse(sub)
  <2> SUFFICES ASSUME NEW l \in DOMAIN sub, IsResult(sub, l)
               PROVE  \E k \in DOMAIN sub : k < l /\ IsUse(sub, k) /\ Same(sub, k, l)
    BY DEF AnsweredAfterUse
  <2>1. l \in 1 .. n /\ at[l] \in R /\ IsResult(events, at[l]) /\ at[l] \in DOMAIN events
    BY <1>2, <1>4, <1>12, <1>14
  <2>2. PICK u \in DOMAIN events : u < at[l] /\ IsUse(events, u) /\ Same(events, u, at[l])
    BY <2>1 DEF CallsSound, AnsweredAfterUse
  <2>3. u \in R
    BY <1>2, <2>1, <2>2
  <2>4. PICK k \in 1 .. n : at[k] = u
    BY <1>4, <2>3
  <2>5. k < l
    <3>1. k < l \/ k = l \/ l < k
      BY <2>1
    <3>2. at[k] \in Nat /\ at[l] \in Nat
      BY <1>3, <1>4, <2>1
    <3> QED
      BY <1>4, <2>1, <2>2, <2>4, <3>1, <3>2
  <2>6. IsUse(sub, k) /\ Same(sub, k, l)
    BY <1>9, <1>12, <2>1, <2>2, <2>4 DEF Same
  <2> QED
    BY <1>10, <2>5, <2>6
<1>19. CallsSound(sub)
  BY <1>15, <1>16, <1>17, <1>18 DEF CallsSound
<1>20. Pending(sub) = {}
  <2> SUFFICES ASSUME NEW k \in DOMAIN sub, IsUse(sub, k)
               PROVE  sub[k].id \in Ids(sub, "tool_result")
    BY DEF Pending, Ids, IdsAt, At, IsUse
  <2>1. k \in 1 .. n /\ at[k] \in R /\ IsUse(events, at[k])
    BY <1>4, <1>12, <1>14
  <2>2. PICK j \in R : IsResult(events, j) /\ Same(events, at[k], j)
    BY <1>2, <2>1
  <2>3. PICK l \in 1 .. n : at[l] = j
    BY <1>4
  <2>4. IsResult(sub, l) /\ sub[l].id = sub[k].id
    BY <1>9, <1>12, <2>1, <2>2, <2>3 DEF Same
  <2> QED
    BY <1>10, <2>4 DEF Ids, IdsAt, At, IsResult
<1>21. \A k \in DOMAIN sub : sub[k].type # "compact"
  <2>1. \A k \in 1 .. n : sub[k].type \in MessageTypes
    BY <1>2, <1>4, <1>9
  <2>2. sub[n + 1].type = "user_message"
    BY <1>9, FieldsOfMakers
  <2>3. \A k \in DOMAIN sub : k \in 1 .. n \/ k = n + 1
    BY <1>4, <1>9
  <2> QED
    BY <2>1, <2>2, <2>3 DEF MessageTypes
<1>22. PairsWhole(sub)
  BY <1>21 DEF PairsWhole, IsCompact
<1> QED
  BY <1>9, <1>19, <1>20, <1>22, NotSplit, ReadyUnlessSplit DEF sub

(* A sound session is refused by PrepareProviderCall only when MarkerTail   *)
(* is installed and has split a call from its result, and what SummaryTail  *)
(* sends for its summary is never refused (toolPairSafeRange, strategies.go;*)
(* integrity.go).                                                          *)
THEOREM OnlyMarkerTailIsRefused == CompactionSpec => []OnlyMarkerTailRefuses
<1>1. ASSUME CompactionTypeOK, CompactionInv
      PROVE  OnlyMarkerTailRefuses
  <2>1. log \in Seq(Event) /\ CallsSound(log) /\ (~MarkerTailInstalled => PairsWhole(log))
    BY <1>1 DEF CompactionTypeOK, CompactionInv, LogSound
  <2>2. ProviderReady(SubLog(log, strategies[hook].keep))
    <3>1. strategies \in StrategyLists /\ hook \in DOMAIN strategies
      BY <1>1 DEF CompactionTypeOK
    <3>2. strategies[hook] \in Strategies
      BY <3>1, StrategiesAre
    <3>3. strategies[hook].keep \in Nat
      BY <3>2 DEF Strategies
    <3> QED
      BY <2>1, <3>3, SubLogReady
  <2>3. ASSUME step = "refused"
        PROVE  MarkerTailInstalled /\ SplitPair(log)
    <3>1. Pending(log) = {} /\ ~ProviderReady(log)
      BY <1>1, <2>3 DEF CompactionInv
    <3>2. SplitPair(log)
      BY <2>1, <3>1, ReadyUnlessSplit
    <3> QED
      BY <2>1, <3>2, NotSplit
  <2> QED
    BY <2>2, <2>3 DEF OnlyMarkerTailRefuses, MarkerTailInstalled, Named
<1> QED
  BY <1>1, CompactionStaysSound, PTL

-----------------------------------------------------------------------------
(* What a request shows of a step: its calls, whose results follow them with *)
(* nothing else between.                                                   *)
AnsweredAt(items, p, q) == IsUse(items, p) /\ IsResult(items, q) /\ Same(items, p, q) /\ p < q

Unbroken(items, p, q) ==
  \A x \in DOMAIN items : p < x /\ x < q =>
    /\ IsUse(items, x) \/ IsResult(items, x)
    /\ IsUse(items, x) => \A y \in DOMAIN items : p < y /\ y < x => IsUse(items, y)

PairedItems(items) ==
  /\ DOMAIN items = 1 .. Len(items) /\ Len(items) \in Nat
  /\ UsedOnce(items) /\ AnsweredOnce(items)
  /\ \A p \in DOMAIN items : IsUse(items, p) => \E q \in DOMAIN items : AnsweredAt(items, p, q)
  /\ \A q \in DOMAIN items : IsResult(items, q) => \E p \in DOMAIN items : AnsweredAt(items, p, q)
  /\ \A p, q \in DOMAIN items : AnsweredAt(items, p, q) => Unbroken(items, p, q)

Assistant(items, x) == Role(items[x]) = "assistant"

(* A stretch of the assistant with all the calls of its step. *)
StepAt(items, s, e) ==
  /\ s \in DOMAIN items /\ e \in DOMAIN items /\ s <= e
  /\ \A x \in s .. e : Assistant(items, x)
  /\ ~IsUse(items, e + 1)
  /\ ~IsUse(items, s - 1) \/ ~IsUse(items, s)

IdsIn(items, s, e, type) == {items[x].id : x \in {y \in s .. e : items[y].type = type}}

LEMMA RolesOfCalls ==
  ASSUME NEW items, NEW x
  PROVE  /\ IsUse(items, x) => Assistant(items, x)
         /\ IsResult(items, x) => ~Assistant(items, x)
BY DEF IsUse, IsResult, Assistant, Role

LEMMA ResultsFollow ==
  ASSUME NEW items, PairedItems(items), NEW s, NEW e, StepAt(items, s, e),
         NEW p \in s .. e, NEW q \in DOMAIN items, AnsweredAt(items, p, q)
  PROVE  e < q /\ \A x \in e + 1 .. q : IsResult(items, x)
<1>1. /\ DOMAIN items = 1 .. Len(items) /\ Len(items) \in Nat
      /\ s \in 1 .. Len(items) /\ e \in 1 .. Len(items) /\ p \in Nat /\ s <= p /\ p <= e
      /\ q \in 1 .. Len(items) /\ p < q /\ IsResult(items, q)
  BY DEF PairedItems, StepAt, AnsweredAt
<1>2. Unbroken(items, p, q)
  BY <1>1 DEF PairedItems, AnsweredAt, IsUse
<1>3. e < q
  <2> SUFFICES ASSUME q <= e
               PROVE  FALSE
    BY <1>1
  <2>1. q \in s .. e
    BY <1>1
  <2> QED
    BY <1>1, <2>1, RolesOfCalls DEF StepAt
<1>4. ASSUME NEW x \in e + 1 .. q
      PROVE  IsResult(items, x)
  <2>1. x \in DOMAIN items /\ x \in Nat /\ e + 1 <= x /\ x <= q /\ p < x /\ e + 1 \in DOMAIN items
    BY <1>1, <1>3
  <2>2. CASE x = q
    BY <1>1, <2>2
  <2>3. CASE x # q
    <3>1. x < q
      BY <1>1, <2>1, <2>3
    <3>2. ~IsUse(items, e + 1)
      BY DEF StepAt
    <3>3. ~IsUse(items, x)
      <4> SUFFICES ASSUME IsUse(items, x)
                   PROVE  FALSE
        OBVIOUS
      <4>1. e + 1 # x /\ p < e + 1
        BY <1>1, <3>2
      <4>2. e + 1 < x
        BY <1>1, <2>1, <4>1
      <4>3. IsUse(items, e + 1)
        BY <1>2, <2>1, <3>1, <4>1, <4>2 DEF Unbroken
      <4> QED
        BY <3>2, <4>3
    <3> QED
      BY <1>2, <2>1, <3>1, <3>3 DEF Unbroken
  <2> QED
    BY <2>2, <2>3
<1> QED
  BY <1>3, <1>4

LEMMA NoCallBefore ==
  ASSUME NEW items, PairedItems(items), NEW s, NEW e, StepAt(items, s, e),
         NEW q \in DOMAIN items, IsResult(items, q), e < q, \A x \in e + 1 .. q : ~IsUse(items, x)
  PROVE  items[q].id \in IdsIn(items, s, e, "tool_use")
<1>1. PICK p \in DOMAIN items : AnsweredAt(items, p, q)
  BY DEF PairedItems
<1>2. /\ DOMAIN items = 1 .. Len(items) /\ Len(items) \in Nat
      /\ s \in 1 .. Len(items) /\ e \in 1 .. Len(items) /\ s <= e
      /\ p \in 1 .. Len(items) /\ p < q /\ IsUse(items, p) /\ q \in Nat
  BY <1>1 DEF PairedItems, StepAt, AnsweredAt
<1>3. p <= e
  <2> SUFFICES ASSUME e < p
               PROVE  FALSE
    BY <1>2
  <2>1. p \in e + 1 .. q
    BY <1>2
  <2> QED
    BY <1>2, <2>1
<1>4. s <= p
  <2> SUFFICES ASSUME p < s
               PROVE  FALSE
    BY <1>2
  <2>1. s < q /\ Unbroken(items, p, q)
    BY <1>1, <1>2 DEF PairedItems
  <2>2. Assistant(items, s)
    <3>1. s \in s .. e
      BY <1>2
    <3> QED
      BY <3>1 DEF StepAt
  <2>3. IsUse(items, s)
    BY <1>2, <2>1, <2>2, RolesOfCalls DEF Unbroken
  <2>4. s - 1 = p \/ p < s - 1
    BY <1>2
  <2>5. CASE s - 1 = p
    BY <1>2, <2>3, <2>5 DEF StepAt
  <2>6. CASE p < s - 1
    <3>1. s - 1 \in DOMAIN items /\ s - 1 < s
      BY <1>2, <2>6
    <3>2. IsUse(items, s - 1)
      BY <1>2, <2>1, <2>3, <2>6, <3>1 DEF Unbroken
    <3> QED
      BY <2>3, <3>2 DEF StepAt
  <2> QED
    BY <2>4, <2>5, <2>6
<1>5. p \in s .. e
  BY <1>2, <1>3, <1>4
<1>6. items[p].type = "tool_use" /\ items[p].id = items[q].id
  BY <1>1 DEF AnsweredAt, IsUse, Same
<1> QED
  BY <1>5, <1>6 DEF IdsIn

LEMMA IntervalIs ==
  ASSUME NEW e \in Int, NEW m \in Nat
  PROVE  IsFiniteSet(e + 1 .. e + m) /\ Cardinality(e + 1 .. e + m) = m
<1>1. PICK a, b : a = e + 1 /\ b = e + m
  OBVIOUS
<1>2. a \in Int /\ b \in Int
  BY <1>1
<1>3. IsFiniteSet(a .. b) /\ Cardinality(a .. b) = IF a > b THEN 0 ELSE b - a + 1
  BY <1>2, FS_Interval
<1>4. (IF a > b THEN 0 ELSE b - a + 1) = m
  BY <1>1
<1> QED
  BY <1>1, <1>3, <1>4

LEMMA IdsInIs ==
  ASSUME NEW items, NEW e \in Int, NEW m \in Nat, NEW type
  PROVE  /\ IsFiniteSet(IdsIn(items, e + 1, e + m, type))
         /\ Cardinality(IdsIn(items, e + 1, e + m, type)) \in Nat
         /\ Cardinality(IdsIn(items, e + 1, e + m, type)) <= m
<1> DEFINE D == e + 1 .. e + m
           A == {y \in D : items[y].type = type}
           T == IdsIn(items, e + 1, e + m, type)
           f == [x \in A |-> items[x].id]
<1>1. IsFiniteSet(D) /\ Cardinality(D) = m
  BY IntervalIs
<1>2. A \in SUBSET D
  OBVIOUS
<1>3. f \in Surjection(A, T)
  BY DEF Surjection, IdsIn
<1> HIDE DEF A, T, f, D
<1>4. IsFiniteSet(A) /\ Cardinality(A) <= m /\ Cardinality(A) \in Nat
  BY <1>1, <1>2, FS_Subset, FS_CardinalityType
<1>5. IsFiniteSet(T) /\ Cardinality(T) <= Cardinality(A)
  BY <1>3, <1>4, FS_Surjection
<1>6. Cardinality(T) \in Nat
  BY <1>5, FS_CardinalityType
<1> QED
  BY <1>4, <1>5, <1>6 DEF T

(* The results of a step, each of its calls answered once, come right after *)
(* it.                                                                     *)
LEMMA StepAnswered ==
  ASSUME NEW items, PairedItems(items), NEW s, NEW e, StepAt(items, s, e),
         NEW k, k = Cardinality(IdsIn(items, s, e, "tool_use"))
  PROVE  /\ k \in Nat
         /\ \A x \in 1 .. k : IsResult(items, e + x)
         /\ IdsIn(items, e + 1, e + k, "tool_result") = IdsIn(items, s, e, "tool_use")
<1> DEFINE U == IdsIn(items, s, e, "tool_use")
<1>1. /\ DOMAIN items = 1 .. Len(items) /\ Len(items) \in Nat
      /\ s \in 1 .. Len(items) /\ e \in 1 .. Len(items) /\ s <= e /\ s \in Int /\ e \in Int
  BY DEF PairedItems, StepAt
<1>2. IsFiniteSet(U) /\ k \in Nat
  <2>1. s - 1 \in Int /\ e - s + 1 \in Nat /\ (s - 1) + 1 = s /\ (s - 1) + (e - s + 1) = e
    BY <1>1
  <2>2. /\ IsFiniteSet(IdsIn(items, (s - 1) + 1, (s - 1) + (e - s + 1), "tool_use"))
        /\ Cardinality(IdsIn(items, (s - 1) + 1, (s - 1) + (e - s + 1), "tool_use")) \in Nat
    BY <2>1, IdsInIs
  <2> QED
    BY <2>1, <2>2
<1>3. ASSUME NEW x \in 1 .. k, ~IsResult(items, e + x)
      PROVE  FALSE
  <2>1. x \in Nat /\ 1 <= x /\ x <= k
    BY <1>2
  <2>2. ASSUME NEW u \in U
        PROVE  u \in IdsIn(items, e + 1, e + x - 1, "tool_result")
    <3>1. PICK p \in s .. e : items[p].type = "tool_use" /\ items[p].id = u
      BY DEF IdsIn
    <3>2. p \in DOMAIN items /\ IsUse(items, p)
      BY <1>1, <3>1 DEF IsUse
    <3>3. PICK q \in DOMAIN items : AnsweredAt(items, p, q)
      BY <3>2 DEF PairedItems
    <3>4. e < q /\ \A y \in e + 1 .. q : IsResult(items, y)
      BY <3>1, <3>3, ResultsFollow
    <3>5. q < e + x
      <4> SUFFICES ASSUME e + x <= q
                   PROVE  FALSE
        BY <1>1, <2>1
      <4>1. e + x \in e + 1 .. q
        BY <1>1, <2>1
      <4> QED
        BY <1>3, <3>4, <4>1
    <3>6. q \in e + 1 .. e + x - 1
      BY <1>1, <2>1, <3>4, <3>5
    <3>7. items[q].type = "tool_result" /\ items[q].id = u
      BY <3>1, <3>3 DEF AnsweredAt, IsResult, Same
    <3> QED
      BY <3>6, <3>7 DEF IdsIn
  <2>3. PICK m : m = x - 1
    OBVIOUS
  <2>4. m \in Nat /\ e + x - 1 = e + m /\ m < k
    BY <1>1, <1>2, <2>1, <2>3
  <2> DEFINE R == IdsIn(items, e + 1, e + m, "tool_result")
  <2>5. IsFiniteSet(R) /\ Cardinality(R) \in Nat /\ Cardinality(R) <= m
    BY <1>1, <2>4, IdsInIs
  <2>6. U \in SUBSET R
    BY <2>2, <2>4
  <2> HIDE DEF R
  <2>7. Cardinality(U) <= Cardinality(R)
    BY <2>5, <2>6, FS_Subset
  <2> QED
    BY <1>2, <2>4, <2>5, <2>7
<1>4. \A x \in 1 .. k : IsResult(items, e + x)
  BY <1>3
<1>5. \A y \in e + 1 .. e + k : IsResult(items, y)
  <2> SUFFICES ASSUME NEW y \in e + 1 .. e + k
               PROVE  IsResult(items, y)
    OBVIOUS
  <2>1. y - e \in 1 .. k /\ e + (y - e) = y
    BY <1>1, <1>2
  <2>2. IsResult(items, e + (y - e))
    BY <1>4, <2>1
  <2> QED
    BY <2>1, <2>2
<1> DEFINE R == IdsIn(items, e + 1, e + k, "tool_result")
<1>6. R \in SUBSET U
  <2> SUFFICES ASSUME NEW q \in e + 1 .. e + k
               PROVE  items[q].id \in U
    BY DEF IdsIn
  <2>1. IsResult(items, q) /\ e < q /\ q \in DOMAIN items
    BY <1>1, <1>2, <1>5 DEF IsResult
  <2>2. \A x \in e + 1 .. q : x \in e + 1 .. e + k
    BY <1>1, <1>2
  <2>3. \A x \in e + 1 .. q : ~IsUse(items, x)
    BY <1>5, <2>2, RolesOfCalls
  <2> QED
    BY <2>1, <2>3, NoCallBefore
<1>7. Cardinality(R) = k
  <2> DEFINE f == [q \in e + 1 .. e + k |-> items[q].id]
             D == e + 1 .. e + k
  <2>2. IsFiniteSet(D) /\ Cardinality(D) = k
    BY <1>1, <1>2, IntervalIs
  <2>3. \A q \in D : items[q].type = "tool_result" /\ q \in DOMAIN items
    BY <1>5 DEF IsResult
  <2>4. R = {items[q].id : q \in D}
    BY <2>3 DEF IdsIn
  <2>5. \A i, j \in D : f[i] = f[j] => i = j
    BY <1>5, <2>3 DEF PairedItems, AnsweredOnce, Same
  <2>6. f \in [D -> R] /\ \A t \in R : \E q \in D : f[q] = t
    BY <2>4
  <2> HIDE DEF f, D, R
  <2>7. f \in Bijection(D, R)
    BY <2>5, <2>6 DEF Bijection, Injection, Surjection, IsInjective
  <2>8. ExistsBijection(D, R)
    BY <2>7 DEF ExistsBijection
  <2> QED
    BY <2>2, <2>8, FS_Bijection
<1> HIDE DEF R, U
<1>8. Cardinality(R) = Cardinality(U)
  BY <1>7 DEF U
<1>9. R = U
  BY <1>2, <1>6, <1>8, FS_Subset
<1> QED
  BY <1>2, <1>4, <1>9 DEF R, U

LEMMA StepHas ==
  ASSUME NEW items, PairedItems(items), NEW s, NEW e, StepAt(items, s, e),
         IdsIn(items, s, e, "tool_use") # {}
  PROVE  Cardinality(IdsIn(items, s, e, "tool_use")) # 0
<1>1. s \in Int /\ e \in Int /\ s <= e
  BY DEF PairedItems, StepAt
<1>2. s - 1 \in Int /\ e - s + 1 \in Nat /\ (s - 1) + 1 = s /\ (s - 1) + (e - s + 1) = e
  BY <1>1
<1>3. IsFiniteSet(IdsIn(items, (s - 1) + 1, (s - 1) + (e - s + 1), "tool_use"))
  BY <1>2, IdsInIs
<1>4. IsFiniteSet(IdsIn(items, s, e, "tool_use"))
  BY <1>2, <1>3
<1> QED
  BY <1>4, FS_EmptySet

-----------------------------------------------------------------------------
(* The messages of a request, from the positions S at which one starts.      *)
Grouped(items, S) ==
  LET starts == InOrder(S)
      end(n) == IF n = Len(starts) THEN Len(items) ELSE starts[n + 1] - 1
  IN  [n \in DOMAIN starts |-> SubSeq(items, starts[n], end(n))]

FirstAt(S, n) == InOrder(S)[n]
LastAt(items, S, n) == IF n = Cardinality(S) THEN Len(items) ELSE FirstAt(S, n + 1) - 1

Part(items, S, n) ==
  /\ FirstAt(S, n) \in S /\ FirstAt(S, n) \in DOMAIN items
  /\ LastAt(items, S, n) \in DOMAIN items /\ FirstAt(S, n) <= LastAt(items, S, n)
  /\ \A x \in FirstAt(S, n) + 1 .. LastAt(items, S, n) : x \notin S
  /\ LastAt(items, S, n) + 1 \in DOMAIN items =>
       /\ n < Cardinality(S) /\ FirstAt(S, n + 1) = LastAt(items, S, n) + 1
       /\ LastAt(items, S, n) + 1 \in S
  /\ FirstAt(S, n) # 1 => n - 1 \in 1 .. Cardinality(S) /\ LastAt(items, S, n - 1) = FirstAt(S, n) - 1

LEMMA PartsAre ==
  ASSUME NEW items, DOMAIN items = 1 .. Len(items), Len(items) \in Nat,
         NEW S \in SUBSET DOMAIN items, DOMAIN items # {} => 1 \in S
  PROVE  /\ S \in SUBSET Nat /\ IsFiniteSet(S) /\ Cardinality(S) \in Nat
         /\ Len(Grouped(items, S)) = Cardinality(S)
         /\ DOMAIN Grouped(items, S) = 1 .. Cardinality(S)
         /\ \A n \in 1 .. Cardinality(S) :
              /\ Part(items, S, n)
              /\ Grouped(items, S)[n] = SubSeq(items, FirstAt(S, n), LastAt(items, S, n))
         /\ \A m, n \in 1 .. Cardinality(S) : m < n => LastAt(items, S, m) < FirstAt(S, n)
<1> DEFINE N == Cardinality(S)
           first(n) == FirstAt(S, n)
           last(n) == LastAt(items, S, n)
<1>1. S \in SUBSET Nat /\ IsFiniteSet(S)
  <2>1. 1 \in Int /\ Len(items) \in Int
    OBVIOUS
  <2>2. IsFiniteSet(1 .. Len(items))
    BY <2>1, FS_Interval
  <2>3. IsFiniteSet(S)
    BY <2>2, FS_Subset
  <2> QED
    BY <2>3
<1>2. /\ N \in Nat /\ DOMAIN InOrder(S) = 1 .. N /\ Len(InOrder(S)) = N
      /\ \A n \in 1 .. N : first(n) \in S
      /\ \A m, n \in 1 .. N : m < n => first(m) < first(n)
      /\ \A i \in S : \E n \in 1 .. N : first(n) = i
  BY <1>1, InOrderIs DEF FirstAt
<1>3. /\ Len(Grouped(items, S)) = N /\ DOMAIN Grouped(items, S) = 1 .. N
      /\ \A n \in 1 .. N : Grouped(items, S)[n] = SubSeq(items, first(n), last(n))
  <2>1. Grouped(items, S) = [n \in 1 .. N |-> SubSeq(items, first(n), last(n))]
    BY <1>2 DEF Grouped, FirstAt, LastAt
  <2> HIDE DEF first, last, N
  <2>2. DOMAIN Grouped(items, S) = 1 .. N
    BY <2>1
  <2>3. Len(Grouped(items, S)) = N
    BY <1>2, <2>1, <2>2, LenProperties
  <2>4. \A n \in 1 .. N : Grouped(items, S)[n] = SubSeq(items, first(n), last(n))
    BY <2>1
  <2> QED
    BY <2>2, <2>3, <2>4
<1>4. \A n : last(n) = IF n = N THEN Len(items) ELSE first(n + 1) - 1
  BY DEF LastAt
<1>5. \A n \in 1 .. N : first(n) \in 1 .. Len(items)
  BY <1>2
<1>6. \A n : Part(items, S, n) <=>
        /\ first(n) \in S /\ first(n) \in DOMAIN items
        /\ last(n) \in DOMAIN items /\ first(n) <= last(n)
        /\ \A x \in first(n) + 1 .. last(n) : x \notin S
        /\ last(n) + 1 \in DOMAIN items =>
             n < N /\ first(n + 1) = last(n) + 1 /\ last(n) + 1 \in S
        /\ first(n) # 1 => n - 1 \in 1 .. N /\ last(n - 1) = first(n) - 1
  BY DEF Part
<1> HIDE DEF N, first, last
<1>7. ASSUME NEW n \in 1 .. N
      PROVE  last(n) \in 1 .. Len(items) /\ first(n) <= last(n)
  <2>1. CASE n = N
    BY <1>4, <1>5, <2>1
  <2>2. CASE n # N
    <3>1. n + 1 \in 1 .. N /\ n < n + 1
      BY <1>2, <2>2
    <3>2. first(n) < first(n + 1)
      BY <1>2, <3>1
    <3>3. first(n) \in 1 .. Len(items) /\ first(n + 1) \in 1 .. Len(items)
      BY <1>5, <3>1
    <3> QED
      BY <1>4, <2>2, <3>2, <3>3
  <2> QED
    BY <2>1, <2>2
<1>8. ASSUME NEW m \in 1 .. N, NEW n \in 1 .. N, m < n
      PROVE  last(m) < first(n)
  <2>1. m # N /\ m + 1 \in 1 .. N
    BY <1>2, <1>8
  <2>2. m + 1 = n \/ m + 1 < n
    BY <1>8
  <2>3. first(m + 1) = first(n) \/ first(m + 1) < first(n)
    BY <1>2, <2>1, <2>2
  <2>4. first(m + 1) \in 1 .. Len(items) /\ first(n) \in 1 .. Len(items)
    BY <1>5, <2>1
  <2> QED
    BY <1>4, <2>1, <2>3, <2>4
<1>9. ASSUME NEW n \in 1 .. N, NEW x \in first(n) + 1 .. last(n)
      PROVE  x \notin S
  <2> SUFFICES ASSUME x \in S
               PROVE  FALSE
    OBVIOUS
  <2>1. PICK m \in 1 .. N : first(m) = x
    BY <1>2
  <2>2. first(n) \in 1 .. Len(items) /\ last(n) \in 1 .. Len(items) /\ first(n) < x /\ x <= last(n)
    BY <1>5, <1>7, <1>9
  <2>3. m < n \/ m = n \/ n < m
    BY <1>2
  <2>4. m < n => x < first(n)
    BY <1>2, <2>1
  <2>5. n < m => last(n) < x
    BY <1>8, <2>1
  <2>6. m = n => x = first(n)
    BY <2>1
  <2>7. x \in Nat
    BY <1>1
  <2> QED
    BY <2>2, <2>3, <2>4, <2>5, <2>6, <2>7
<1>10. ASSUME NEW n \in 1 .. N, last(n) + 1 \in DOMAIN items
       PROVE  n < N /\ first(n + 1) = last(n) + 1 /\ last(n) + 1 \in S
  <2>1. n # N
    BY <1>4, <1>10
  <2>2. n + 1 \in 1 .. N
    BY <1>2, <2>1
  <2>3. first(n + 1) \in 1 .. Len(items)
    BY <1>5, <2>2
  <2>4. last(n) = first(n + 1) - 1
    BY <1>4, <2>1
  <2>5. n < N
    BY <1>2, <2>1
  <2>6. first(n + 1) = last(n) + 1
    BY <2>3, <2>4
  <2>7. first(n + 1) \in S
    BY <1>2, <2>2
  <2> QED
    BY <2>5, <2>6, <2>7
<1>11. ASSUME NEW n \in 1 .. N, first(n) # 1
       PROVE  n - 1 \in 1 .. N /\ last(n - 1) = first(n) - 1
  <2>1. first(n) \in 1 .. Len(items)
    BY <1>5
  <2>2. 1 \in S
    BY <2>1
  <2>3. PICK m \in 1 .. N : first(m) = 1
    BY <1>2, <2>2
  <2>4. n # 1
    <3> SUFFICES ASSUME n = 1
                 PROVE  FALSE
      OBVIOUS
    <3>1. n < m
      BY <1>2, <1>11, <2>3
    <3>2. first(n) < 1
      BY <1>2, <2>3, <3>1
    <3> QED
      BY <2>1, <3>2
  <2>5. n - 1 \in 1 .. N /\ n - 1 # N /\ (n - 1) + 1 = n
    BY <1>2, <2>4
  <2> QED
    BY <1>4, <2>5
<1>12. \A n \in 1 .. N : Part(items, S, n)
  <2> SUFFICES ASSUME NEW n \in 1 .. N
               PROVE  Part(items, S, n)
    OBVIOUS
  <2>1. first(n) \in S /\ first(n) \in DOMAIN items /\ last(n) \in DOMAIN items /\ first(n) <= last(n)
    BY <1>2, <1>5, <1>7
  <2> QED
    BY <1>6, <1>9, <1>10, <1>11, <2>1
<1> QED
  BY <1>1, <1>2, <1>3, <1>8, <1>12 DEF N, first, last

LEMMA InSomePart ==
  ASSUME NEW items, DOMAIN items = 1 .. Len(items), Len(items) \in Nat,
         NEW S \in SUBSET DOMAIN items, DOMAIN items # {} => 1 \in S,
         NEW p \in DOMAIN items
  PROVE  \E n \in 1 .. Cardinality(S) : p \in FirstAt(S, n) .. LastAt(items, S, n)
<1> DEFINE N == Cardinality(S)
           T == {n \in 1 .. N : p <= LastAt(items, S, n)}
<1>1. /\ S \in SUBSET Nat /\ IsFiniteSet(S) /\ N \in Nat
      /\ \A n \in 1 .. N : Part(items, S, n)
  BY PartsAre
<1>2. N \in 1 .. N /\ LastAt(items, S, N) = Len(items)
  <2>1. 1 \in S
    OBVIOUS
  <2>2. N # 0
    BY <1>1, <2>1, FS_EmptySet
  <2> QED
    BY <1>1, <2>2 DEF LastAt
<1>3. N \in T /\ T \in SUBSET Nat
  BY <1>1, <1>2
<1>4. IsFiniteSet(T)
  <2>1. 0 \in Int /\ 0 + 1 = 1 /\ 0 + N = N
    BY <1>1
  <2>2. IsFiniteSet(1 .. N)
    BY <1>1, <2>1, IntervalIs
  <2>3. T \in SUBSET (1 .. N)
    OBVIOUS
  <2> QED
    BY <2>2, <2>3, FS_Subset
<1>5. PICK n \in T : \A m \in T : n <= m
  <2> HIDE DEF T
  <2> QED
    BY <1>3, <1>4, FirstOfIs
<1>6. n \in 1 .. N /\ p <= LastAt(items, S, n) /\ Part(items, S, n)
  BY <1>1, <1>5
<1>7. FirstAt(S, n) <= p
  <2> SUFFICES ASSUME ~(FirstAt(S, n) <= p)
               PROVE  FALSE
    OBVIOUS
  <2>1. FirstAt(S, n) \in 1 .. Len(items)
    BY <1>6 DEF Part
  <2>2. FirstAt(S, n) # 1
    BY <2>1
  <2>3. n - 1 \in 1 .. N /\ LastAt(items, S, n - 1) = FirstAt(S, n) - 1
    BY <1>6, <2>2 DEF Part
  <2>4. p <= LastAt(items, S, n - 1)
    BY <2>1, <2>3
  <2>5. n - 1 \in T
    BY <2>3, <2>4
  <2>6. n <= n - 1
    BY <1>5, <2>5
  <2> QED
    BY <1>1, <1>6, <2>6
<1>8. LastAt(items, S, n) \in 1 .. Len(items) /\ FirstAt(S, n) \in 1 .. Len(items)
  BY <1>6 DEF Part
<1>9. p \in FirstAt(S, n) .. LastAt(items, S, n)
  BY <1>6, <1>7, <1>8
<1> QED
  BY <1>6, <1>9

(* What a message carries. *)
Holds(message, items, a, b) ==
  /\ \A i \in 1 .. b - a + 1 : message[i] = items[a + i - 1]
  /\ \A type : Carried(message, type) = IdsIn(items, a, b, type)

LEMMA PartHolds ==
  ASSUME NEW I, NEW items \in Seq(I),
         NEW a \in DOMAIN items, NEW b \in DOMAIN items, a <= b,
         NEW message, message = SubSeq(items, a, b)
  PROVE  Holds(message, items, a, b)
<1>1. DOMAIN message = 1 .. b - a + 1 /\ \A i \in 1 .. b - a + 1 : message[i] = items[a + i - 1]
  <2>1. Len(items) \in Nat /\ a \in 1 .. Len(items) + 1 /\ b \in a - 1 .. Len(items)
    OBVIOUS
  <2>2. /\ SubSeq(items, a, b) \in Seq(I) /\ Len(SubSeq(items, a, b)) = b - a + 1
        /\ \A i \in 1 .. b - a + 1 : SubSeq(items, a, b)[i] = items[a + i - 1]
    BY <2>1, SubSeqProperties
  <2>3. DOMAIN SubSeq(items, a, b) = 1 .. b - a + 1
    BY <2>2
  <2> QED
    BY <2>2, <2>3
<1>2. ASSUME NEW type
      PROVE  Carried(message, type) = IdsIn(items, a, b, type)
  <2>1. ASSUME NEW c \in Carried(message, type)
        PROVE  c \in IdsIn(items, a, b, type)
    <3>1. PICK i \in DOMAIN message : message[i].type = type /\ message[i].id = c
      BY DEF Carried
    <3>2. i \in 1 .. b - a + 1 /\ message[i] = items[a + i - 1]
      BY <1>1
    <3>3. a + i - 1 \in a .. b
      BY <3>2
    <3> QED
      BY <3>1, <3>2, <3>3 DEF IdsIn
  <2>2. ASSUME NEW c \in IdsIn(items, a, b, type)
        PROVE  c \in Carried(message, type)
    <3>1. PICK x \in a .. b : items[x].type = type /\ items[x].id = c
      BY DEF IdsIn
    <3>2. PICK i : i = x - a + 1
      OBVIOUS
    <3>3. i \in 1 .. b - a + 1 /\ a + i - 1 = x
      <4>1. a \in Nat /\ b \in Nat /\ x \in Int /\ a <= x /\ x <= b
        OBVIOUS
      <4> QED
        BY <3>2, <4>1
    <3>4. message[i] = items[x] /\ i \in DOMAIN message
      BY <1>1, <3>3
    <3> QED
      BY <3>1, <3>4 DEF Carried
  <2> QED
    BY <2>1, <2>2
<1> QED
  BY <1>1, <1>2 DEF Holds

-----------------------------------------------------------------------------
(* Anthropic's messages of such items: one for each stretch of a role.       *)
RoleStarts(items) == {i \in DOMAIN items : i = 1 \/ Role(items[i - 1]) # Role(items[i])}

LEMMA AnthropicGrouped ==
  ASSUME NEW items
  PROVE  Messages(items, JoinsAnthropic) = Grouped(items, RoleStarts(items))
<1>1. {i \in DOMAIN items : i = 1 \/ ~JoinsAnthropic(items[i - 1], items[i])} = RoleStarts(items)
  BY DEF RoleStarts, JoinsAnthropic
<1> QED
  BY <1>1 DEF Messages, Select, Grouped

LEMMA OneRole ==
  ASSUME NEW items, DOMAIN items = 1 .. Len(items), Len(items) \in Nat,
         NEW n, Part(items, RoleStarts(items), n),
         NEW a, a = FirstAt(RoleStarts(items), n), NEW b, b = LastAt(items, RoleStarts(items), n)
  PROVE  \A x \in a .. b : Role(items[x]) = Role(items[a])
<1>1. /\ a \in 1 .. Len(items) /\ b \in 1 .. Len(items) /\ a <= b
      /\ \A x \in a + 1 .. b : x \notin RoleStarts(items)
  BY DEF Part
<1> DEFINE T == {x \in a .. b : Role(items[x]) # Role(items[a])}
<1> SUFFICES ASSUME T # {}
             PROVE  FALSE
  OBVIOUS
<1>2. T \in SUBSET Nat /\ IsFiniteSet(T)
  <2>1. T \in SUBSET (1 .. Len(items))
    BY <1>1
  <2>2. 0 \in Int /\ 0 + 1 = 1 /\ 0 + Len(items) = Len(items)
    OBVIOUS
  <2>3. IsFiniteSet(1 .. Len(items))
    BY <2>2, IntervalIs
  <2>4. 1 .. Len(items) \subseteq Nat
    OBVIOUS
  <2> HIDE DEF T
  <2>5. IsFiniteSet(T)
    BY <2>1, <2>3, FS_Subset
  <2>6. T \in SUBSET Nat
    BY <2>1, <2>4
  <2> QED
    BY <2>5, <2>6
<1>3. PICK x \in T : \A y \in T : x <= y
  <2> HIDE DEF T
  <2> QED
    BY <1>2, FirstOfIs
<1>4. x \in a .. b /\ Role(items[x]) # Role(items[a])
  BY <1>3
<1>5. x \in a + 1 .. b /\ x - 1 \in a .. b /\ x \in DOMAIN items /\ x # 1
  BY <1>1, <1>4
<1>6. Role(items[x - 1]) = Role(items[x])
  BY <1>1, <1>5 DEF RoleStarts
<1>7. x - 1 \in T
  BY <1>4, <1>5, <1>6
<1>8. x <= x - 1
  BY <1>3, <1>7
<1> QED
  BY <1>1, <1>4, <1>8

LEMMA CallsStand ==
  ASSUME NEW items, NEW s, NEW e, NEW type
  PROVE  IdsIn(items, s, e, type) # {} <=> \E x \in s .. e : items[x].type = type
BY DEF IdsIn

(* A message with calls is a stretch with all the calls of its step. *)
LEMMA RoleStep ==
  ASSUME NEW items, PairedItems(items), NEW n, Part(items, RoleStarts(items), n),
         NEW a, a = FirstAt(RoleStarts(items), n), NEW b, b = LastAt(items, RoleStarts(items), n),
         IdsIn(items, a, b, "tool_use") # {}
  PROVE  StepAt(items, a, b)
<1>1. /\ a \in 1 .. Len(items) /\ b \in 1 .. Len(items) /\ a <= b /\ a \in RoleStarts(items)
      /\ DOMAIN items = 1 .. Len(items) /\ Len(items) \in Nat
      /\ b + 1 \in DOMAIN items => b + 1 \in RoleStarts(items)
  BY DEF Part, PairedItems
<1>2. \A x \in a .. b : Role(items[x]) = Role(items[a])
  BY <1>1, OneRole
<1>3. PICK u \in a .. b : items[u].type = "tool_use"
  BY CallsStand
<1>4. \A x \in a .. b : Assistant(items, x)
  <2>1. Role(items[u]) = "assistant"
    BY <1>3 DEF Role
  <2> QED
    BY <1>2, <1>3, <2>1 DEF Assistant
<1>5. b \in a .. b /\ a \in a .. b
  BY <1>1
<1>6. ~IsUse(items, b + 1)
  <2> SUFFICES ASSUME IsUse(items, b + 1)
               PROVE  FALSE
    OBVIOUS
  <2>1. b + 1 \in RoleStarts(items) /\ (b + 1) - 1 = b /\ b + 1 # 1
    BY <1>1 DEF IsUse
  <2>2. Role(items[b]) # Role(items[b + 1])
    BY <2>1 DEF RoleStarts
  <2>3. Assistant(items, b) /\ Assistant(items, b + 1)
    BY <1>4, <1>5, RolesOfCalls
  <2> QED
    BY <2>2, <2>3 DEF Assistant
<1>7. ~IsUse(items, a - 1)
  <2> SUFFICES ASSUME IsUse(items, a - 1)
               PROVE  FALSE
    OBVIOUS
  <2>1. a - 1 \in 1 .. Len(items)
    BY <1>1 DEF IsUse
  <2>2. a # 1
    BY <1>1, <2>1
  <2>3. Role(items[a - 1]) # Role(items[a])
    BY <1>1, <2>2 DEF RoleStarts
  <2>4. Assistant(items, a) /\ Assistant(items, a - 1)
    BY <1>4, <1>5, RolesOfCalls
  <2> QED
    BY <2>3, <2>4 DEF Assistant
<1> QED
  BY <1>1, <1>4, <1>6, <1>7 DEF StepAt

(* The message after it starts with the results of its calls, and has no     *)
(* others.                                                                 *)
LEMMA ResultsNext ==
  ASSUME NEW items, PairedItems(items), NEW s, NEW e, StepAt(items, s, e),
         NEW k, k = Cardinality(IdsIn(items, s, e, "tool_use")), k # 0,
         NEW n, Part(items, RoleStarts(items), n),
         FirstAt(RoleStarts(items), n) = e + 1,
         NEW b, b = LastAt(items, RoleStarts(items), n)
  PROVE  /\ e + k <= b
         /\ IdsIn(items, e + 1, b, "tool_result") = IdsIn(items, s, e, "tool_use")
<1> DEFINE S == RoleStarts(items)
<1>1. /\ DOMAIN items = 1 .. Len(items) /\ Len(items) \in Nat
      /\ e \in 1 .. Len(items) /\ e + 1 \in 1 .. Len(items) /\ b \in 1 .. Len(items) /\ e + 1 <= b
  BY DEF Part, PairedItems, StepAt
<1>2. /\ k \in Nat /\ \A x \in 1 .. k : IsResult(items, e + x)
      /\ IdsIn(items, e + 1, e + k, "tool_result") = IdsIn(items, s, e, "tool_use")
  BY StepAnswered
<1>3. \A x \in e + 1 .. b : Role(items[x]) = Role(items[e + 1])
  BY <1>1, OneRole
<1>4. \A y \in e + 1 .. e + k : IsResult(items, y)
  <2> SUFFICES ASSUME NEW y \in e + 1 .. e + k
               PROVE  IsResult(items, y)
    OBVIOUS
  <2>1. y - e \in 1 .. k /\ e + (y - e) = y
    BY <1>1, <1>2
  <2>2. IsResult(items, e + (y - e))
    BY <1>2, <2>1
  <2> QED
    BY <2>1, <2>2
<1>5. \A x \in e + 1 .. b : ~Assistant(items, x)
  <2>1. e + 1 \in e + 1 .. e + k
    BY <1>1, <1>2
  <2>2. ~Assistant(items, e + 1)
    BY <1>4, <2>1, RolesOfCalls
  <2> QED
    BY <1>3, <2>2 DEF Assistant
<1>6. e + k <= b
  <2> SUFFICES ASSUME b < e + k
               PROVE  FALSE
    BY <1>1, <1>2
  <2>1. b + 1 \in e + 1 .. e + k /\ b \in e + 1 .. b /\ (b + 1) - 1 = b /\ b + 1 # 1
    BY <1>1, <1>2
  <2>2. IsResult(items, b + 1)
    BY <1>4, <2>1
  <2>3. b + 1 \in RoleStarts(items)
    BY <2>2 DEF IsResult, Part
  <2>4. Role(items[b]) # Role(items[b + 1])
    BY <2>1, <2>3 DEF RoleStarts
  <2>5. ~Assistant(items, b) /\ ~Assistant(items, b + 1)
    BY <1>5, <2>1, <2>2, RolesOfCalls
  <2> QED
    BY <2>4, <2>5 DEF Assistant, Role
<1>7. ASSUME NEW c \in IdsIn(items, e + 1, b, "tool_result")
      PROVE  c \in IdsIn(items, s, e, "tool_use")
  <2>1. PICK q \in e + 1 .. b : items[q].type = "tool_result" /\ items[q].id = c
    BY DEF IdsIn
  <2>2. q \in DOMAIN items /\ IsResult(items, q) /\ e < q
    BY <1>1, <2>1 DEF IsResult
  <2>3. \A x \in e + 1 .. q : x \in e + 1 .. b
    BY <1>1, <2>1
  <2>4. \A x \in e + 1 .. q : ~IsUse(items, x)
    BY <1>5, <2>3, RolesOfCalls
  <2> QED
    BY <2>1, <2>2, <2>4, NoCallBefore
<1>8. ASSUME NEW c \in IdsIn(items, e + 1, e + k, "tool_result")
      PROVE  c \in IdsIn(items, e + 1, b, "tool_result")
  <2>1. PICK q \in e + 1 .. e + k : items[q].type = "tool_result" /\ items[q].id = c
    BY DEF IdsIn
  <2>2. q \in e + 1 .. b
    BY <1>1, <1>2, <1>6, <2>1
  <2> QED
    BY <2>1, <2>2 DEF IdsIn
<1> QED
  BY <1>2, <1>6, <1>7, <1>8

(* A message with results has the calls of a step before it. *)
LEMMA CallsBefore ==
  ASSUME NEW items, PairedItems(items), NEW n, Part(items, RoleStarts(items), n),
         NEW a, a = FirstAt(RoleStarts(items), n), NEW b, b = LastAt(items, RoleStarts(items), n),
         IdsIn(items, a, b, "tool_result") # {}
  PROVE  a # 1 /\ IsUse(items, a - 1)
<1>1. /\ DOMAIN items = 1 .. Len(items) /\ Len(items) \in Nat
      /\ a \in 1 .. Len(items) /\ b \in 1 .. Len(items) /\ a <= b /\ a \in RoleStarts(items)
  BY DEF Part, PairedItems
<1>2. \A x \in a .. b : Role(items[x]) = Role(items[a])
  BY <1>1, OneRole
<1>3. PICK q \in a .. b : items[q].type = "tool_result"
  BY CallsStand
<1>4. IsResult(items, q) /\ q \in DOMAIN items
  BY <1>1, <1>3 DEF IsResult
<1>5. \A x \in a .. b : ~Assistant(items, x)
  BY <1>2, <1>4, RolesOfCalls DEF Assistant
<1>6. PICK p \in DOMAIN items : AnsweredAt(items, p, q)
  BY <1>4 DEF PairedItems
<1>7. p < q /\ IsUse(items, p) /\ p \in 1 .. Len(items) /\ Unbroken(items, p, q)
  BY <1>1, <1>4, <1>6 DEF AnsweredAt, PairedItems
<1>8. p < a
  <2> SUFFICES ASSUME a <= p
               PROVE  FALSE
    BY <1>1, <1>7
  <2>1. p \in a .. b
    BY <1>1, <1>7
  <2> QED
    BY <1>5, <1>7, <2>1, RolesOfCalls
<1>9. a # 1 /\ a - 1 \in DOMAIN items /\ (p = a - 1 \/ p < a - 1) /\ a - 1 < q
  BY <1>1, <1>7, <1>8
<1>10. Assistant(items, a - 1)
  <2>1. Role(items[a - 1]) # Role(items[a])
    BY <1>1, <1>9 DEF RoleStarts
  <2>2. a \in a .. b
    BY <1>1
  <2>3. ~Assistant(items, a)
    BY <1>5, <2>2
  <2> QED
    BY <2>1, <2>3 DEF Assistant, Role
<1>11. IsUse(items, a - 1)
  <2>1. p < a - 1 => IsUse(items, a - 1) \/ IsResult(items, a - 1)
    BY <1>7, <1>9 DEF Unbroken
  <2> QED
    BY <1>7, <1>9, <1>10, <2>1, RolesOfCalls
<1> QED
  BY <1>9, <1>11

LEMMA AnthropicPaired ==
  ASSUME NEW I, NEW items \in Seq(I), PairedItems(items)
  PROVE  AnthropicAccepts(Messages(items, JoinsAnthropic))
<1> DEFINE S == RoleStarts(items)
           N == Cardinality(S)
           messages == Grouped(items, S)
           a(n) == FirstAt(S, n)
           b(n) == LastAt(items, S, n)
<1>1. DOMAIN items = 1 .. Len(items) /\ Len(items) \in Nat
  BY DEF PairedItems
<1>2. S \in SUBSET DOMAIN items /\ (DOMAIN items # {} => 1 \in S)
  BY <1>1 DEF RoleStarts
<1>3. /\ N \in Nat /\ Len(messages) = N /\ DOMAIN messages = 1 .. N
      /\ \A n \in 1 .. N : Part(items, S, n) /\ messages[n] = SubSeq(items, a(n), b(n))
  BY <1>1, <1>2, PartsAre
<1> HIDE DEF messages
<1>4. ASSUME NEW n \in 1 .. N
      PROVE  /\ a(n) \in 1 .. Len(items) /\ b(n) \in 1 .. Len(items) /\ a(n) <= b(n)
             /\ \A type : Carried(messages[n], type) = IdsIn(items, a(n), b(n), type)
             /\ \A i \in 1 .. b(n) - a(n) + 1 : messages[n][i] = items[a(n) + i - 1]
  <2>1. a(n) \in 1 .. Len(items) /\ b(n) \in 1 .. Len(items) /\ a(n) <= b(n)
    BY <1>1, <1>3 DEF Part
  <2>2. messages[n] = SubSeq(items, a(n), b(n)) /\ a(n) \in DOMAIN items /\ b(n) \in DOMAIN items
    BY <1>1, <1>3, <2>1
  <2>3. PICK s, e, message : s = a(n) /\ e = b(n) /\ message = messages[n]
    OBVIOUS
  <2>4. s \in DOMAIN items /\ e \in DOMAIN items /\ s <= e /\ message = SubSeq(items, s, e)
    BY <2>1, <2>2, <2>3
  <2>5. Holds(message, items, s, e)
    BY <2>4, PartHolds
  <2> QED
    BY <2>1, <2>3, <2>5 DEF Holds
<1>5. ASSUME NEW n \in 1 .. N, Carried(messages[n], "tool_use") # {}
      PROVE  /\ n < N /\ Carried(messages[n], "tool_use") = Carried(messages[n + 1], "tool_result")
             /\ \A i \in 1 .. Cardinality(Carried(messages[n], "tool_use")) :
                  messages[n + 1][i].type = "tool_result"
  <2>1. PICK s, e : s = a(n) /\ e = b(n)
    OBVIOUS
  <2>2. PICK k : k = Cardinality(IdsIn(items, s, e, "tool_use"))
    OBVIOUS
  <2>3. Carried(messages[n], "tool_use") = IdsIn(items, s, e, "tool_use") /\ IdsIn(items, s, e, "tool_use") # {}
    BY <1>4, <1>5, <2>1
  <2>4. StepAt(items, s, e)
    BY <1>3, <2>1, <2>3, RoleStep
  <2>5. k \in Nat /\ k # 0 /\ \A x \in 1 .. k : IsResult(items, e + x)
    <3>1. k \in Nat /\ \A x \in 1 .. k : IsResult(items, e + x)
      BY <2>2, <2>4, StepAnswered
    <3>2. k # 0
      BY <2>2, <2>3, <2>4, StepHas
    <3> QED
      BY <3>1, <3>2
  <2>6. e + 1 \in DOMAIN items
    BY <2>5 DEF IsResult
  <2>7. n < N /\ a(n + 1) = e + 1
    BY <1>3, <2>1, <2>6 DEF Part
  <2>8. n + 1 \in 1 .. N
    BY <1>3, <2>7
  <2>9. PICK t : t = b(n + 1)
    OBVIOUS
  <2>10. /\ e + k <= t
         /\ IdsIn(items, e + 1, t, "tool_result") = IdsIn(items, s, e, "tool_use")
    BY <1>3, <2>2, <2>4, <2>5, <2>7, <2>8, <2>9, ResultsNext
  <2>11. Carried(messages[n + 1], "tool_result") = IdsIn(items, e + 1, t, "tool_result")
    BY <1>4, <2>7, <2>8, <2>9
  <2>12. ASSUME NEW i \in 1 .. k
         PROVE  messages[n + 1][i].type = "tool_result"
    <3>1. e \in Nat /\ t \in Nat
      BY <1>4, <2>1, <2>8, <2>9
    <3>2. i \in 1 .. t - (e + 1) + 1 /\ (e + 1) + i - 1 = e + i
      BY <2>5, <2>10, <3>1
    <3>3. messages[n + 1][i] = items[e + i]
      BY <1>4, <2>7, <2>8, <2>9, <3>2
    <3> QED
      BY <2>5, <3>3 DEF IsResult
  <2> QED
    BY <2>2, <2>3, <2>7, <2>10, <2>11, <2>12
<1>6. ASSUME NEW n \in 1 .. N, Carried(messages[n], "tool_result") # {}
      PROVE  n > 1 /\ Carried(messages[n - 1], "tool_use") # {}
  <2>1. PICK s, e : s = a(n) /\ e = b(n)
    OBVIOUS
  <2>2. IdsIn(items, s, e, "tool_result") # {}
    BY <1>4, <1>6, <2>1
  <2>3. s # 1 /\ IsUse(items, s - 1)
    BY <1>3, <2>1, <2>2, CallsBefore
  <2>4. n - 1 \in 1 .. N /\ b(n - 1) = s - 1
    BY <1>3, <2>1, <2>3 DEF Part
  <2>5. a(n - 1) \in Nat /\ b(n - 1) \in Nat /\ a(n - 1) <= b(n - 1)
    BY <1>4, <2>4
  <2>6. s - 1 \in a(n - 1) .. b(n - 1) /\ items[s - 1].type = "tool_use"
    BY <2>3, <2>4, <2>5 DEF IsUse
  <2>7. IdsIn(items, a(n - 1), b(n - 1), "tool_use") # {}
    BY <2>6, CallsStand
  <2>8. Carried(messages[n - 1], "tool_use") # {}
    BY <1>4, <2>4, <2>7
  <2>9. n > 1
    BY <1>3, <2>4
  <2> QED
    BY <2>8, <2>9
<1>7. AnthropicAccepts(messages)
  BY <1>3, <1>5, <1>6 DEF AnthropicAccepts
<1> QED
  BY <1>7, AnthropicGrouped DEF messages

-----------------------------------------------------------------------------
(* OpenAI's and Gemini's: calls join the assistant's message before them.    *)
JoinStarts(items) ==
  {i \in DOMAIN items : i = 1 \/ ~(items[i].type = "tool_use" /\ Role(items[i - 1]) = "assistant")}

LEMMA AssistantGrouped ==
  ASSUME NEW items
  PROVE  Messages(items, JoinsAssistant) = Grouped(items, JoinStarts(items))
<1>1. {i \in DOMAIN items : i = 1 \/ ~JoinsAssistant(items[i - 1], items[i])} = JoinStarts(items)
  BY DEF JoinStarts, JoinsAssistant
<1> QED
  BY <1>1 DEF Messages, Select, Grouped

LEMMA JoinStep ==
  ASSUME NEW items, PairedItems(items), NEW n, Part(items, JoinStarts(items), n),
         NEW a, a = FirstAt(JoinStarts(items), n), NEW b, b = LastAt(items, JoinStarts(items), n),
         IdsIn(items, a, b, "tool_use") # {}
  PROVE  StepAt(items, a, b)
<1>1. /\ a \in 1 .. Len(items) /\ b \in 1 .. Len(items) /\ a <= b /\ a \in JoinStarts(items)
      /\ DOMAIN items = 1 .. Len(items) /\ Len(items) \in Nat
      /\ \A x \in a + 1 .. b : x \notin JoinStarts(items)
      /\ b + 1 \in DOMAIN items => b + 1 \in JoinStarts(items)
  BY DEF Part, PairedItems
<1>2. \A x \in a + 1 .. b : IsUse(items, x) /\ Assistant(items, x - 1)
  BY <1>1 DEF JoinStarts, IsUse, Assistant
<1>3. ASSUME NEW x \in a .. b
      PROVE  Assistant(items, x)
  <2>1. CASE a < x
    <3>1. x \in a + 1 .. b
      BY <1>1, <2>1
    <3> QED
      BY <1>2, <3>1, RolesOfCalls
  <2>2. CASE x = a /\ a < b
    <3>1. a + 1 \in a + 1 .. b /\ (a + 1) - 1 = a
      BY <1>1, <2>2
    <3>2. Assistant(items, (a + 1) - 1)
      BY <1>2, <3>1
    <3> QED
      BY <2>2, <3>1, <3>2
  <2>3. CASE x = a /\ a = b
    <3>1. PICK u \in a .. b : items[u].type = "tool_use"
      BY CallsStand
    <3>2. u = a
      BY <1>1, <2>3
    <3> QED
      BY <2>3, <3>1, <3>2 DEF Assistant, Role
  <2>4. x = a \/ a < x
    BY <1>1
  <2>5. a = b \/ a < b
    BY <1>1
  <2> QED
    BY <2>1, <2>2, <2>3, <2>4, <2>5
<1>4. b \in a .. b /\ a \in a .. b
  BY <1>1
<1>5. ~IsUse(items, b + 1)
  <2> SUFFICES ASSUME IsUse(items, b + 1)
               PROVE  FALSE
    OBVIOUS
  <2>1. b + 1 \in JoinStarts(items) /\ (b + 1) - 1 = b /\ b + 1 # 1 /\ items[b + 1].type = "tool_use"
    BY <1>1 DEF IsUse
  <2>2. Role(items[b]) # "assistant"
    BY <2>1 DEF JoinStarts
  <2> QED
    BY <1>3, <1>4, <2>2 DEF Assistant
<1>6. ~IsUse(items, a - 1) \/ ~IsUse(items, a)
  <2> SUFFICES ASSUME IsUse(items, a - 1), IsUse(items, a)
               PROVE  FALSE
    OBVIOUS
  <2>1. a - 1 \in 1 .. Len(items)
    BY <1>1 DEF IsUse
  <2>2. a # 1
    BY <1>1, <2>1
  <2>3. Role(items[a - 1]) # "assistant"
    BY <1>1, <2>2 DEF JoinStarts, IsUse
  <2>4. Assistant(items, a - 1)
    BY RolesOfCalls
  <2> QED
    BY <2>3, <2>4 DEF Assistant
<1> QED
  BY <1>1, <1>3, <1>5, <1>6 DEF StepAt

(* Neighbours of a set are neighbours in its order. *)
LEMMA NthIs ==
  ASSUME NEW S \in SUBSET Nat, IsFiniteSet(S), NEW n \in 1 .. Cardinality(S)
  PROVE  InOrder(S)[n] \in S /\ Below(S, InOrder(S)[n]) = n - 1
<1>1. \E i \in S : Below(S, i) = n - 1
  BY SomeNth
<1>2. InOrder(S)[n] = CHOOSE i \in S : Below(S, i) = n - 1
  BY DEF InOrder, Below
<1> QED
  BY <1>1, <1>2

Filled(S, e, k) == \A y \in e + 1 .. e + k : y \in S

LEMMA NextTo ==
  ASSUME NEW S \in SUBSET Nat, IsFiniteSet(S), NEW n \in 1 .. Cardinality(S),
         NEW e \in Nat, FirstAt(S, n) = e + 1,
         NEW k \in Nat, Filled(S, e, k), NEW x \in 1 .. k
  PROVE  n + x - 1 \in 1 .. Cardinality(S) /\ FirstAt(S, n + x - 1) = e + x
<1>0. \A y \in e + 1 .. e + k : y \in S
  BY DEF Filled
<1> DEFINE A == {j \in S : j < e + 1}
           B == {j \in S : j < e + x}
           m == x - 1
           D == e + 1 .. e + m
<1>1. m \in Nat /\ e + x \in S /\ e + x = e + m + 1 /\ Cardinality(S) \in Nat
  <2>1. e + x \in e + 1 .. e + k
    OBVIOUS
  <2> QED
    BY <1>0, <2>1, FS_CardinalityType
<1>2. IsFiniteSet(A) /\ Cardinality(A) = n - 1 /\ Cardinality(A) \in Nat
  <2>1. Below(S, e + 1) = n - 1
    BY NthIs DEF FirstAt
  <2>2. A \in SUBSET S
    OBVIOUS
  <2>3. Cardinality(A) = Below(S, e + 1)
    BY DEF Below
  <2> HIDE DEF A
  <2> QED
    BY <2>1, <2>2, <2>3, FS_Subset, FS_CardinalityType
<1>3. IsFiniteSet(D) /\ Cardinality(D) = m
  <2>1. e \in Int
    OBVIOUS
  <2> HIDE DEF m
  <2> QED
    BY <1>1, <2>1, IntervalIs
<1>4. B = A \cup D /\ A \cap D = {}
  <2>1. \A j \in D : j \in S /\ e + 1 <= j /\ j < e + x /\ j \in Nat
    BY <1>0
  <2>2. \A j \in S : j < e + x => j < e + 1 \/ j \in D
    OBVIOUS
  <2>3. \A j \in S : j < e + 1 => j < e + x
    OBVIOUS
  <2>4. \A j \in D : ~(j < e + 1)
    BY <2>1
  <2> QED
    BY <2>1, <2>2, <2>3, <2>4
<1>5. Cardinality(B) = n - 1 + m
  <2> HIDE DEF A, B, D, m
  <2>1. Cardinality(A \cup D) = Cardinality(A) + Cardinality(D) - Cardinality(A \cap D)
    BY <1>2, <1>3, FS_Union
  <2>2. Cardinality(A \cap D) = 0
    BY <1>4, FS_EmptySet
  <2> QED
    BY <1>1, <1>2, <1>3, <1>4, <2>1, <2>2
<1>6. Below(S, e + x) = n - 1 + m
  BY <1>5 DEF Below
<1>7. PICK l \in 1 .. Cardinality(S) : InOrder(S)[l] = e + x
  BY <1>1, InOrderIs
<1>8. Below(S, e + x) = l - 1
  BY <1>7, NthIs
<1>9. l = n + x - 1
  BY <1>1, <1>6, <1>8
<1> QED
  BY <1>7, <1>9 DEF FirstAt

LEMMA JoinedPaired ==
  ASSUME NEW I, NEW items \in Seq(I), PairedItems(items)
  PROVE  OpenAIAccepts(Messages(items, JoinsAssistant)) /\ GeminiAccepts(Messages(items, JoinsAssistant))
<1> DEFINE S == JoinStarts(items)
           N == Cardinality(S)
           messages == Grouped(items, S)
           a(n) == FirstAt(S, n)
           b(n) == LastAt(items, S, n)
<1>1. DOMAIN items = 1 .. Len(items) /\ Len(items) \in Nat
  BY DEF PairedItems
<1>2. S \in SUBSET DOMAIN items /\ (DOMAIN items # {} => 1 \in S)
  BY <1>1 DEF JoinStarts
<1>3. /\ N \in Nat /\ DOMAIN messages = 1 .. N /\ S \in SUBSET Nat /\ IsFiniteSet(S)
      /\ \A n \in 1 .. N : Part(items, S, n) /\ messages[n] = SubSeq(items, a(n), b(n))
      /\ \A m, n \in 1 .. N : m < n => b(m) < a(n)
  BY <1>1, <1>2, PartsAre
<1> HIDE DEF messages
<1>4. ASSUME NEW n \in 1 .. N
      PROVE  /\ a(n) \in 1 .. Len(items) /\ b(n) \in 1 .. Len(items) /\ a(n) <= b(n)
             /\ \A type : Carried(messages[n], type) = IdsIn(items, a(n), b(n), type)
  <2>1. a(n) \in 1 .. Len(items) /\ b(n) \in 1 .. Len(items) /\ a(n) <= b(n)
    BY <1>1, <1>3 DEF Part
  <2>2. messages[n] = SubSeq(items, a(n), b(n)) /\ a(n) \in DOMAIN items /\ b(n) \in DOMAIN items
    BY <1>1, <1>3, <2>1
  <2>3. PICK s, e, message : s = a(n) /\ e = b(n) /\ message = messages[n]
    OBVIOUS
  <2>4. s \in DOMAIN items /\ e \in DOMAIN items /\ s <= e /\ message = SubSeq(items, s, e)
    BY <2>1, <2>2, <2>3
  <2>5. Holds(message, items, s, e)
    BY <2>4, PartHolds
  <2> QED
    BY <2>1, <2>3, <2>5 DEF Holds
<1>5. ASSUME NEW n \in 1 .. N, NEW k, k = Cardinality(Carried(messages[n], "tool_use"))
      PROVE  /\ n + 1 .. n + k \subseteq 1 .. N
             /\ Carried(messages[n], "tool_use")
                  = UNION {Carried(messages[l], "tool_result") : l \in n + 1 .. n + k}
  <2>1. PICK s, e : s = a(n) /\ e = b(n)
    OBVIOUS
  <2>2. Carried(messages[n], "tool_use") = IdsIn(items, s, e, "tool_use")
    BY <1>4, <2>1
  <2>3. CASE IdsIn(items, s, e, "tool_use") = {}
    <3>1. k = 0
      BY <1>5, <2>2, <2>3, FS_EmptySet
    <3>2. n + 1 .. n + k = {}
      BY <1>3, <3>1
    <3> QED
      BY <2>2, <2>3, <3>2
  <2>4. CASE IdsIn(items, s, e, "tool_use") # {}
    <3>1. StepAt(items, s, e)
      BY <1>3, <2>1, <2>4, JoinStep
    <3>2. k = Cardinality(IdsIn(items, s, e, "tool_use"))
      BY <1>5, <2>2
    <3>3. /\ k \in Nat /\ \A x \in 1 .. k : IsResult(items, e + x)
          /\ IdsIn(items, e + 1, e + k, "tool_result") = IdsIn(items, s, e, "tool_use")
      BY <3>1, <3>2, StepAnswered
    <3>4. k # 0 /\ e \in Nat /\ n \in Nat /\ e \in 1 .. Len(items)
      BY <1>4, <2>1, <2>4, <3>1, <3>2, StepHas
    <3>5. \A y \in e + 1 .. e + k : IsResult(items, y) /\ y \in S
      <4> SUFFICES ASSUME NEW y \in e + 1 .. e + k
                   PROVE  IsResult(items, y) /\ y \in S
        OBVIOUS
      <4>1. y - e \in 1 .. k /\ e + (y - e) = y
        BY <3>3, <3>4
      <4>2. IsResult(items, e + (y - e))
        BY <3>3, <4>1
      <4>3. IsResult(items, y)
        BY <4>1, <4>2
      <4> QED
        BY <4>3 DEF IsResult, JoinStarts
    <3>6. e + 1 \in DOMAIN items
      <4>1. e + 1 \in e + 1 .. e + k
        BY <3>3, <3>4
      <4> QED
        BY <3>5, <4>1 DEF IsResult
    <3>7. n + 1 \in 1 .. N /\ FirstAt(S, n + 1) = e + 1
      <4>1. n < N /\ FirstAt(S, n + 1) = e + 1
        BY <1>3, <2>1, <3>6 DEF Part
      <4> QED
        BY <1>3, <4>1
    <3>8. ASSUME NEW x \in 1 .. k
          PROVE  n + x \in 1 .. N /\ a(n + x) = e + x /\ b(n + x) = e + x
      <4>0. PICK m : m = n + 1
        OBVIOUS
      <4>1. m + x - 1 \in 1 .. N /\ FirstAt(S, m + x - 1) = e + x
        <5>1. m \in 1 .. Cardinality(S) /\ FirstAt(S, m) = e + 1 /\ Filled(S, e, k)
          BY <3>5, <3>7, <4>0 DEF Filled
        <5>2. S \in SUBSET Nat /\ IsFiniteSet(S)
          BY <1>3
        <5> HIDE DEF S
        <5> QED
          BY <3>3, <3>4, <5>1, <5>2, NextTo
      <4>2. m + x - 1 = n + x
        BY <3>4, <4>0
      <4>3. n + x \in 1 .. N /\ a(n + x) = e + x
        BY <4>1, <4>2
      <4>4. PICK t : t = b(n + x)
        OBVIOUS
      <4>5. t \in 1 .. Len(items) /\ e + x <= t
        BY <1>4, <4>3, <4>4
      <4>6. \A y \in e + x + 1 .. t : y \notin S
        BY <1>3, <4>3, <4>4 DEF Part
      <4>7. ~(e + x < t)
        <5> SUFFICES ASSUME e + x < t
                     PROVE  FALSE
          OBVIOUS
        <5>1. e + x + 1 \in e + x + 1 .. t /\ e + x + 1 \in DOMAIN items /\ (e + x + 1) - 1 = e + x
          BY <1>1, <3>3, <3>4, <4>5
        <5>2. e + x + 1 \notin S
          BY <4>6, <5>1
        <5>3. Role(items[(e + x + 1) - 1]) = "assistant"
          BY <5>1, <5>2 DEF JoinStarts
        <5>4. IsResult(items, e + x)
          BY <3>3
        <5> QED
          BY <5>1, <5>3, <5>4, RolesOfCalls DEF Assistant
      <4>8. t = e + x
        BY <3>3, <3>4, <4>5, <4>7
      <4> QED
        BY <4>3, <4>4, <4>8
    <3>9. n + 1 .. n + k \subseteq 1 .. N
      <4> SUFFICES ASSUME NEW l \in n + 1 .. n + k
                   PROVE  l \in 1 .. N
        OBVIOUS
      <4>1. l - n \in 1 .. k /\ n + (l - n) = l
        BY <3>3, <3>4
      <4> QED
        BY <3>8, <4>1
    <3>10. ASSUME NEW x \in 1 .. k
           PROVE  Carried(messages[n + x], "tool_result") = {items[e + x].id}
      <4>1. Carried(messages[n + x], "tool_result") = IdsIn(items, e + x, e + x, "tool_result")
        BY <1>4, <3>8
      <4>2. e + x .. e + x = {e + x} /\ items[e + x].type = "tool_result"
        BY <3>3, <3>4 DEF IsResult
      <4> QED
        BY <4>1, <4>2 DEF IdsIn
    <3> DEFINE union == UNION {Carried(messages[l], "tool_result") : l \in n + 1 .. n + k}
    <3>11. ASSUME NEW c \in union
           PROVE  c \in IdsIn(items, e + 1, e + k, "tool_result")
      <4>1. PICK l \in n + 1 .. n + k : c \in Carried(messages[l], "tool_result")
        OBVIOUS
      <4>2. l - n \in 1 .. k /\ n + (l - n) = l /\ e + (l - n) \in e + 1 .. e + k
        BY <3>3, <3>4
      <4>3. c = items[e + (l - n)].id
        BY <3>10, <4>1, <4>2
      <4>4. items[e + (l - n)].type = "tool_result"
        BY <3>5, <4>2 DEF IsResult
      <4> QED
        BY <4>2, <4>3, <4>4 DEF IdsIn
    <3>12. ASSUME NEW c \in IdsIn(items, e + 1, e + k, "tool_result")
           PROVE  c \in union
      <4>1. PICK y \in e + 1 .. e + k : items[y].id = c
        BY DEF IdsIn
      <4>2. PICK x : x = y - e
        OBVIOUS
      <4>3. x \in 1 .. k /\ e + x = y /\ n + x \in n + 1 .. n + k
        BY <3>3, <3>4, <4>2
      <4>4. c \in Carried(messages[n + x], "tool_result")
        BY <3>10, <4>1, <4>3
      <4> QED
        BY <4>3, <4>4
    <3>13. union = IdsIn(items, e + 1, e + k, "tool_result")
      BY <3>11, <3>12
    <3> QED
      BY <2>2, <3>3, <3>9, <3>13
  <2> QED
    BY <2>3, <2>4
<1>6. OpenAIAccepts(messages)
  <2> SUFFICES ASSUME NEW n \in 1 .. N
               PROVE  LET uses == Carried(messages[n], "tool_use")
                          after == n + 1 .. n + Cardinality(uses)
                      IN  /\ after \subseteq 1 .. N
                          /\ uses = UNION {Carried(messages[k], "tool_result") : k \in after}
    BY <1>3 DEF OpenAIAccepts
  <2>1. PICK k : k = Cardinality(Carried(messages[n], "tool_use"))
    OBVIOUS
  <2> QED
    BY <1>5, <2>1
<1>7. ASSUME NEW n \in 1 .. N, NEW c \in Carried(messages[n], "tool_result")
      PROVE  \E m \in 1 .. n : c \in Carried(messages[m], "tool_use")
  <2>0. c \in IdsIn(items, a(n), b(n), "tool_result")
    BY <1>4
  <2>1. PICK q \in a(n) .. b(n) : items[q].type = "tool_result" /\ items[q].id = c
    BY <2>0 DEF IdsIn
  <2>2. q \in DOMAIN items /\ IsResult(items, q) /\ q \in Nat /\ q <= b(n)
    BY <1>1, <1>4, <2>1 DEF IsResult
  <2>3. PICK p \in DOMAIN items : AnsweredAt(items, p, q)
    BY <2>2 DEF PairedItems
  <2>4. p < q /\ items[p].type = "tool_use" /\ items[p].id = c /\ p \in Nat
    BY <1>1, <2>1, <2>3 DEF AnsweredAt, IsUse, Same
  <2>5. PICK m \in 1 .. N : p \in a(m) .. b(m)
    BY <1>1, <1>2, InSomePart
  <2>6. c \in Carried(messages[m], "tool_use")
    <3>1. c \in IdsIn(items, a(m), b(m), "tool_use")
      BY <2>4, <2>5 DEF IdsIn
    <3> QED
      BY <1>4, <3>1
  <2>7. ~(n < m)
    <3> SUFFICES ASSUME n < m
                 PROVE  FALSE
      OBVIOUS
    <3>1. b(n) < a(m)
      BY <1>3
    <3>2. b(n) \in Nat /\ a(m) \in Nat /\ a(m) <= p
      BY <1>4, <2>5
    <3> QED
      BY <2>2, <2>4, <3>1, <3>2
  <2>8. m \in 1 .. n
    BY <1>3, <2>7
  <2> QED
    BY <2>6, <2>8
<1>8. GeminiAccepts(messages)
  BY <1>3, <1>7 DEF GeminiAccepts
<1> QED
  BY <1>6, <1>8, AssistantGrouped DEF messages

-----------------------------------------------------------------------------
(* What a request shows of a log that may go to the provider.                *)
LEMMA BetweenCallAndResult ==
  ASSUME NEW events \in Seq(Event), CallsSound(events), CallsTogether(events), ~SpokenOver(events),
         NEW u \in DOMAIN events, NEW j \in DOMAIN events, NEW x \in DOMAIN events,
         AnsweredAt(events, u, j), u < x, x < j, events[x].type \in MessageTypes
  PROVE  /\ IsUse(events, x) \/ IsResult(events, x)
         /\ IsUse(events, x) => \A y \in DOMAIN events : u < y /\ y < x => IsUse(events, y)
<1>1. DOMAIN events \subseteq Nat
  BY FinitePositions
<1>2. IsUse(events, u) /\ IsResult(events, j) /\ Same(events, u, j)
  BY DEF AnsweredAt
<1>3. events[x].type # "user_message"
  BY <1>2 DEF SpokenOver, IsUse, IsResult, Same
<1>4. ASSUME NEW m \in DOMAIN events, u < m, m < j
      PROVE  events[m].type # "assistant_message"
  <2> SUFFICES ASSUME events[m].type = "assistant_message"
               PROVE  FALSE
    OBVIOUS
  <2>1. PICK r \in DOMAIN events : r < m /\ IsResult(events, r) /\ Same(events, u, r)
    BY <1>2, <1>4 DEF CallsTogether, AnsweredInTime
  <2>2. r = j
    BY <1>2, <2>1 DEF CallsSound, AnsweredOnce, Same
  <2> QED
    BY <1>1, <1>4, <2>1, <2>2
<1>5. IsUse(events, x) \/ IsResult(events, x)
  BY <1>3, <1>4 DEF MessageTypes, IsUse, IsResult
<1>6. ASSUME IsUse(events, x), NEW y \in DOMAIN events, u < y, y < x
      PROVE  IsUse(events, y)
  <2>1. PICK a \in DOMAIN events : Opens(events, a, x)
    BY <1>6 DEF CallsTogether, CallsFollow
  <2>2. a < x /\ events[a].type = "assistant_message" /\ a # u
    BY <1>2, <2>1 DEF Opens, IsUse
  <2>3. ~(u < a)
    <3> SUFFICES ASSUME u < a
                 PROVE  FALSE
      OBVIOUS
    <3>1. a < j
      BY <1>1, <2>2
    <3> QED
      BY <1>4, <2>2, <3>1
  <2>4. a < y /\ y <= x
    BY <1>1, <1>6, <2>2, <2>3
  <2>5. events[y].type = "tool_use"
    BY <2>1, <2>4 DEF Opens
  <2> QED
    BY <2>5 DEF IsUse
<1> QED
  BY <1>5, <1>6

LEMMA SummariesHidden ==
  ASSUME NEW events \in Seq(Event), SpansBefore(events)
  PROVE  \A i \in Summarised(events) : i \in DOMAIN events /\ i \notin Visible(events)
<1> SUFFICES ASSUME NEW c \in ActiveCompacts(events), NEW i, i = FirstOf(events[c].span)
             PROVE  i \in DOMAIN events /\ i \notin Visible(events)
  BY DEF Summarised
<1>1. IsCompact(events, c) /\ c \in DOMAIN events
  BY DEF ActiveCompacts, At, IsCompact
<1>2. PICK T : T = events[c].span
  OBVIOUS
<1>3. T # {} /\ T \in SUBSET DOMAIN events
  BY <1>1, <1>2 DEF SpansBefore, ActiveCompacts
<1>4. T \in SUBSET Nat /\ IsFiniteSet(T)
  BY <1>3, FinitePositions
<1>5. i \in T
  BY <1>2, <1>3, <1>4, FirstOfIs
<1>6. i \in Shadowed(events)
  BY <1>2, <1>5 DEF Shadowed
<1> QED
  BY <1>3, <1>5, <1>6 DEF Visible

LEMMA ReadyPairs ==
  ASSUME NEW events \in Seq(Event), CallsSound(events), ProviderReady(events)
  PROVE  /\ \A u \in Visible(events) : IsUse(events, u) =>
              \E j \in Visible(events) : AnsweredAt(events, u, j)
         /\ \A j \in Visible(events) : IsResult(events, j) =>
              \E u \in Visible(events) : AnsweredAt(events, u, j)
<1> DEFINE V == Visible(events)
<1>1. V \subseteq DOMAIN events
  BY DEF Visible
<1>2. \A u, j \in V : IsUse(events, u) /\ IsResult(events, j) /\ Same(events, u, j) => AnsweredAt(events, u, j)
  <2> SUFFICES ASSUME NEW u \in V, NEW j \in V,
                      IsUse(events, u), IsResult(events, j), Same(events, u, j)
               PROVE  AnsweredAt(events, u, j)
    OBVIOUS
  <2>1. PICK i \in DOMAIN events : i < j /\ IsUse(events, i) /\ Same(events, i, j)
    BY <1>1 DEF CallsSound, AnsweredAfterUse
  <2>2. i = u
    BY <1>1, <2>1 DEF CallsSound, UsedOnce, Same
  <2> QED
    BY <2>1, <2>2 DEF AnsweredAt
<1>3. \A i \in V : IsUse(events, i) \/ IsResult(events, i) => events[i].id # NoCall
  BY <1>1, CompactionAssumption DEF CallsSound, HaveIds, IsUse, IsResult, Call
<1>4. ASSUME NEW u \in V, IsUse(events, u)
      PROVE  \E j \in V : IsResult(events, j) /\ Same(events, u, j)
  <2>1. u \in At(events, V, "tool_use") /\ events[u].id # NoCall
    BY <1>3, <1>4 DEF At, IsUse
  <2>2. Unresolved(events, V) = {}
    BY DEF ProviderReady
  <2>3. events[u].id \in IdsAt(events, V, "tool_result")
    BY <2>1, <2>2 DEF Unresolved
  <2> QED
    BY <1>1, <2>3 DEF IdsAt, At, IsResult, Same
<1>5. ASSUME NEW j \in V, IsResult(events, j)
      PROVE  \E u \in V : IsUse(events, u) /\ Same(events, u, j)
  <2>1. j \in At(events, V, "tool_result") /\ events[j].id # NoCall
    BY <1>3, <1>5 DEF At, IsResult
  <2>2. Violations(events, V) = {}
    BY DEF ProviderReady
  <2>3. events[j].id \in IdsAt(events, V, "tool_use")
    <3> SUFFICES ASSUME events[j].id \notin IdsAt(events, V, "tool_use")
                 PROVE  FALSE
      OBVIOUS
    <3>1. <<"orphan_tool_result", j>> \in Violations(events, V)
      BY <2>1 DEF Violations
    <3> QED
      BY <2>2, <3>1
  <2> QED
    BY <1>1, <2>3 DEF IdsAt, At, IsUse, Same
<1> QED
  BY <1>2, <1>4, <1>5

Shown(events) ==
  {i \in DOMAIN events : \/ i \in Summarised(events)
                         \/ i \in Visible(events) /\ events[i].type \in MessageTypes}

Item(events, i) ==
  IF i \in Summarised(events) THEN [type |-> "summary", id |-> NoCall]
  ELSE [type |-> events[i].type, id |-> events[i].id]

(* Each item stands for a message of the view or for a summary. *)
Stands(events, items, at) ==
  /\ DOMAIN items = 1 .. Len(items) /\ Len(items) \in Nat
  /\ \A n \in 1 .. Len(items) : at[n] \in Shown(events) /\ items[n] = Item(events, at[n])
  /\ \A m, n \in 1 .. Len(items) : m < n => at[m] < at[n]
  /\ \A i \in Shown(events) : \E n \in 1 .. Len(items) : at[n] = i

LEMMA ItemsStand ==
  ASSUME NEW events \in Seq(Event)
  PROVE  /\ Projected(events) \in Seq({Item(events, i) : i \in Shown(events)})
         /\ Stands(events, Projected(events), InOrder(Shown(events)))
<1> DEFINE S == Shown(events)
           N == Cardinality(S)
           I == {Item(events, i) : i \in S}
<1>1. S \in SUBSET Nat /\ IsFiniteSet(S)
  <2>1. S \in SUBSET DOMAIN events
    BY DEF Shown
  <2> QED
    BY <2>1, FinitePositions
<1>2. /\ N \in Nat /\ DOMAIN InOrder(S) = 1 .. N
      /\ \A n \in 1 .. N : InOrder(S)[n] \in S
      /\ \A m, n \in 1 .. N : m < n => InOrder(S)[m] < InOrder(S)[n]
      /\ \A i \in S : \E n \in 1 .. N : InOrder(S)[n] = i
  BY <1>1, InOrderIs
<1>3. Projected(events) = [n \in 1 .. N |-> Item(events, InOrder(S)[n])]
  BY <1>2 DEF Projected, Select, Shown, Item
<1> HIDE DEF S, N, I
<1>4. PICK items : items = Projected(events)
  OBVIOUS
<1>5. items \in [1 .. N -> I] /\ \A n \in 1 .. N : items[n] = Item(events, InOrder(S)[n])
  BY <1>2, <1>3, <1>4 DEF I
<1>6. items \in Seq(I) /\ Len(items) = N /\ DOMAIN items = 1 .. N
  BY <1>2, <1>5, LenProperties
<1>7. Stands(events, items, InOrder(S))
  BY <1>2, <1>5, <1>6 DEF Stands, S
<1> QED
  BY <1>4, <1>6, <1>7 DEF I, S

LEMMA ProjectedPaired ==
  ASSUME NEW events \in Seq(Event), CallsSound(events), SpansBefore(events), CallsTogether(events),
         ProviderReady(events), ~SpokenOver(events), ~SummarisedOver(events)
  PROVE  PairedItems(Projected(events))
<1> DEFINE V == Visible(events)
           D == Summarised(events)
<1>1. PICK items, at : items = Projected(events) /\ at = InOrder(Shown(events))
  OBVIOUS
<1>2. /\ DOMAIN items = 1 .. Len(items) /\ Len(items) \in Nat
      /\ \A n \in DOMAIN items : at[n] \in Shown(events) /\ items[n] = Item(events, at[n])
      /\ \A m, n \in DOMAIN items : m < n => at[m] < at[n]
      /\ \A i \in Shown(events) : \E n \in DOMAIN items : at[n] = i
  BY <1>1, ItemsStand DEF Stands
<1>3. DOMAIN events \subseteq Nat /\ V \subseteq DOMAIN events /\ \A i \in D : i \notin V
  BY FinitePositions, SummariesHidden DEF Visible
<1> HIDE DEF V, D
<1>4. ASSUME NEW n \in DOMAIN items
      PROVE  /\ at[n] \in DOMAIN events
             /\ at[n] \in D => ~IsUse(items, n) /\ ~IsResult(items, n)
             /\ at[n] \notin D => /\ at[n] \in V /\ events[at[n]].type \in MessageTypes
                                  /\ items[n].type = events[at[n]].type
                                  /\ items[n].id = events[at[n]].id
  <2>1. at[n] \in Shown(events) /\ items[n] = Item(events, at[n])
    BY <1>2
  <2> QED
    BY <2>1 DEF Shown, Item, IsUse, IsResult, V, D
<1>5. ASSUME NEW n \in DOMAIN items, IsUse(items, n) \/ IsResult(items, n)
      PROVE  /\ at[n] \in V /\ items[n].id = events[at[n]].id
             /\ IsUse(items, n) <=> IsUse(events, at[n])
             /\ IsResult(items, n) <=> IsResult(events, at[n])
  BY <1>4, <1>5 DEF IsUse, IsResult
<1>6. ASSUME NEW i \in V, IsUse(events, i) \/ IsResult(events, i)
      PROVE  \E n \in DOMAIN items :
               /\ at[n] = i /\ items[n].id = events[i].id
               /\ IsUse(items, n) <=> IsUse(events, i)
               /\ IsResult(items, n) <=> IsResult(events, i)
  <2>1. i \in Shown(events)
    BY <1>3, <1>6 DEF Shown, MessageTypes, IsUse, IsResult, V
  <2>2. PICK n \in DOMAIN items : at[n] = i
    BY <1>2, <2>1
  <2>3. at[n] \notin D
    BY <1>3, <2>2
  <2> QED
    BY <1>3, <1>4, <2>2, <2>3 DEF IsUse, IsResult
<1>7. \A m, n \in DOMAIN items : at[m] = at[n] => m = n
  <2> SUFFICES ASSUME NEW m \in DOMAIN items, NEW n \in DOMAIN items, at[m] = at[n], m # n
               PROVE  FALSE
    OBVIOUS
  <2>1. m < n \/ n < m
    BY <1>2
  <2>2. at[m] \in Nat /\ at[n] \in Nat
    BY <1>3, <1>4
  <2> QED
    BY <1>2, <2>1, <2>2
<1>8. \A m, n \in DOMAIN items : at[m] < at[n] => m < n
  <2> SUFFICES ASSUME NEW m \in DOMAIN items, NEW n \in DOMAIN items, at[m] < at[n], ~(m < n)
               PROVE  FALSE
    OBVIOUS
  <2>1. m = n \/ n < m
    BY <1>2
  <2>2. at[m] \in Nat /\ at[n] \in Nat
    BY <1>3, <1>4
  <2> QED
    BY <1>2, <2>1, <2>2
<1>9. UsedOnce(items)
  <2> SUFFICES ASSUME NEW m \in DOMAIN items, NEW n \in DOMAIN items,
                      IsUse(items, m), IsUse(items, n), items[m].id = items[n].id
               PROVE  m = n
    BY DEF UsedOnce, Same
  <2>1. /\ IsUse(events, at[m]) /\ IsUse(events, at[n]) /\ at[m] \in DOMAIN events /\ at[n] \in DOMAIN events
        /\ events[at[m]].id = events[at[n]].id
    BY <1>3, <1>5
  <2>2. at[m] = at[n]
    BY <2>1 DEF CallsSound, UsedOnce, Same
  <2> QED
    BY <1>7, <2>2
<1>10. AnsweredOnce(items)
  <2> SUFFICES ASSUME NEW m \in DOMAIN items, NEW n \in DOMAIN items,
                      IsResult(items, m), IsResult(items, n), items[m].id = items[n].id
               PROVE  m = n
    BY DEF AnsweredOnce, Same
  <2>1. /\ IsResult(events, at[m]) /\ IsResult(events, at[n]) /\ at[m] \in DOMAIN events /\ at[n] \in DOMAIN events
        /\ events[at[m]].id = events[at[n]].id
    BY <1>3, <1>5
  <2>2. at[m] = at[n]
    BY <2>1 DEF CallsSound, AnsweredOnce, Same
  <2> QED
    BY <1>7, <2>2
<1>11. ASSUME NEW p \in DOMAIN items, IsUse(items, p)
       PROVE  \E q \in DOMAIN items : AnsweredAt(items, p, q)
  <2>1. at[p] \in V /\ IsUse(events, at[p]) /\ items[p].id = events[at[p]].id
    BY <1>5, <1>11
  <2>2. PICK j \in V : AnsweredAt(events, at[p], j)
    BY <2>1, ReadyPairs DEF V
  <2>3. IsResult(events, j) /\ Same(events, at[p], j) /\ at[p] < j
    BY <2>2 DEF AnsweredAt
  <2>4. PICK q \in DOMAIN items : at[q] = j /\ items[q].id = events[j].id /\ IsResult(items, q)
    BY <1>6, <2>3
  <2>5. p < q
    BY <1>8, <2>3, <2>4
  <2> QED
    BY <1>11, <2>1, <2>3, <2>4, <2>5 DEF AnsweredAt, Same
<1>12. ASSUME NEW q \in DOMAIN items, IsResult(items, q)
       PROVE  \E p \in DOMAIN items : AnsweredAt(items, p, q)
  <2>1. at[q] \in V /\ IsResult(events, at[q]) /\ items[q].id = events[at[q]].id
    BY <1>5, <1>12
  <2>2. PICK u \in V : AnsweredAt(events, u, at[q])
    BY <2>1, ReadyPairs DEF V
  <2>3. IsUse(events, u) /\ Same(events, u, at[q]) /\ u < at[q]
    BY <2>2 DEF AnsweredAt
  <2>4. PICK p \in DOMAIN items : at[p] = u /\ items[p].id = events[u].id /\ IsUse(items, p)
    BY <1>6, <2>3
  <2>5. p < q
    BY <1>8, <2>3, <2>4
  <2> QED
    BY <1>12, <2>1, <2>3, <2>4, <2>5 DEF AnsweredAt, Same
<1>13. ASSUME NEW p \in DOMAIN items, NEW q \in DOMAIN items, AnsweredAt(items, p, q)
       PROVE  Unbroken(items, p, q)
  <2>1. IsUse(items, p) /\ IsResult(items, q) /\ items[p].id = items[q].id /\ p < q
    BY <1>13 DEF AnsweredAt, Same
  <2>2. PICK u, j : u = at[p] /\ j = at[q]
    OBVIOUS
  <2>3. /\ u \in V /\ j \in V /\ u \in DOMAIN events /\ j \in DOMAIN events
        /\ IsUse(events, u) /\ IsResult(events, j) /\ events[u].id = events[j].id /\ u < j
    BY <1>2, <1>3, <1>5, <2>1, <2>2
  <2>4. AnsweredAt(events, u, j)
    BY <2>3 DEF AnsweredAt, Same
  <2>5. \A k \in D : ~(u < k /\ k < j)
    BY <2>3 DEF SummarisedOver, IsUse, IsResult, V, D
  <2>6. ASSUME NEW x \in DOMAIN items, p < x, x < q
        PROVE  /\ at[x] \in DOMAIN events /\ u < at[x] /\ at[x] < j /\ at[x] \notin D
               /\ events[at[x]].type \in MessageTypes /\ items[x].type = events[at[x]].type
    <3>1. u < at[x] /\ at[x] < j
      BY <1>2, <2>2, <2>6
    <3> QED
      BY <1>4, <2>5, <3>1
  <2>7. ASSUME NEW x \in DOMAIN items, p < x, x < q
        PROVE  IsUse(items, x) \/ IsResult(items, x)
    <3>1. IsUse(events, at[x]) \/ IsResult(events, at[x])
      BY <2>3, <2>4, <2>6, <2>7, BetweenCallAndResult
    <3> QED
      BY <2>6, <2>7, <3>1 DEF IsUse, IsResult
  <2>8. ASSUME NEW x \in DOMAIN items, p < x, x < q, IsUse(items, x),
               NEW y \in DOMAIN items, p < y, y < x
        PROVE  IsUse(items, y)
    <3>1. IsUse(events, at[x])
      BY <2>6, <2>8 DEF IsUse
    <3>2. y < q
      BY <1>2, <2>8
    <3>3. at[y] \in DOMAIN events /\ u < at[y] /\ items[y].type = events[at[y]].type
      BY <2>6, <2>8, <3>2
    <3>4. at[y] < at[x]
      BY <1>2, <2>8
    <3>5. IsUse(events, at[y])
      BY <2>3, <2>4, <2>6, <2>8, <3>1, <3>3, <3>4, BetweenCallAndResult
    <3> QED
      BY <2>8, <3>3, <3>5 DEF IsUse
  <2> QED
    BY <2>7, <2>8 DEF Unbroken
<1>14. PairedItems(items)
  BY <1>2, <1>9, <1>10, <1>11, <1>12, <1>13 DEF PairedItems
<1> QED
  BY <1>1, <1>14

(* A request that PrepareProviderCall let by pairs its calls as each of the *)
(* providers asks, unless a message or a summary stands between a call and  *)
(* its result (BuildMessages of the projections, integrity.go).            *)
THEOREM RequestsPairCalls == CompactionSpec => []RequestPairsCalls
<1>1. ASSUME CompactionTypeOK, CompactionInv, step = "called", ~SpokenOver(log), ~SummarisedOver(log)
      PROVE  /\ AnthropicAccepts(AnthropicMessages(log))
             /\ OpenAIAccepts(OpenAIMessages(log))
             /\ GeminiAccepts(GeminiMessages(log))
  <2>1. /\ log \in Seq(Event) /\ CallsSound(log) /\ SpansBefore(log) /\ CallsTogether(log)
        /\ ProviderReady(log)
    BY <1>1 DEF CompactionTypeOK, CompactionInv, LogSound, SpansSound
  <2>2. PICK I, items : items = Projected(log) /\ items \in Seq(I)
    BY <2>1, ItemsStand
  <2>3. PairedItems(items)
    BY <1>1, <2>1, <2>2, ProjectedPaired
  <2>4. AnthropicAccepts(Messages(items, JoinsAnthropic))
    BY <2>2, <2>3, AnthropicPaired
  <2>5. OpenAIAccepts(Messages(items, JoinsAssistant)) /\ GeminiAccepts(Messages(items, JoinsAssistant))
    BY <2>2, <2>3, JoinedPaired
  <2> QED
    BY <2>2, <2>4, <2>5 DEF AnthropicMessages, OpenAIMessages, GeminiMessages
<1>2. CompactionTypeOK /\ CompactionInv => RequestPairsCalls
  BY <1>1 DEF RequestPairsCalls
<1> QED
  BY <1>2, CompactionStaysSound, PTL

-----------------------------------------------------------------------------
(* ProviderStream: StreamTypeOK and StreamInv are an inductive invariant.   *)
(* The ids of a stream's tools: none yet, one of the server, or a number.   *)
StreamIds == [by : {"server"}, n : 0 .. 2 * MaxCalls] \cup [by : {"stream"}, n : Nat]
Tool == [id : StreamIds, named : BOOLEAN, args : {"none", "empty", "whole", "broken"}]

Reasons == {"protocol", "broken", "arguments", "delta", "unfinished", "unnamed"}

StreamState ==
  [phase : {"idle", "open", "failed", "done"}, started : BOOLEAN, stopped : BOOLEAN,
   finish : AnthropicStops \cup OpenAIStops \cup GeminiStops \cup {"none"},
   why : {"none"} \cup Reasons, odd : BOOLEAN, thought : BOOLEAN,
   block : [Indexes -> {"none", "text", "thinking", "tool"}], tools : [Indexes -> Tool]]

Notice == {<<"started">>, <<"text">>, <<"failed">>, <<"done">>}
          \cup {<<kind, id>> : kind \in {"begin", "end"}, id \in StreamIds}

StreamTypeOK ==
  /\ provider \in {"anthropic", "openai", "gemini"} /\ stream \in StreamState
  /\ observed \in Seq(Notice)
  /\ counter \in Nat /\ streams \in Nat /\ attempts \in Nat /\ restarts \in Nat

(* Of a provider p, its stream s, and what was told of it.                  *)
CalledAt(tools) == {i \in Indexes : tools[i] # NoTool}
Ready(tool) == tool.id # NoId /\ tool.named

(* A tool keeps an id of its index, and Gemini's are called in order. *)
IdsOf(p, i) == IF p = "gemini" THEN {[by |-> "stream", n |-> i]}
               ELSE {NoId, ServerId(i), AnotherId(i)}

ToolsSound(p, s) ==
  /\ \A i \in CalledAt(s.tools) : s.tools[i].id \in IdsOf(p, i)
  /\ p # "openai" => \A i \in CalledAt(s.tools) : Ready(s.tools[i])
  /\ p = "gemini" => CalledAt(s.tools) = 0 .. Cardinality(CalledAt(s.tools)) - 1

(* A block has a tool, or text or thought and no tool; none is left open at the end. *)
BlocksSound(p, s) ==
  p = "anthropic" =>
    /\ \A i \in Indexes : s.block[i] = "tool" => s.tools[i] # NoTool
    /\ ~s.odd => \A i \in Indexes : s.block[i] \in {"text", "thinking"} => s.tools[i] = NoTool
    /\ s.phase \in {"open", "done"} /\ s.stopped => \A i \in Indexes : s.block[i] = "none"

(* The finish reason is one of the provider's; the calls of OpenAI are      *)
(* whole when it comes, or the stream fails.                               *)
StopsOf(p) == CASE p = "anthropic" -> AnthropicStops
                [] p = "openai" -> OpenAIStops
                [] p = "gemini" -> GeminiStops

(* Why it failed shows in what it heard.                                    *)
WhySound(p, s) ==
  /\ s.why = "delta" => p = "anthropic"
  /\ s.why = "unfinished" => s.finish = "none"
  /\ p = "openai" /\ s.why = "unnamed" => \E i \in CalledAt(s.tools) : ~Ready(s.tools[i])
  /\ p = "openai" /\ s.why = "arguments" => \E i \in CalledAt(s.tools) : ~Parsed(s.tools[i].args)

FinishSound(p, s) ==
  /\ s.finish \in StopsOf(p) \cup {"none"}
  /\ s.phase = "done" => s.finish # "none" /\ (p # "gemini" => s.stopped)
  /\ s.why # "none" => s.phase = "failed" /\ WhySound(p, s)
  /\ p = "openai" /\ s.phase # "failed" /\ s.finish # "none" =>
       \A i \in CalledAt(s.tools) : Ready(s.tools[i]) /\ Parsed(s.tools[i].args)

(* What observers were told: each call that was begun, and its end, in this *)
(* order; one end per tool that is ended; and how the turn ended.          *)
ToldIn(events, kind) == {i \in DOMAIN events : events[i][1] = kind}
BegunIn(events, id) == \E b \in DOMAIN events : events[b] = <<"begin", id>>
EndedIn(events, id) ==
  \E b, e \in DOMAIN events : b < e /\ events[b] = <<"begin", id>> /\ events[e] = <<"end", id>>

EndedTools(p, s) ==
  {i \in CalledAt(s.tools) : /\ p = "anthropic" => s.block[i] = "none"
                             /\ p = "openai" => s.finish # "none"}

ToldSound(p, s, events) ==
  s.phase \in {"open", "done"} /\ ~s.odd =>
    /\ \A i \in CalledAt(s.tools) : Ready(s.tools[i]) => BegunIn(events, s.tools[i].id)
    /\ \A i \in EndedTools(p, s) : EndedIn(events, s.tools[i].id)
    /\ Cardinality(ToldIn(events, "end")) = Cardinality(EndedTools(p, s))

EndingsSound(s, events) ==
  LET done == ToldIn(events, "done")
      failed == ToldIn(events, "failed")
  IN  /\ s.phase \in {"idle", "open"} => done = {} /\ failed = {}
      /\ s.phase = "failed" => done = {} /\ failed = {Len(events)}
      /\ s.phase = "done" => failed = {} /\ done = {Len(events)}

StreamSound(p, s, events) ==
  /\ ToolsSound(p, s) /\ BlocksSound(p, s) /\ FinishSound(p, s)
  /\ ToldSound(p, s, events) /\ EndingsSound(s, events)

(* What is staged: the message of the chunks told, and a use of each tool. *)
UsesOf(tools) ==
  [n \in DOMAIN Called(tools) |->
     Use(Called(tools)[n].id, Called(tools)[n].named, Called(tools)[n].args)]

StagedSound ==
  staged = IF stream.phase = "done"
           THEN <<Message(StopReason(stream.finish), Texts, FALSE)>> \o UsesOf(stream.tools)
           ELSE <<>>

(* The ids numbered here, and when they were. *)
NumberedSound ==
  \A id \in callIds :
    \/ id.by = "stream" /\ streams >= 1
    \/ id.by = "ingestor" /\ (restarts = 0 => id.n \in Nat /\ id.n <= counter)

StreamInv ==
  /\ StreamSound(provider, stream, observed) /\ StagedSound
  /\ NumberedSound /\ IdsRecurOnlyFromGemini

-----------------------------------------------------------------------------
(* The calls of a stream are its tools, least index first. *)
LEMMA IndexesAre ==
  /\ Indexes \in SUBSET Nat /\ IsFiniteSet(Indexes) /\ MaxCalls \in Nat
  /\ \A T \in SUBSET Indexes : T \in SUBSET Nat /\ IsFiniteSet(T)
<1>1. MaxCalls \in Nat /\ 0 \in Int /\ MaxCalls - 1 \in Int
  BY ProviderStreamAssumption
<1>2. IsFiniteSet(Indexes) /\ Indexes \in SUBSET Nat
  BY <1>1, FS_Interval DEF Indexes
<1> QED
  BY <1>1, <1>2, FS_Subset

LEMMA CalledIs ==
  ASSUME NEW tools
  PROVE  LET n == Cardinality(CalledAt(tools))
             at == InOrder(CalledAt(tools))
         IN  /\ n \in Nat /\ DOMAIN Called(tools) = 1 .. n /\ Len(Called(tools)) = n
             /\ \A k \in 1 .. n : at[k] \in CalledAt(tools) /\ Called(tools)[k] = tools[at[k]]
             /\ \A k, l \in 1 .. n : at[k] = at[l] => k = l
             /\ \A i \in CalledAt(tools) : \E k \in 1 .. n : at[k] = i
<1> DEFINE T == CalledAt(tools)
           n == Cardinality(T)
           at == InOrder(T)
<1>1. T \in SUBSET Nat /\ IsFiniteSet(T)
  BY IndexesAre DEF CalledAt
<1>2. Called(tools) = ItemsAt(tools, T)
  BY DEF Called, CalledAt
<1> HIDE DEF T
<1>3. n \in Nat /\ DOMAIN Called(tools) = 1 .. n /\ Len(Called(tools)) = n
  BY <1>1, <1>2, ItemsAtIs
<1>4. \A k \in 1 .. n : Called(tools)[k] = tools[at[k]]
  <2>1. \A k \in 1 .. n : ItemsAt(tools, T)[k] = tools[at[k]]
    BY <1>1, ItemsAtIs
  <2> QED
    BY <1>2, <2>1
<1>5. /\ \A k \in 1 .. n : at[k] \in T
      /\ \A k, l \in 1 .. n : k < l => at[k] < at[l]
      /\ \A i \in T : \E k \in 1 .. n : at[k] = i
  BY <1>1, InOrderIs
<1>6. ASSUME NEW k \in 1 .. n, NEW l \in 1 .. n, at[k] = at[l], k # l
      PROVE  FALSE
  <2> HIDE DEF n, at
  <2>0. k \in Int /\ l \in Int
    BY <1>3
  <2>1. k < l \/ l < k
    BY <1>6, <2>0
  <2>2. at[k] \in Nat /\ at[l] \in Nat
    BY <1>1, <1>5
  <2>3. ~(at[k] < at[l]) /\ ~(at[l] < at[k])
    BY <1>6, <2>2
  <2> QED
    BY <1>5, <2>1, <2>3
<1> QED
  BY <1>3, <1>4, <1>5, <1>6 DEF T

-----------------------------------------------------------------------------
(* What observers were told, and then more. *)
LEMMA ToldMore ==
  ASSUME NEW before \in Seq(Notice), NEW more \in Seq(Notice), NEW after, after = before \o more
  PROVE  /\ after \in Seq(Notice) /\ Len(after) = Len(before) + Len(more)
         /\ \A i \in DOMAIN before : i \in DOMAIN after /\ after[i] = before[i]
         /\ \A k \in DOMAIN more :
              Len(before) + k \in DOMAIN after /\ after[Len(before) + k] = more[k]
         /\ \A i \in DOMAIN after : i \notin DOMAIN before =>
              i - Len(before) \in DOMAIN more /\ i = Len(before) + (i - Len(before))
<1>1. /\ Len(before) \in Nat /\ Len(more) \in Nat
      /\ DOMAIN before = 1 .. Len(before) /\ DOMAIN more = 1 .. Len(more)
  OBVIOUS
<1>2. after \in Seq(Notice) /\ Len(after) = Len(before) + Len(more)
  BY ConcatProperties
<1>3. DOMAIN after = 1 .. Len(before) + Len(more)
  BY <1>2
<1>4. \A i \in DOMAIN before : i \in DOMAIN after /\ after[i] = before[i]
  BY <1>1, <1>3, ConcatProperties
<1>5. \A k \in DOMAIN more : Len(before) + k \in DOMAIN after
  BY <1>1, <1>3
<1>6. \A k \in DOMAIN more : after[Len(before) + k] = more[k]
  BY <1>1, ConcatProperties
<1>7. \A i \in DOMAIN after : i \notin DOMAIN before =>
        i - Len(before) \in DOMAIN more /\ i = Len(before) + (i - Len(before))
  BY <1>1, <1>3
<1> QED
  BY <1>2, <1>4, <1>5, <1>6, <1>7

-----------------------------------------------------------------------------
(* Types. *)
LEMMA IdsAreTyped ==
  /\ NoId \in StreamIds /\ NoTool \in Tool
  /\ \A i \in Indexes : ServerId(i) \in StreamIds /\ AnotherId(i) \in StreamIds
  /\ \A i \in Indexes : ServerId(i) # NoId /\ AnotherId(i) # NoId
  /\ \A n \in Nat : [by |-> "stream", n |-> n] \in StreamIds /\ [by |-> "stream", n |-> n] # NoId
<1>1. MaxCalls \in Nat /\ \A i \in Indexes : i \in Nat /\ i < MaxCalls
  BY IndexesAre DEF Indexes
<1>2. NoId = [by |-> "server", n |-> 0]
  BY DEF NoId, NoTool
<1>3. 0 \in 0 .. 2 * MaxCalls
  BY <1>1
<1>4. NoId \in StreamIds
  BY <1>2, <1>3 DEF StreamIds
<1>5. NoTool \in Tool
  BY <1>2, <1>4 DEF NoTool, Tool, NoId
<1>6. ASSUME NEW i \in Indexes
      PROVE  /\ ServerId(i) \in StreamIds /\ AnotherId(i) \in StreamIds
             /\ ServerId(i) # NoId /\ AnotherId(i) # NoId
  <2>1. 1 + i \in 0 .. 2 * MaxCalls /\ 1 + i + MaxCalls \in 0 .. 2 * MaxCalls /\ 1 + i # 0 /\ 1 + i + MaxCalls # 0
    BY <1>1
  <2> QED
    BY <1>2, <2>1 DEF ServerId, AnotherId, StreamIds
<1>7. \A n \in Nat : [by |-> "stream", n |-> n] \in StreamIds /\ [by |-> "stream", n |-> n] # NoId
  BY <1>2 DEF StreamIds
<1> QED
  BY <1>4, <1>5, <1>6, <1>7

LEMMA NewStreamTyped ==
  NewStream \in StreamState /\ [NewStream EXCEPT !.phase = "idle"] \in StreamState
BY IdsAreTyped DEF NewStream, StreamState

LEMMA NoticesAre ==
  /\ <<>> \in Seq(Notice)
  /\ \A e \in Notice : <<e>> \in Seq(Notice)
  /\ \A d, e \in Notice : <<d, e>> \in Seq(Notice)
  /\ <<"started">> \in Notice /\ <<"text">> \in Notice /\ <<"failed">> \in Notice /\ <<"done">> \in Notice
  /\ \A id \in StreamIds : <<"begin", id>> \in Notice /\ <<"end", id>> \in Notice
BY DEF Notice

-----------------------------------------------------------------------------
(* What a frame tells is added to what was told. *)
Goes(p, s, events, next, more) ==
  /\ next \in StreamState /\ next.phase = "open" /\ more \in Seq(Notice)
  /\ StreamSound(p, next, events \o more)

Quiet(more) == \A k \in DOMAIN more : more[k][1] \notin {"done", "failed"}

LEMMA ToldAfter ==
  ASSUME NEW before \in Seq(Notice), NEW more \in Seq(Notice)
  PROVE  /\ before \o more \in Seq(Notice) /\ Len(before \o more) = Len(before) + Len(more)
         /\ \A id : BegunIn(before, id) \/ BegunIn(more, id) => BegunIn(before \o more, id)
         /\ \A id : EndedIn(before, id) => EndedIn(before \o more, id)
         /\ \A id : \A k \in DOMAIN more :
              BegunIn(before, id) /\ more[k] = <<"end", id>> => EndedIn(before \o more, id)
         /\ \A kind : /\ ToldIn(more, kind) = {} => ToldIn(before \o more, kind) = ToldIn(before, kind)
                      /\ IsFiniteSet(ToldIn(before, kind))
                      /\ \A k \in DOMAIN more : ToldIn(more, kind) = {k} =>
                           /\ ToldIn(before \o more, kind) = ToldIn(before, kind) \cup {Len(before) + k}
                           /\ Len(before) + k \notin ToldIn(before, kind)
<1>0. PICK after : after = before \o more
  OBVIOUS
<1>1. /\ after \in Seq(Notice) /\ Len(after) = Len(before) + Len(more)
      /\ \A i \in DOMAIN before : i \in DOMAIN after /\ after[i] = before[i]
      /\ \A k \in DOMAIN more : Len(before) + k \in DOMAIN after /\ after[Len(before) + k] = more[k]
  BY <1>0, ToldMore
<1>9. \A i \in DOMAIN after : i \notin DOMAIN before =>
        i - Len(before) \in DOMAIN more /\ i = Len(before) + (i - Len(before))
  BY <1>0, ToldMore
<1>2. /\ Len(before) \in Nat /\ Len(more) \in Nat
      /\ DOMAIN before = 1 .. Len(before) /\ DOMAIN more = 1 .. Len(more)
  OBVIOUS
<1>3. ASSUME NEW id, BegunIn(before, id) \/ BegunIn(more, id)
      PROVE  BegunIn(after, id)
  BY <1>1, <1>3 DEF BegunIn
<1>4. ASSUME NEW id, EndedIn(before, id)
      PROVE  EndedIn(after, id)
  BY <1>1, <1>4 DEF EndedIn
<1>5. ASSUME NEW id, BegunIn(before, id), NEW k \in DOMAIN more, more[k] = <<"end", id>>
      PROVE  EndedIn(after, id)
  <2>1. PICK b \in DOMAIN before : before[b] = <<"begin", id>>
    BY <1>5 DEF BegunIn
  <2>2. b \in DOMAIN after /\ after[b] = <<"begin", id>>
    BY <1>1, <2>1
  <2>3. Len(before) + k \in DOMAIN after /\ after[Len(before) + k] = <<"end", id>>
    BY <1>1, <1>5
  <2>4. b < Len(before) + k
    BY <1>2
  <2> QED
    BY <2>2, <2>3, <2>4 DEF EndedIn
<1>6. ASSUME NEW kind, ToldIn(more, kind) = {}
      PROVE  ToldIn(after, kind) = ToldIn(before, kind)
  BY <1>1, <1>6, <1>9 DEF ToldIn
<1>7. ASSUME NEW kind
      PROVE  IsFiniteSet(ToldIn(before, kind))
  <2>1. IsFiniteSet(DOMAIN before)
    <3>1. Len(before) \in Int /\ 1 \in Int
      BY <1>2
    <3> QED
      BY <1>2, <3>1, FS_Interval
  <2> QED
    BY <2>1, FS_Subset DEF ToldIn
<1>8. ASSUME NEW kind, NEW k \in DOMAIN more, ToldIn(more, kind) = {k}
      PROVE  /\ ToldIn(after, kind) = ToldIn(before, kind) \cup {Len(before) + k}
             /\ Len(before) + k \notin ToldIn(before, kind)
  <2>1. ToldIn(after, kind) = ToldIn(before, kind) \cup {Len(before) + k}
    BY <1>1, <1>8, <1>9 DEF ToldIn
  <2>2. Len(before) + k \notin DOMAIN before
    BY <1>2
  <2> QED
    BY <2>1, <2>2 DEF ToldIn
<1> QED
  BY <1>0, <1>1, <1>3, <1>4, <1>5, <1>6, <1>7, <1>8

LEMMA ToldOne ==
  ASSUME NEW before \in Seq(Notice), NEW notice \in Notice, NEW kind
  PROVE  /\ before \o <<notice>> \in Seq(Notice) /\ Len(before \o <<notice>>) = Len(before) + 1
         /\ notice[1] = kind => ToldIn(before \o <<notice>>, kind) =
                                  ToldIn(before, kind) \cup {Len(before) + 1}
         /\ notice[1] # kind => ToldIn(before \o <<notice>>, kind) = ToldIn(before, kind)
<1>1. PICK last : last = <<notice>>
  OBVIOUS
<1>2. last \in Seq(Notice) /\ DOMAIN last = {1} /\ Len(last) = 1 /\ last[1] = notice
  BY <1>1
<1>3. before \o last \in Seq(Notice) /\ Len(before \o last) = Len(before) + 1
  BY <1>2, ToldAfter
<1>4. PICK k : k = 1
  OBVIOUS
<1>5. notice[1] = kind => ToldIn(before \o last, kind) = ToldIn(before, kind) \cup {Len(before) + k}
  <2>1. k \in DOMAIN last /\ last \in Seq(Notice)
    BY <1>2, <1>4
  <2>2. notice[1] = kind => ToldIn(last, kind) = {k}
    BY <1>2, <1>4 DEF ToldIn
  <2> QED
    BY <2>1, <2>2, ToldAfter
<1>6. notice[1] # kind => ToldIn(before \o last, kind) = ToldIn(before, kind)
  <2>1. notice[1] # kind => ToldIn(last, kind) = {}
    BY <1>2 DEF ToldIn
  <2> QED
    BY <1>2, <2>1, ToldAfter
<1> QED
  BY <1>1, <1>3, <1>4, <1>5, <1>6

LEMMA EndedToolsAre ==
  ASSUME NEW p, NEW s
  PROVE  /\ EndedTools(p, s) \subseteq CalledAt(s.tools) /\ CalledAt(s.tools) \subseteq Indexes
         /\ IsFiniteSet(EndedTools(p, s)) /\ Cardinality(EndedTools(p, s)) \in Nat
         /\ IsFiniteSet(CalledAt(s.tools)) /\ Cardinality(CalledAt(s.tools)) \in Nat
<1>1. EndedTools(p, s) \subseteq CalledAt(s.tools) /\ CalledAt(s.tools) \subseteq Indexes
  BY DEF EndedTools, CalledAt
<1>2. IsFiniteSet(EndedTools(p, s)) /\ IsFiniteSet(CalledAt(s.tools))
  BY <1>1, IndexesAre
<1> QED
  BY <1>1, <1>2, FS_CardinalityType

(* A frame that ends no call. *)
LEMMA ToldQuietly ==
  ASSUME NEW p, NEW s, NEW events \in Seq(Notice), ToldSound(p, s, events),
         NEW next, NEW more \in Seq(Notice), s.phase = "open", next.phase = "open",
         ToldIn(more, "end") = {},
         ~next.odd => ~s.odd,
         ~next.odd => \A i \in CalledAt(next.tools) : Ready(next.tools[i]) =>
           \/ BegunIn(more, next.tools[i].id)
           \/ i \in CalledAt(s.tools) /\ Ready(s.tools[i]) /\ s.tools[i].id = next.tools[i].id,
         ~next.odd => \A i \in EndedTools(p, next) : s.tools[i].id = next.tools[i].id,
         ~next.odd => EndedTools(p, next) = EndedTools(p, s)
  PROVE  ToldSound(p, next, events \o more)
<1> SUFFICES ASSUME ~next.odd
             PROVE  ToldSound(p, next, events \o more)
  BY DEF ToldSound
<1>1. /\ \A i \in CalledAt(s.tools) : Ready(s.tools[i]) => BegunIn(events, s.tools[i].id)
      /\ \A i \in EndedTools(p, s) : EndedIn(events, s.tools[i].id)
      /\ Cardinality(ToldIn(events, "end")) = Cardinality(EndedTools(p, s))
  BY DEF ToldSound
<1>2. ToldIn(events \o more, "end") = ToldIn(events, "end")
  BY ToldAfter
<1>3. \A id : BegunIn(events, id) \/ BegunIn(more, id) => BegunIn(events \o more, id)
  BY ToldAfter
<1>4. \A id : EndedIn(events, id) => EndedIn(events \o more, id)
  BY ToldAfter
<1>5. \A i \in CalledAt(next.tools) : Ready(next.tools[i]) => BegunIn(events \o more, next.tools[i].id)
  BY <1>1, <1>3
<1>6. \A i \in EndedTools(p, next) : EndedIn(events \o more, next.tools[i].id)
  BY <1>1, <1>4
<1>7. Cardinality(ToldIn(events \o more, "end")) = Cardinality(EndedTools(p, next))
  BY <1>1, <1>2
<1> QED
  BY <1>5, <1>6, <1>7 DEF ToldSound

(* A frame that ends the call of index i. *)
LEMMA ToldEnding ==
  ASSUME NEW p, NEW s, NEW events \in Seq(Notice), ToldSound(p, s, events),
         NEW next, NEW more \in Seq(Notice), s.phase = "open", next.phase = "open",
         NEW i \in CalledAt(next.tools), i \notin EndedTools(p, s),
         NEW k \in DOMAIN more, ToldIn(more, "end") = {k}, more[k] = <<"end", next.tools[i].id>>,
         ~next.odd => ~s.odd,
         ~next.odd => \A j \in CalledAt(next.tools) : j # i =>
           j \in CalledAt(s.tools) /\ s.tools[j] = next.tools[j],
         ~next.odd => EndedTools(p, next) = EndedTools(p, s) \cup {i},
         ~next.odd => EndedIn(events \o more, next.tools[i].id) /\ BegunIn(events \o more, next.tools[i].id)
  PROVE  ToldSound(p, next, events \o more)
<1> SUFFICES ASSUME ~next.odd
             PROVE  ToldSound(p, next, events \o more)
  BY DEF ToldSound
<1>1. /\ \A j \in CalledAt(s.tools) : Ready(s.tools[j]) => BegunIn(events, s.tools[j].id)
      /\ \A j \in EndedTools(p, s) : EndedIn(events, s.tools[j].id)
      /\ Cardinality(ToldIn(events, "end")) = Cardinality(EndedTools(p, s))
  BY DEF ToldSound
<1>2. \A id : BegunIn(events, id) => BegunIn(events \o more, id)
  BY ToldAfter
<1>3. \A id : EndedIn(events, id) => EndedIn(events \o more, id)
  BY ToldAfter
<1>4. \A j \in CalledAt(next.tools) : Ready(next.tools[j]) => BegunIn(events \o more, next.tools[j].id)
  BY <1>1, <1>2
<1>5. \A j \in EndedTools(p, next) : EndedIn(events \o more, next.tools[j].id)
  <2> SUFFICES ASSUME NEW j \in EndedTools(p, next), j # i
               PROVE  EndedIn(events \o more, next.tools[j].id)
    OBVIOUS
  <2>1. j \in CalledAt(next.tools) /\ j \in EndedTools(p, s)
    BY EndedToolsAre
  <2> QED
    BY <1>1, <1>3, <2>1
<1>6. Cardinality(ToldIn(events \o more, "end")) = Cardinality(EndedTools(p, next))
  <2>1. /\ ToldIn(events \o more, "end") = ToldIn(events, "end") \cup {Len(events) + k}
        /\ Len(events) + k \notin ToldIn(events, "end") /\ IsFiniteSet(ToldIn(events, "end"))
    BY ToldAfter
  <2>2. Cardinality(ToldIn(events \o more, "end")) = Cardinality(ToldIn(events, "end")) + 1
    BY <2>1, FS_AddElement
  <2>3. Cardinality(EndedTools(p, next)) = Cardinality(EndedTools(p, s)) + 1
    BY EndedToolsAre, FS_AddElement
  <2> QED
    BY <1>1, <2>2, <2>3
<1> QED
  BY <1>4, <1>5, <1>6 DEF ToldSound

(* The rest of a frame. *)
LEMMA GoesOn ==
  ASSUME NEW p, NEW s, NEW events \in Seq(Notice), EndingsSound(s, events), s.phase = "open",
         NEW next \in StreamState, next.phase = "open",
         NEW more \in Seq(Notice), Quiet(more),
         ToolsSound(p, next), BlocksSound(p, next), FinishSound(p, next),
         ToldSound(p, next, events \o more)
  PROVE  Goes(p, s, events, next, more)
<1>1. ToldIn(more, "done") = {} /\ ToldIn(more, "failed") = {}
  BY DEF Quiet, ToldIn
<1>2. ToldIn(events \o more, "done") = ToldIn(events, "done")
  BY <1>1, ToldAfter
<1>3. ToldIn(events \o more, "failed") = ToldIn(events, "failed")
  BY <1>1, ToldAfter
<1>4. EndingsSound(next, events \o more)
  BY <1>2, <1>3 DEF EndingsSound
<1> QED
  BY <1>4 DEF Goes, StreamSound

-----------------------------------------------------------------------------
(* Frames that end or begin no call and open or close no block: starts,     *)
(* texts, stop reasons and ends.                                           *)
LEMMA Listens ==
  ASSUME NEW p, NEW s, NEW events \in Seq(Notice), StreamSound(p, s, events), s.phase = "open",
         NEW next \in StreamState, next.phase = "open", next.tools = s.tools, next.block = s.block,
         ~next.odd => ~s.odd, next.why = s.why,
         next.finish \in StopsOf(p) \cup {"none"}, p = "openai" => next.finish = s.finish,
         p = "anthropic" /\ next.stopped => s.stopped \/ \A i \in Indexes : s.block[i] = "none",
         NEW more \in Seq(Notice), Quiet(more), ToldIn(more, "end") = {}
  PROVE  Goes(p, s, events, next, more)
<1>1. ToolsSound(p, next)
  BY DEF StreamSound, ToolsSound
<1>2. BlocksSound(p, next)
  BY DEF StreamSound, BlocksSound
<1>3. FinishSound(p, next)
  BY DEF StreamSound, FinishSound, WhySound
<1>4. EndedTools(p, next) = EndedTools(p, s)
  BY DEF EndedTools
<1>5. ToldSound(p, next, events \o more)
  BY <1>4, ToldQuietly DEF StreamSound
<1> QED
  BY <1>1, <1>2, <1>3, <1>5, GoesOn DEF StreamSound

(* ContentBlockStart, of a text or a thought and of a call. *)
LEMMA TextBlockOpens ==
  ASSUME NEW s, NEW events \in Seq(Notice), StreamSound("anthropic", s, events), s.phase = "open",
         NEW i \in Indexes, s.block[i] = "none", ~s.stopped,
         NEW next \in StreamState, next.phase = "open", next.tools = s.tools,
         next.block[i] \in {"text", "thinking"}, \A j \in Indexes : j # i => next.block[j] = s.block[j],
         next.odd <=> s.odd \/ s.tools[i] # NoTool,
         next.why = s.why, next.finish = s.finish, next.stopped = s.stopped
  PROVE  Goes("anthropic", s, events, next, <<>>)
<1> DEFINE p == "anthropic"
<1>1. ToolsSound(p, next)
  BY DEF StreamSound, ToolsSound
<1>2. BlocksSound(p, next)
  BY DEF StreamSound, BlocksSound
<1>3. FinishSound(p, next)
  BY DEF StreamSound, FinishSound, WhySound
<1>4. ~next.odd => EndedTools(p, next) = EndedTools(p, s)
  BY DEF EndedTools, CalledAt
<1>5. <<>> \in Seq(Notice) /\ ToldIn(<<>>, "end") = {} /\ Quiet(<<>>)
  BY DEF ToldIn, Quiet
<1>6. ToldSound(p, next, events \o <<>>)
  <2> DEFINE more == <<>>
  <2> HIDE DEF more
  <2> QED
    BY <1>4, <1>5, ToldQuietly DEF StreamSound, more
<1> QED
  BY <1>1, <1>2, <1>3, <1>5, <1>6, GoesOn DEF StreamSound

ToolOpened(s, next, i, tool) ==
  /\ next.tools[i] = tool /\ \A j \in Indexes : j # i => next.tools[j] = s.tools[j]
  /\ next.block[i] = "tool" /\ \A j \in Indexes : j # i => next.block[j] = s.block[j]
  /\ next.odd <=> s.odd \/ s.tools[i] # NoTool
  /\ next.why = s.why /\ next.finish = s.finish /\ next.stopped = s.stopped

LEMMA ToolBlockOpens ==
  ASSUME NEW s, NEW events \in Seq(Notice), StreamSound("anthropic", s, events), s.phase = "open",
         NEW i \in Indexes, s.block[i] = "none", ~s.stopped,
         NEW tool \in Tool, tool.id \in IdsOf("anthropic", i), Ready(tool),
         NEW next \in StreamState, next.phase = "open", ToolOpened(s, next, i, tool)
  PROVE  Goes("anthropic", s, events, next, <<<<"begin", tool.id>>>>)
<1> USE DEF ToolOpened
<1> DEFINE p == "anthropic"
<1>0. tool # NoTool
  BY DEF Ready, NoId
<1>1. ToolsSound(p, next)
  BY DEF StreamSound, ToolsSound, CalledAt
<1>2. BlocksSound(p, next)
  BY <1>0 DEF StreamSound, BlocksSound
<1>3. FinishSound(p, next)
  BY DEF StreamSound, FinishSound, WhySound
<1>4. ~next.odd => EndedTools(p, next) = EndedTools(p, s)
  BY DEF EndedTools, CalledAt
<1>5. PICK more : more = <<<<"begin", tool.id>>>>
  OBVIOUS
<1>6. more \in Seq(Notice) /\ ToldIn(more, "end") = {} /\ Quiet(more) /\ BegunIn(more, tool.id)
  <2>1. tool.id \in StreamIds
    BY DEF Tool
  <2>2. more \in Seq(Notice)
    BY <1>5, <2>1, NoticesAre
  <2>3. DOMAIN more = {1} /\ more[1] = <<"begin", tool.id>>
    BY <1>5
  <2> QED
    BY <2>2, <2>3 DEF ToldIn, Quiet, BegunIn
<1>7. \A j \in CalledAt(next.tools) :
        j # i => j \in CalledAt(s.tools) /\ next.tools[j] = s.tools[j]
  BY DEF CalledAt
<1>8. ~next.odd => \A j \in EndedTools(p, next) : s.tools[j].id = next.tools[j].id
  <2>1. i \notin EndedTools(p, next)
    BY DEF EndedTools
  <2> QED
    BY <1>7, <2>1, EndedToolsAre
<1>9. ToldSound(p, next, events \o more)
  BY <1>4, <1>6, <1>7, <1>8, ToldQuietly DEF StreamSound
<1> QED
  BY <1>1, <1>2, <1>3, <1>5, <1>6, <1>9, GoesOn DEF StreamSound

(* InputJSONDelta: more of the arguments. *)
LEMMA ArgumentsGrow ==
  ASSUME NEW s, NEW events \in Seq(Notice), StreamSound("anthropic", s, events), s.phase = "open",
         NEW i \in Indexes, s.tools[i] # NoTool,
         NEW next \in StreamState, next.phase = "open",
         next.tools[i] # NoTool, next.tools[i].id = s.tools[i].id, next.tools[i].named = s.tools[i].named,
         \A j \in Indexes : j # i => next.tools[j] = s.tools[j],
         next.block = s.block, next.odd = s.odd,
         next.why = s.why, next.finish = s.finish, next.stopped = s.stopped
  PROVE  Goes("anthropic", s, events, next, <<>>)
<1> DEFINE p == "anthropic"
<1>0. CalledAt(next.tools) = CalledAt(s.tools)
  BY DEF CalledAt
<1>1. \A j \in CalledAt(s.tools) :
        next.tools[j].id = s.tools[j].id /\ (Ready(next.tools[j]) <=> Ready(s.tools[j]))
  BY DEF CalledAt, Ready
<1>2. ToolsSound(p, next)
  BY <1>0, <1>1 DEF StreamSound, ToolsSound
<1>3. BlocksSound(p, next)
  BY <1>0 DEF StreamSound, BlocksSound, CalledAt
<1>4. FinishSound(p, next)
  BY DEF StreamSound, FinishSound, WhySound
<1>5. EndedTools(p, next) = EndedTools(p, s)
  BY <1>0 DEF EndedTools
<1>6. PICK more : more = <<>>
  OBVIOUS
<1>8. more \in Seq(Notice) /\ ToldIn(more, "end") = {} /\ Quiet(more)
  BY <1>6 DEF ToldIn, Quiet
<1>7. ToldSound(p, next, events \o more)
  BY <1>0, <1>1, <1>5, <1>8, EndedToolsAre, ToldQuietly DEF StreamSound
<1> QED
  BY <1>2, <1>3, <1>4, <1>6, <1>7, <1>8, GoesOn DEF StreamSound

(* ContentBlockStop, of a call and of a text. *)
LEMMA BlockCloses ==
  ASSUME NEW s, NEW events \in Seq(Notice), StreamSound("anthropic", s, events), s.phase = "open",
         NEW i \in Indexes, s.block[i] # "none",
         NEW next \in StreamState, next.phase = "open", next.tools = s.tools,
         next.block[i] = "none", \A j \in Indexes : j # i => next.block[j] = s.block[j],
         next.odd = s.odd, next.why = s.why, next.finish = s.finish, next.stopped = s.stopped,
         NEW more \in Seq(Notice), NEW id, id = s.tools[i].id,
         more = IF s.tools[i] # NoTool THEN <<<<"end", id>>>> ELSE <<>>
  PROVE  Goes("anthropic", s, events, next, more)
<1> DEFINE p == "anthropic"
<1>1. ToolsSound(p, next)
  BY DEF StreamSound, ToolsSound
<1>2. BlocksSound(p, next)
  BY DEF StreamSound, BlocksSound
<1>3. FinishSound(p, next)
  BY DEF StreamSound, FinishSound, WhySound
<1>4. CASE s.tools[i] = NoTool
  <2>1. EndedTools(p, next) = EndedTools(p, s)
    BY <1>4 DEF EndedTools, CalledAt
  <2>2. ToldIn(more, "end") = {} /\ Quiet(more)
    BY <1>4 DEF ToldIn, Quiet
  <2>3. ToldSound(p, next, events \o more)
    BY <2>1, <2>2, ToldQuietly DEF StreamSound
  <2> QED
    BY <1>1, <1>2, <1>3, <2>2, <2>3, GoesOn DEF StreamSound
<1>5. CASE s.tools[i] # NoTool
  <2>1. DOMAIN more = {1} /\ more[1] = <<"end", id>>
    BY <1>5
  <2>2. ToldIn(more, "end") = {1} /\ Quiet(more)
    BY <2>1 DEF ToldIn, Quiet
  <2>3. EndedTools(p, next) = EndedTools(p, s) \cup {i} /\ i \notin EndedTools(p, s)
    BY <1>5 DEF EndedTools, CalledAt
  <2>4. i \in CalledAt(next.tools) /\ i \in CalledAt(s.tools)
    BY <1>5 DEF CalledAt
  <2>5. ~s.odd => BegunIn(events, id)
    <3>1. Ready(s.tools[i])
      BY <2>4 DEF StreamSound, ToolsSound
    <3> QED
      BY <2>4, <3>1 DEF StreamSound, ToldSound
  <2>6. ~s.odd => BegunIn(events \o more, id) /\ EndedIn(events \o more, id)
    <3>1. 1 \in DOMAIN more /\ more[1] = <<"end", id>>
      BY <2>1
    <3>2. BegunIn(events, id) => BegunIn(events \o more, id)
      BY ToldAfter
    <3>3. BegunIn(events, id) => EndedIn(events \o more, id)
      BY <3>1, ToldAfter
    <3> QED
      BY <2>5, <3>2, <3>3
  <2>7. ToldSound(p, next, events \o more)
    BY <2>1, <2>2, <2>3, <2>4, <2>6, ToldEnding DEF StreamSound
  <2> QED
    BY <1>1, <1>2, <1>3, <2>2, <2>7, GoesOn DEF StreamSound
<1> QED
  BY <1>4, <1>5

(* ToolCallDelta: a piece of a call, which may be its beginning. *)
LEMMA CallContinues ==
  ASSUME NEW s, NEW events \in Seq(Notice), StreamSound("openai", s, events), s.phase = "open",
         s.finish = "none", NEW i \in Indexes,
         NEW next \in StreamState, next.phase = "open",
         \A j \in Indexes : j # i => next.tools[j] = s.tools[j],
         NEW tool \in Tool, next.tools[i] = tool, tool.id \in IdsOf("openai", i),
         ~next.odd => ~s.odd /\ (Ready(s.tools[i]) => Ready(tool) /\ s.tools[i].id = tool.id),
         next.why = s.why, next.finish = "none",
         NEW more \in Seq(Notice), NEW id, id = tool.id,
         NEW begins \in BOOLEAN, begins <=> Ready(tool) /\ ~Ready(s.tools[i]),
         begins => more = <<<<"begin", id>>>>, ~begins => more = <<>>
  PROVE  Goes("openai", s, events, next, more)
<1> DEFINE p == "openai"
<1>1. ToolsSound(p, next)
  BY DEF StreamSound, ToolsSound, CalledAt
<1>2. BlocksSound(p, next)
  BY DEF BlocksSound
<1>3. FinishSound(p, next)
  BY DEF StreamSound, FinishSound, WhySound
<1>4. EndedTools(p, next) = {} /\ EndedTools(p, s) = {}
  BY DEF EndedTools
<1>5. ToldIn(more, "end") = {} /\ Quiet(more)
  <2>1. CASE ~begins
    BY <2>1 DEF ToldIn, Quiet
  <2>2. CASE begins
    <3>1. DOMAIN more = {1} /\ more[1] = <<"begin", id>>
      BY <2>2
    <3> QED
      BY <3>1 DEF ToldIn, Quiet
  <2> QED
    BY <2>1, <2>2
<1>6. begins => BegunIn(more, id)
  <2>1. begins => DOMAIN more = {1} /\ more[1] = <<"begin", id>>
    OBVIOUS
  <2> QED
    BY <2>1 DEF BegunIn
<1>7. ASSUME NEW j \in CalledAt(next.tools), Ready(next.tools[j]), ~next.odd
      PROVE  \/ BegunIn(more, next.tools[j].id)
             \/ j \in CalledAt(s.tools) /\ Ready(s.tools[j]) /\ s.tools[j].id = next.tools[j].id
  <2>1. CASE j # i
    BY <1>7, <2>1 DEF CalledAt
  <2>2. CASE j = i
    <3>1. CASE Ready(s.tools[i])
      <4>1. s.tools[i] # NoTool
        BY <3>1 DEF Ready, NoId
      <4> QED
        BY <1>7, <2>2, <3>1, <4>1 DEF CalledAt
    <3>2. CASE ~Ready(s.tools[i])
      BY <1>6, <1>7, <2>2, <3>2
    <3> QED
      BY <3>1, <3>2
  <2> QED
    BY <2>1, <2>2
<1>8. ToldSound(p, next, events \o more)
  BY <1>4, <1>5, <1>7, ToldQuietly DEF StreamSound
<1> QED
  BY <1>1, <1>2, <1>3, <1>5, <1>8, GoesOn DEF StreamSound

(* Ends that are told when none was told before. *)
LEMMA OnlyEnds ==
  ASSUME NEW events \in Seq(Notice), NEW more \in Seq(Notice),
         ToldIn(events, "end") = {}, ToldIn(more, "end") = DOMAIN more
  PROVE  Cardinality(ToldIn(events \o more, "end")) = Len(more)
<1>1. PICK after : after = events \o more
  OBVIOUS
<1>0. /\ \A i \in DOMAIN events : i \in DOMAIN after /\ after[i] = events[i]
      /\ \A k \in DOMAIN more : Len(events) + k \in DOMAIN after /\ after[Len(events) + k] = more[k]
      /\ \A i \in DOMAIN after : i \notin DOMAIN events =>
           i - Len(events) \in DOMAIN more /\ i = Len(events) + (i - Len(events))
  BY <1>1, ToldMore
<1>2. PICK l \in Nat, n \in Nat : l = Len(events) /\ n = Len(more)
  OBVIOUS
<1>3. /\ DOMAIN more = 1 .. n
      /\ \A i \in DOMAIN events : i \in DOMAIN after /\ after[i] = events[i]
      /\ \A k \in DOMAIN more : l + k \in DOMAIN after /\ after[l + k] = more[k]
  BY <1>0, <1>2
<1>4. ASSUME NEW i \in ToldIn(after, "end")
      PROVE  i \in l + 1 .. l + n
  <2>1. i \notin DOMAIN events
    BY <1>3, <1>4 DEF ToldIn
  <2>2. PICK k \in DOMAIN more : i = l + k
    <3>1. i - l \in DOMAIN more /\ i = l + (i - l)
      BY <1>0, <1>2, <1>4, <2>1 DEF ToldIn
    <3> QED
      BY <3>1
  <2> QED
    BY <1>2, <1>3, <2>2
<1>5. ASSUME NEW i \in l + 1 .. l + n
      PROVE  i \in ToldIn(after, "end")
  <2>1. i - l \in 1 .. n /\ i = l + (i - l)
    OBVIOUS
  <2>2. PICK k \in 1 .. n : i = l + k
    BY <2>1
  <2>3. i \in DOMAIN after /\ after[i] = more[k]
    BY <1>3, <2>2
  <2>4. more[k][1] = "end"
    BY <1>3 DEF ToldIn
  <2> QED
    BY <2>3, <2>4 DEF ToldIn
<1>6. ToldIn(after, "end") = l + 1 .. l + n
  BY <1>4, <1>5
<1>7. PICK a \in Int, b \in Int : a = l + 1 /\ b = l + n
  OBVIOUS
<1>8. Cardinality(a .. b) = IF a > b THEN 0 ELSE b - a + 1
  BY FS_Interval
<1>9. b - a + 1 = n /\ (a > b => n = 0)
  BY <1>7
<1>10. Cardinality(a .. b) = n
  BY <1>8, <1>9
<1> QED
  BY <1>1, <1>2, <1>6, <1>7, <1>10

(* FinishReason: every call is ended, in any order. *)
LEMMA CallsEnd ==
  ASSUME NEW s, NEW events \in Seq(Notice), StreamSound("openai", s, events), s.phase = "open",
         s.finish = "none",
         \A i \in CalledAt(s.tools) : Ready(s.tools[i]) /\ Parsed(s.tools[i].args),
         NEW next \in StreamState, next.phase = "open", next.tools = s.tools,
         next.odd = s.odd, next.why = s.why, next.finish \in OpenAIStops,
         NEW n \in Nat, n = Cardinality(CalledAt(s.tools)),
         NEW f \in [1 .. n -> CalledAt(s.tools)], \A i \in CalledAt(s.tools) : \E k \in 1 .. n : f[k] = i,
         NEW more \in Seq(Notice), Len(more) = n,
         \A k \in 1 .. n : more[k] = <<"end", s.tools[f[k]].id>>
  PROVE  Goes("openai", s, events, next, more)
<1> DEFINE p == "openai"
<1>0. DOMAIN more = 1 .. n
  OBVIOUS
<1>1. ToolsSound(p, next)
  BY DEF StreamSound, ToolsSound
<1>2. BlocksSound(p, next)
  BY DEF BlocksSound
<1>3. FinishSound(p, next)
  BY DEF StreamSound, FinishSound, StopsOf
<1>4. EndedTools(p, next) = CalledAt(s.tools) /\ EndedTools(p, s) = {}
  BY DEF EndedTools, OpenAIStops
<1>5. Quiet(more) /\ ToldIn(more, "end") = 1 .. n
  BY <1>0 DEF Quiet, ToldIn
<1>6. ASSUME ~s.odd
      PROVE  /\ \A i \in CalledAt(s.tools) : BegunIn(events \o more, s.tools[i].id)
             /\ \A i \in CalledAt(s.tools) : EndedIn(events \o more, s.tools[i].id)
             /\ Cardinality(ToldIn(events \o more, "end")) = n
  <2>1. \A i \in CalledAt(s.tools) : BegunIn(events, s.tools[i].id)
    BY <1>6 DEF StreamSound, ToldSound
  <2>2. \A i \in CalledAt(s.tools) : BegunIn(events \o more, s.tools[i].id)
    BY <2>1, ToldAfter
  <2>3. ASSUME NEW i \in CalledAt(s.tools)
        PROVE  EndedIn(events \o more, s.tools[i].id)
    <3>1. PICK k \in 1 .. n : f[k] = i
      OBVIOUS
    <3>2. PICK id : id = s.tools[i].id
      OBVIOUS
    <3>3. k \in DOMAIN more /\ more[k] = <<"end", id>> /\ BegunIn(events, id)
      BY <1>0, <2>1, <3>1, <3>2
    <3>4. EndedIn(events \o more, id)
      BY <3>3, ToldAfter
    <3> QED
      BY <3>2, <3>4
  <2>4. ToldIn(events, "end") = {}
    <3>1. Cardinality(ToldIn(events, "end")) = 0
      BY <1>4, <1>6, FS_EmptySet DEF StreamSound, ToldSound
    <3>2. IsFiniteSet(ToldIn(events, "end"))
      BY ToldAfter
    <3> QED
      BY <3>1, <3>2, FS_EmptySet
  <2>5. Cardinality(ToldIn(events \o more, "end")) = n
    BY <1>0, <1>5, <2>4, OnlyEnds
  <2> QED
    BY <2>2, <2>3, <2>5
<1>7. ToldSound(p, next, events \o more)
  BY <1>4, <1>6 DEF ToldSound
<1> QED
  BY <1>1, <1>2, <1>3, <1>5, <1>7, GoesOn DEF StreamSound

(* GeminiData with a call, which is begun and ended at once. *)
LEMMA WholeCallComes ==
  ASSUME NEW s, NEW events \in Seq(Notice), StreamSound("gemini", s, events), s.phase = "open",
         NEW n \in Indexes, n = Cardinality(CalledAt(s.tools)),
         NEW tool \in Tool, tool.id = [by |-> "stream", n |-> n], tool.named,
         NEW next \in StreamState, next.phase = "open",
         next.tools[n] = tool, \A j \in Indexes : j # n => next.tools[j] = s.tools[j],
         next.odd = s.odd, next.why = s.why, next.finish \in GeminiStops \cup {"none"},
         NEW id, id = tool.id, NEW m \in {0, 1},
         NEW more \in Seq(Notice), Len(more) = m + 2, m = 1 => more[1] = <<"text">>,
         more[m + 1] = <<"begin", id>>, more[m + 2] = <<"end", id>>
  PROVE  Goes("gemini", s, events, next, more)
<1> DEFINE p == "gemini"
<1>0. tool # NoTool /\ Ready(tool) /\ n \in Nat
  <2>1. n \in Nat
    BY IndexesAre
  <2>2. tool.id # NoId
    BY <2>1, IdsAreTyped
  <2> QED
    BY <2>1, <2>2 DEF Ready, NoId
<1>1. n \notin CalledAt(s.tools)
  BY <1>0 DEF StreamSound, ToolsSound
<1>2. CalledAt(next.tools) = CalledAt(s.tools) \cup {n}
  BY <1>0 DEF CalledAt
<1>3. \A j \in CalledAt(s.tools) : next.tools[j] = s.tools[j]
  BY <1>1 DEF CalledAt
<1>4. ToolsSound(p, next)
  <2>1. Cardinality(CalledAt(next.tools)) = n + 1
    <3>1. IsFiniteSet(CalledAt(s.tools))
      BY EndedToolsAre
    <3>2. Cardinality(CalledAt(s.tools) \cup {n}) = Cardinality(CalledAt(s.tools)) + 1
      BY <1>1, <3>1, FS_AddElement
    <3> QED
      BY <1>2, <3>2
  <2>2. CalledAt(s.tools) = 0 .. n - 1
    BY DEF StreamSound, ToolsSound
  <2>3. CalledAt(next.tools) = 0 .. Cardinality(CalledAt(next.tools)) - 1
    <3>1. PICK top \in Nat : top = Cardinality(CalledAt(next.tools)) /\ top = n + 1
      BY <1>0, <2>1
    <3>2. top - 1 = n /\ (0 .. n - 1) \cup {n} = 0 .. n
      BY <1>0, <3>1
    <3>3. CalledAt(next.tools) = 0 .. top - 1
      BY <1>2, <2>2, <3>2
    <3> QED
      BY <3>1, <3>3
  <2>4. \A j \in CalledAt(next.tools) : next.tools[j].id \in IdsOf(p, j) /\ Ready(next.tools[j])
    BY <1>0, <1>2, <1>3 DEF StreamSound, ToolsSound, IdsOf
  <2> QED
    BY <2>3, <2>4 DEF ToolsSound
<1>5. BlocksSound(p, next)
  BY DEF BlocksSound
<1>6. FinishSound(p, next)
  BY DEF StreamSound, FinishSound, StopsOf
<1>7. DOMAIN more = 1 .. m + 2 /\ m \in Nat /\ \A k \in DOMAIN more : k = m + 1 \/ k = m + 2 \/ (k = 1 /\ m = 1)
  OBVIOUS
<1>8. Quiet(more) /\ ToldIn(more, "end") = {m + 2}
  BY <1>7 DEF Quiet, ToldIn
<1>9. EndedTools(p, next) = EndedTools(p, s) \cup {n} /\ n \notin EndedTools(p, s) /\ n \in CalledAt(next.tools)
  BY <1>1, <1>2, <1>3 DEF EndedTools
<1>10. EndedIn(events \o more, id) /\ BegunIn(events \o more, id)
  <2>1. PICK after : after = events \o more
    OBVIOUS
  <2>2. \A k \in DOMAIN more : Len(events) + k \in DOMAIN after /\ after[Len(events) + k] = more[k]
    BY <2>1, ToldMore
  <2>3. PICK b, e \in Nat : b = Len(events) + (m + 1) /\ e = Len(events) + (m + 2)
    BY <1>7
  <2>4. b \in DOMAIN after /\ after[b] = <<"begin", id>>
    BY <1>7, <2>2, <2>3
  <2>5. e \in DOMAIN after /\ after[e] = <<"end", id>>
    BY <1>7, <2>2, <2>3
  <2>6. b < e
    BY <1>7, <2>3
  <2> QED
    BY <2>1, <2>4, <2>5, <2>6 DEF EndedIn, BegunIn
<1>11. \A j \in CalledAt(next.tools) : j # n => j \in CalledAt(s.tools) /\ s.tools[j] = next.tools[j]
  BY <1>2, <1>3
<1>12. m + 2 \in DOMAIN more /\ more[m + 2] = <<"end", next.tools[n].id>>
  BY <1>7
<1>13. ToldSound(p, next, events \o more)
  BY <1>8, <1>9, <1>10, <1>11, <1>12, ToldEnding DEF StreamSound
<1> QED
  BY <1>4, <1>5, <1>6, <1>8, <1>13, GoesOn DEF StreamSound

(* A stream that fails, after what it could still tell. *)
LEMMA FailsSound ==
  ASSUME NEW p, NEW s, NEW events \in Seq(Notice), StreamSound(p, s, events), s.phase = "open",
         NEW next \in StreamState, next.phase = "failed", next.tools = s.tools, next.block = s.block,
         next.odd = s.odd, next.finish \in StopsOf(p) \cup {"none"}, WhySound(p, next),
         NEW more \in Seq(Notice), Quiet(more)
  PROVE  /\ more \o <<<<"failed">>>> \in Seq(Notice)
         /\ StreamSound(p, next, events \o (more \o <<<<"failed">>>>))
<1>1. PICK notice \in Notice : notice = <<"failed">>
  BY NoticesAre
<1>2. notice[1] = "failed" /\ notice[1] # "done"
  BY <1>1
<1>3. ToldIn(more, "failed") = {} /\ ToldIn(more, "done") = {}
  BY DEF Quiet, ToldIn
<1>4. PICK told : told = more \o <<notice>>
  OBVIOUS
<1>5. /\ told \in Seq(Notice) /\ Len(told) = Len(more) + 1
      /\ ToldIn(told, "failed") = {Len(told)} /\ ToldIn(told, "done") = {}
  <2>1. told \in Seq(Notice) /\ Len(told) = Len(more) + 1
    BY <1>4, ToldOne
  <2>2. ToldIn(told, "done") = {}
    BY <1>2, <1>3, <1>4, ToldOne
  <2>3. ToldIn(told, "failed") = ToldIn(more, "failed") \cup {Len(more) + 1}
    BY <1>2, <1>4, ToldOne
  <2> QED
    BY <1>3, <2>1, <2>2, <2>3
<1>6. PICK after : after = events \o told
  OBVIOUS
<1>7. ToldIn(after, "failed") = {Len(after)} /\ ToldIn(after, "done") = {}
  <2>1. ToldIn(events, "failed") = {} /\ ToldIn(events, "done") = {}
    BY DEF StreamSound, EndingsSound
  <2>2. Len(told) \in DOMAIN told
    BY <1>5
  <2>3. Len(after) = Len(events) + Len(told)
    BY <1>5, <1>6, ToldAfter
  <2>4. ToldIn(events \o told, "failed") = ToldIn(events, "failed") \cup {Len(events) + Len(told)}
    <3>1. PICK k \in DOMAIN told : k = Len(told)
      BY <2>2
    <3>2. ToldIn(told, "failed") = {k}
      BY <1>5, <3>1
    <3>3. ToldIn(events \o told, "failed") = ToldIn(events, "failed") \cup {Len(events) + k}
      BY <1>5, <3>2, ToldAfter
    <3> QED
      BY <3>1, <3>3
  <2>5. ToldIn(after, "done") = {}
    BY <1>5, <1>6, <2>1, ToldAfter
  <2> QED
    BY <1>6, <2>1, <2>3, <2>4, <2>5
<1>8. ToolsSound(p, next)
  BY DEF StreamSound, ToolsSound
<1>9. BlocksSound(p, next)
  BY DEF StreamSound, BlocksSound
<1>10. FinishSound(p, next)
  BY DEF FinishSound
<1>11. ToldSound(p, next, after) /\ EndingsSound(next, after)
  BY <1>7 DEF ToldSound, EndingsSound
<1> QED
  BY <1>1, <1>4, <1>5, <1>6, <1>8, <1>9, <1>10, <1>11 DEF StreamSound

(* A frame leaves the stream sound, and nothing is staged yet. *)
FrameSound ==
  /\ stream' \in StreamState /\ observed' \in Seq(Notice)
  /\ StreamSound(provider, stream', observed') /\ staged' = <<>> /\ stream'.phase # "done"

LEMMA FailFrame ==
  ASSUME StreamTypeOK, StreamInv, StreamOpen,
         NEW why \in Reasons, why \in {"arguments", "unnamed"} => provider # "openai",
         why = "delta" => provider = "anthropic", why = "unfinished" => stream.finish = "none",
         NEW more \in Seq(Notice), Quiet(more), FailAfter(more, why)
  PROVE  FrameSound
<1>1. PICK s \in StreamState, events \in Seq(Notice) :
        /\ s = stream /\ events = observed
        /\ StreamSound(provider, s, events) /\ s.phase = "open"
  BY DEF StreamTypeOK, StreamInv, StreamOpen
<1>2. PICK next : next = [s EXCEPT !.phase = "failed", !.why = why]
  OBVIOUS
<1>3. /\ next \in StreamState /\ next.phase = "failed" /\ next.tools = s.tools /\ next.block = s.block
      /\ next.odd = s.odd /\ next.finish = s.finish /\ next.why = why
  BY <1>2 DEF StreamState
<1>4. s.finish \in StopsOf(provider) \cup {"none"}
  BY <1>1 DEF StreamSound, FinishSound
<1>5. WhySound(provider, next)
  BY <1>1, <1>3 DEF WhySound
<1>6. /\ more \o <<<<"failed">>>> \in Seq(Notice)
      /\ StreamSound(provider, next, events \o (more \o <<<<"failed">>>>))
  BY <1>1, <1>3, <1>4, <1>5, FailsSound
<1>7. /\ stream' = next /\ staged' = <<>>
      /\ observed' = events \o (more \o <<<<"failed">>>>)
  BY <1>1, <1>2 DEF FailAfter, Tell
<1>8. observed' \in Seq(Notice)
  BY <1>6, <1>7, ToldAfter
<1> QED
  BY <1>3, <1>6, <1>7, <1>8 DEF FrameSound

(* ... after nothing, whatever the frame that it does not accept. *)
LEMMA FailsNow ==
  ASSUME StreamTypeOK, StreamInv, StreamOpen,
         NEW why \in Reasons, why \in {"arguments", "unnamed"} => provider # "openai",
         why = "delta" => provider = "anthropic", why = "unfinished" => stream.finish = "none",
         Fail(why)
  PROVE  FrameSound
<1>1. PICK more : more = <<>>
  OBVIOUS
<1>2. more \in Seq(Notice) /\ Quiet(more)
  BY <1>1 DEF Quiet
<1>3. FailAfter(more, why)
  BY <1>1 DEF Fail
<1> QED
  BY <1>2, <1>3, FailFrame

LEMMA AcceptFrame ==
  ASSUME StreamTypeOK, StreamInv, StreamOpen, NEW ok, NEW next, NEW more,
         Accept(ok, next, more), ok => Goes(provider, stream, observed, next, more)
  PROVE  FrameSound
<1>1. CASE ok
  <2>1. stream' = next /\ observed' = observed \o more /\ staged' = staged
    BY <1>1 DEF Accept, Tell
  <2>2. staged = <<>>
    BY DEF StreamInv, StagedSound, StreamOpen
  <2>3. observed \o more \in Seq(Notice)
    BY <1>1, ToldAfter DEF Goes, StreamTypeOK
  <2> QED
    BY <1>1, <2>1, <2>2, <2>3 DEF FrameSound, Goes
<1>2. CASE ~ok
  <2>1. Fail("protocol") /\ "protocol" \in Reasons
    BY <1>2 DEF Accept, Reasons
  <2> QED
    BY <2>1, FailsNow
<1> QED
  BY <1>1, <1>2

-----------------------------------------------------------------------------
(* The frames of each provider. *)
LEMMA SmallNotices ==
  \A more \in {<<>>, <<<<"text">>>>} : more \in Seq(Notice) /\ Quiet(more) /\ ToldIn(more, "end") = {}
<1>1. ASSUME NEW more, more = <<>>
      PROVE  more \in Seq(Notice) /\ Quiet(more) /\ ToldIn(more, "end") = {}
  BY <1>1 DEF Quiet, ToldIn
<1>2. ASSUME NEW more, more = <<<<"text">>>>
      PROVE  more \in Seq(Notice) /\ Quiet(more) /\ ToldIn(more, "end") = {}
  <2>1. more \in Seq(Notice)
    BY <1>2, NoticesAre
  <2>2. DOMAIN more = {1} /\ more[1] = <<"text">>
    BY <1>2
  <2> QED
    BY <2>1, <2>2 DEF Quiet, ToldIn
<1> QED
  BY <1>1, <1>2

LEMMA OpenStream ==
  ASSUME StreamTypeOK, StreamInv, StreamOpen
  PROVE  /\ stream \in StreamState /\ observed \in Seq(Notice) /\ stream.phase = "open"
         /\ StreamSound(provider, stream, observed) /\ staged = <<>>
         /\ BlocksSound(provider, stream) /\ FinishSound(provider, stream)
         /\ stream.finish \in StopsOf(provider) \cup {"none"}
BY DEF StreamTypeOK, StreamInv, StreamOpen, StagedSound, StreamSound, FinishSound

(* ContentBlockStart, InputJSONDelta and ContentBlockStop, of index i. *)
LEMMA ContentBlockStartSound ==
  ASSUME StreamTypeOK, StreamInv, StreamOpen, provider = "anthropic",
         NEW i \in Indexes, NEW type \in {"text", "thinking", "tool"}, NEW named \in BOOLEAN,
         ContentBlockStart(i, type, named)
  PROVE  FrameSound
<1> DEFINE s == stream
           events == observed
           reused == s.tools[i] # NoTool
           opened == [s EXCEPT !.block[i] = type, !.odd = @ \/ reused,
                               !.thought = @ \/ type = "thinking"]
           tool == [id |-> IF reused THEN AnotherId(i) ELSE ServerId(i), named |-> TRUE, args |-> "empty"]
           ok == Active /\ s.block[i] = "none"
<1>1. /\ s \in StreamState /\ events \in Seq(Notice) /\ s.phase = "open"
      /\ StreamSound("anthropic", s, events)
  BY OpenStream
<1>2. tool \in Tool /\ tool.id \in IdsOf("anthropic", i) /\ Ready(tool)
  BY IdsAreTyped DEF Tool, IdsOf, Ready
<1>3. /\ opened \in StreamState /\ opened.phase = "open" /\ opened.tools = s.tools
      /\ opened.block[i] = type /\ \A j \in Indexes : j # i => opened.block[j] = s.block[j]
      /\ opened.odd = (s.odd \/ reused) /\ opened.why = s.why /\ opened.finish = s.finish
      /\ opened.stopped = s.stopped
  BY <1>1 DEF StreamState
<1>4. ok => s.block[i] = "none" /\ ~s.stopped
  BY DEF Active
<1>5. \/ Fail("unnamed")
      \/ Accept(ok, IF type = "tool" THEN [opened EXCEPT !.tools[i] = tool] ELSE opened,
                IF type = "tool" THEN <<<<"begin", tool.id>>>> ELSE <<>>)
  BY DEF ContentBlockStart
<1> HIDE DEF ok, reused, opened, tool, s, events
<1>8. CASE Fail("unnamed")
  BY <1>8, FailsNow DEF Reasons
<1> SUFFICES ASSUME Accept(ok, IF type = "tool" THEN [opened EXCEPT !.tools[i] = tool] ELSE opened,
                           IF type = "tool" THEN <<<<"begin", tool.id>>>> ELSE <<>>)
             PROVE  FrameSound
  BY <1>5, <1>8
<1>6. CASE type # "tool"
  <2>1. Accept(ok, opened, <<>>)
    BY <1>6
  <2>2. ok => Goes("anthropic", s, events, opened, <<>>)
    BY <1>1, <1>3, <1>4, <1>6, TextBlockOpens DEF reused
  <2> QED
    BY <2>1, <2>2, AcceptFrame DEF s, events
<1>7. CASE type = "tool"
  <2> DEFINE next == [opened EXCEPT !.tools[i] = tool]
  <2>1. Accept(ok, next, <<<<"begin", tool.id>>>>)
    BY <1>7
  <2>2. /\ next \in StreamState /\ next.phase = "open"
        /\ next.tools[i] = tool /\ \A j \in Indexes : j # i => next.tools[j] = s.tools[j]
        /\ next.block = opened.block /\ next.odd = opened.odd /\ next.why = opened.why
        /\ next.finish = opened.finish /\ next.stopped = opened.stopped
    BY <1>2, <1>3 DEF StreamState
  <2> HIDE DEF next
  <2>3. ToolOpened(s, next, i, tool)
    BY <1>3, <1>7, <2>2 DEF reused, ToolOpened
  <2>4. ok => Goes("anthropic", s, events, next, <<<<"begin", tool.id>>>>)
    BY <1>1, <1>2, <1>3, <1>4, <2>2, <2>3, ToolBlockOpens
  <2> QED
    BY <2>1, <2>4, AcceptFrame DEF s, events
<1> QED
  BY <1>6, <1>7

LEMMA InputJSONDeltaSound ==
  ASSUME StreamTypeOK, StreamInv, StreamOpen, provider = "anthropic",
         NEW i \in Indexes, InputJSONDelta(i)
  PROVE  FrameSound
<1> DEFINE s == stream
           events == observed
           ok == Active /\ s.block[i] # "none" /\ s.tools[i] # NoTool
<1>1. /\ s \in StreamState /\ events \in Seq(Notice) /\ s.phase = "open"
      /\ StreamSound("anthropic", s, events)
  BY OpenStream
<1>2. PICK args \in ArgsAfterChunk(s.tools[i].args) :
        Accept(ok, [s EXCEPT !.tools[i].args = args], <<>>)
  BY DEF InputJSONDelta
<1>3. args \in {"broken", "whole"}
  BY <1>2 DEF ArgsAfterChunk
<1> DEFINE next == [s EXCEPT !.tools[i].args = args]
<1>4. s.tools[i] \in Tool
  BY <1>1 DEF StreamState
<1>5. /\ next \in StreamState /\ next.phase = "open"
      /\ next.tools[i] = [s.tools[i] EXCEPT !.args = args]
      /\ \A j \in Indexes : j # i => next.tools[j] = s.tools[j]
      /\ next.block = s.block /\ next.odd = s.odd /\ next.why = s.why
      /\ next.finish = s.finish /\ next.stopped = s.stopped
  <2>1. [s.tools[i] EXCEPT !.args = args] \in Tool
    BY <1>3, <1>4 DEF Tool
  <2> QED
    BY <1>1, <2>1 DEF StreamState
<1>6. /\ next.tools[i] # NoTool /\ next.tools[i].id = s.tools[i].id
      /\ next.tools[i].named = s.tools[i].named
  <2>1. next.tools[i].args = args
    BY <1>4, <1>5 DEF Tool
  <2>2. NoTool.args = "none"
    BY DEF NoTool
  <2> QED
    BY <1>3, <1>4, <1>5, <2>1, <2>2 DEF Tool
<1>7. ok => s.tools[i] # NoTool
  OBVIOUS
<1> HIDE DEF next, ok, s, events
<1>8. ok => Goes("anthropic", s, events, next, <<>>)
  BY <1>1, <1>5, <1>6, <1>7, ArgumentsGrow
<1>9. Accept(ok, next, <<>>)
  BY <1>2 DEF next
<1> QED
  BY <1>8, <1>9, AcceptFrame DEF s, events

LEMMA ContentBlockStopSound ==
  ASSUME StreamTypeOK, StreamInv, StreamOpen, provider = "anthropic",
         NEW i \in Indexes, ContentBlockStop(i)
  PROVE  FrameSound
<1> DEFINE s == stream
           events == observed
           tool == s.tools[i]
           ok == Active /\ s.block[i] # "none"
           next == [s EXCEPT !.block[i] = "none"]
<1>1. /\ s \in StreamState /\ events \in Seq(Notice) /\ s.phase = "open"
      /\ StreamSound("anthropic", s, events)
  BY OpenStream
<1>2. \/ Fail("arguments")
      \/ Accept(ok, next, IF tool # NoTool THEN <<<<"end", tool.id>>>> ELSE <<>>)
  BY DEF ContentBlockStop
<1>3. /\ next \in StreamState /\ next.phase = "open" /\ next.tools = s.tools
      /\ next.block[i] = "none" /\ \A j \in Indexes : j # i => next.block[j] = s.block[j]
      /\ next.odd = s.odd /\ next.why = s.why /\ next.finish = s.finish /\ next.stopped = s.stopped
  BY <1>1 DEF StreamState
<1>4. PICK id, more : id = tool.id /\ more = IF tool # NoTool THEN <<<<"end", id>>>> ELSE <<>>
  OBVIOUS
<1>5. more \in Seq(Notice)
  <2>1. id \in StreamIds
    BY <1>1, <1>4 DEF StreamState, Tool
  <2> QED
    BY <1>4, <2>1, NoticesAre
<1>6. ok => s.block[i] # "none"
  OBVIOUS
<1>7. Accept(ok, next, more) \/ Fail("arguments")
  BY <1>2, <1>4
<1> HIDE DEF next, ok, s, events
<1>8. ok => Goes("anthropic", s, events, next, more)
  BY <1>1, <1>3, <1>4, <1>5, <1>6, BlockCloses
<1>9. CASE Fail("arguments")
  BY <1>9, FailsNow DEF Reasons
<1>10. CASE Accept(ok, next, more)
  BY <1>8, <1>10, AcceptFrame DEF s, events
<1> QED
  BY <1>7, <1>9, <1>10

(* Starts, texts and stops: a frame that changes no tool and no block. *)
LEMMA ListensSound ==
  ASSUME StreamTypeOK, StreamInv, StreamOpen, NEW ok, NEW next, NEW more \in {<<>>, <<<<"text">>>>},
         Accept(ok, next, more),
         ok => /\ next \in StreamState /\ next.phase = "open"
               /\ next.tools = stream.tools /\ next.block = stream.block
               /\ ~next.odd => ~stream.odd
               /\ next.why = stream.why
               /\ next.finish \in StopsOf(provider) \cup {"none"}
               /\ provider = "openai" => next.finish = stream.finish
               /\ provider = "anthropic" /\ next.stopped =>
                    stream.stopped \/ \A i \in Indexes : stream.block[i] = "none"
  PROVE  FrameSound
<1>1. more \in Seq(Notice) /\ Quiet(more) /\ ToldIn(more, "end") = {}
  BY SmallNotices
<1>2. PICK p, s, events : p = provider /\ s = stream /\ events = observed
  OBVIOUS
<1>3. s \in StreamState /\ events \in Seq(Notice) /\ s.phase = "open" /\ StreamSound(p, s, events)
  BY <1>2, OpenStream
<1>4. ok => Goes(p, s, events, next, more)
  BY <1>1, <1>2, <1>3, Listens
<1> QED
  BY <1>2, <1>4, AcceptFrame

LEMMA AnthropicFrameSound ==
  ASSUME StreamTypeOK, StreamInv, AnthropicFrame
  PROVE  FrameSound
<1>0. StreamOpen /\ provider = "anthropic"
  BY DEF AnthropicFrame
<1>1. /\ stream \in StreamState /\ stream.phase = "open"
      /\ stream.finish \in AnthropicStops \cup {"none"} /\ StopsOf(provider) = AnthropicStops
  BY <1>0, OpenStream DEF StopsOf
<1>2. <<>> \in {<<>>, <<<<"text">>>>} /\ <<<<"text">>>> \in {<<>>, <<<<"text">>>>}
  OBVIOUS
<1>3. CASE MessageStart
  <2> DEFINE next == [stream EXCEPT !.started = TRUE]
  <2>1. Accept(~stream.started, next, <<>>)
    BY <1>3 DEF MessageStart
  <2>2. /\ next \in StreamState /\ next.phase = "open"
        /\ next.tools = stream.tools /\ next.block = stream.block /\ next.odd = stream.odd
        /\ next.why = stream.why /\ next.finish = stream.finish /\ next.stopped = stream.stopped
    BY <1>1 DEF StreamState
  <2> HIDE DEF next
  <2> QED
    BY <1>0, <1>1, <1>2, <2>1, <2>2, ListensSound
<1>4. ASSUME NEW finish \in AnthropicStops, MessageDelta(finish)
      PROVE  FrameSound
  <2> DEFINE next == [stream EXCEPT !.finish = finish]
  <2>1. Accept(Active /\ stream.finish = "none", next, <<>>)
    BY <1>4 DEF MessageDelta
  <2>2. /\ next \in StreamState /\ next.phase = "open"
        /\ next.tools = stream.tools /\ next.block = stream.block /\ next.odd = stream.odd
        /\ next.why = stream.why /\ next.finish = finish /\ next.stopped = stream.stopped
    BY <1>1 DEF StreamState
  <2> HIDE DEF next
  <2> QED
    BY <1>0, <1>1, <1>2, <2>1, <2>2, ListensSound
<1>5. CASE MessageStop
  <2> DEFINE next == [stream EXCEPT !.stopped = TRUE]
             ok == Active /\ \A i \in Indexes : stream.block[i] = "none"
  <2>1. \/ stream.finish = "none" /\ Fail("unfinished")
        \/ Accept(ok, next, <<>>)
    BY <1>5 DEF MessageStop
  <2>4. CASE stream.finish = "none" /\ Fail("unfinished")
    BY <1>0, <2>4, FailsNow DEF Reasons
  <2>2. /\ next \in StreamState /\ next.phase = "open"
        /\ next.tools = stream.tools /\ next.block = stream.block /\ next.odd = stream.odd
        /\ next.why = stream.why /\ next.finish = stream.finish
    BY <1>1 DEF StreamState
  <2>3. ok => \A i \in Indexes : stream.block[i] = "none"
    OBVIOUS
  <2> HIDE DEF next, ok
  <2>5. CASE Accept(ok, next, <<>>)
    BY <1>0, <1>1, <1>2, <2>2, <2>3, <2>5, ListensSound
  <2> QED
    BY <2>1, <2>4, <2>5
<1>6. ASSUME NEW i \in Indexes, TextDelta(i)
      PROVE  FrameSound
  <2> DEFINE next == [stream EXCEPT !.odd = @ \/ stream.block[i] = "thinking"]
             ok == Active /\ stream.block[i] \in {"text", "thinking"}
  <2>1. Accept(ok, next, <<<<"text">>>>)
    BY <1>6 DEF TextDelta
  <2>2. /\ next \in StreamState /\ next.phase = "open"
        /\ next.tools = stream.tools /\ next.block = stream.block /\ (~next.odd => ~stream.odd)
        /\ next.why = stream.why /\ next.finish = stream.finish /\ next.stopped = stream.stopped
    BY <1>1 DEF StreamState
  <2> HIDE DEF next, ok
  <2> QED
    BY <1>0, <1>1, <1>2, <2>1, <2>2, ListensSound
<1>9. ASSUME NEW i \in Indexes, OtherDelta(i)
      PROVE  FrameSound
  <2>1. Fail("delta") \/ Fail("protocol")
    BY <1>9 DEF OtherDelta
  <2> QED
    BY <1>0, <2>1, FailsNow DEF Reasons
<1>7. ASSUME NEW i \in Indexes, InputJSONDelta(i) \/ ContentBlockStop(i)
      PROVE  FrameSound
  BY <1>0, <1>7, InputJSONDeltaSound, ContentBlockStopSound
<1>8. ASSUME NEW i \in Indexes, NEW type \in {"text", "thinking", "tool"}, NEW named \in BOOLEAN,
             ContentBlockStart(i, type, named)
      PROVE  FrameSound
  BY <1>0, <1>8, ContentBlockStartSound
<1> QED
  BY <1>3, <1>4, <1>5, <1>6, <1>7, <1>8, <1>9 DEF AnthropicFrame

(* The calls of a stream in an order: the indexes in this order. *)
Reordered(tools, order) == [k \in DOMAIN order |-> InOrder(CalledAt(tools))[order[k]]]

LEMMA CalledInOrder ==
  ASSUME NEW tools, NEW order, order \in [DOMAIN Called(tools) -> DOMAIN Called(tools)],
         \A k, l \in DOMAIN order : order[k] = order[l] => k = l,
         NEW n, n = Cardinality(CalledAt(tools)), NEW f, f = Reordered(tools, order)
  PROVE  /\ n \in Nat /\ DOMAIN order = 1 .. n /\ f \in [1 .. n -> CalledAt(tools)]
         /\ \A i \in CalledAt(tools) : \E k \in 1 .. n : f[k] = i
         /\ \A k \in 1 .. n : Called(tools)[order[k]] = tools[f[k]]
<1> DEFINE at == InOrder(CalledAt(tools))
<1>1. n \in Nat
  BY CalledIs
<1>2. DOMAIN Called(tools) = 1 .. n /\ DOMAIN order = 1 .. n
  BY <1>1, CalledIs
<1>3. \A k \in 1 .. n : at[k] \in CalledAt(tools) /\ Called(tools)[k] = tools[at[k]]
  BY <1>1, CalledIs
<1>4. \A i \in CalledAt(tools) : \E k \in 1 .. n : at[k] = i
  BY <1>1, CalledIs
<1>5. order \in [1 .. n -> 1 .. n] /\ \A k, l \in 1 .. n : order[k] = order[l] => k = l
  BY <1>2
<1>6. \A l \in 1 .. n : \E k \in 1 .. n : order[k] = l
  <2>1. IsFiniteSet(1 .. n)
    <3>1. 1 \in Int /\ n \in Int
      BY <1>1
    <3> QED
      BY <3>1, FS_Interval
  <2> DEFINE S == 1 .. n
  <2>2. order \in Injection(S, S)
    BY <1>5 DEF Injection, IsInjective
  <2> HIDE DEF S
  <2>3. order \in Surjection(S, S)
    BY <2>1, <2>2, FS_Injection DEF S
  <2> QED
    BY <2>3 DEF Surjection, S
<1>10. f = [k \in 1 .. n |-> at[order[k]]]
  BY <1>2 DEF Reordered
<1> HIDE DEF at
<1>7. f \in [1 .. n -> CalledAt(tools)]
  BY <1>3, <1>5, <1>10
<1>8. \A k \in 1 .. n : Called(tools)[order[k]] = tools[f[k]]
  BY <1>3, <1>5, <1>10
<1>9. ASSUME NEW i \in CalledAt(tools)
      PROVE  \E k \in 1 .. n : f[k] = i
  <2>1. PICK l \in 1 .. n : at[l] = i
    BY <1>4
  <2>2. PICK k \in 1 .. n : order[k] = l
    BY <1>6
  <2> QED
    BY <1>10, <2>1, <2>2
<1> QED
  BY <1>1, <1>2, <1>7, <1>8, <1>9

LEMMA ToolCallDeltaSound ==
  ASSUME StreamTypeOK, StreamInv, StreamOpen, provider = "openai",
         NEW i \in Indexes, NEW named \in BOOLEAN, NEW chunk \in BOOLEAN,
         NEW id \in {NoId, ServerId(i), AnotherId(i)}, ToolCallDelta(i, id, named, chunk)
  PROVE  FrameSound
<1> DEFINE s == stream
           events == observed
           old == s.tools[i]
           known == [id |-> IF id = NoId THEN old.id ELSE id, named |-> old.named \/ named,
                     args |-> IF old = NoTool THEN "empty" ELSE old.args]
           begins == Ready(known) /\ ~Ready(old)
           renamed == Ready(old) /\ known.id # old.id
           next == [s EXCEPT !.tools[i] = known, !.odd = @ \/ renamed]
           ready == ~s.stopped /\ s.finish = "none"
<1>1. /\ s \in StreamState /\ events \in Seq(Notice) /\ s.phase = "open"
      /\ StreamSound("openai", s, events)
  BY OpenStream
<1>2. old \in Tool /\ old.id \in IdsOf("openai", i)
  <2>1. old \in Tool
    BY <1>1 DEF StreamState
  <2>2. CASE old = NoTool
    BY <2>1, <2>2 DEF NoId, IdsOf
  <2>3. CASE old # NoTool
    BY <1>1, <2>1, <2>3 DEF StreamSound, ToolsSound, CalledAt
  <2> QED
    BY <2>2, <2>3
<1>3. known \in Tool /\ known.id \in IdsOf("openai", i)
  BY <1>2, IdsAreTyped DEF Tool, IdsOf
<1>4. Ready(old) => Ready(known)
  BY <1>2 DEF Ready, Tool
<1> DEFINE begun == IF begins THEN <<<<"begin", known.id>>>> ELSE <<>>
<1>4a. IF ~chunk THEN Accept(ready, next, begun)
       ELSE \E args \in ArgsAfterChunk(known.args) :
              Accept(ready /\ Ready(known), [next EXCEPT !.tools[i].args = args], begun)
  BY Zenon DEF ToolCallDelta, Ready
<1>5. PICK more, told : told = known.id /\ more = begun
  OBVIOUS
<1>6. more \in Seq(Notice)
  BY <1>3, <1>5, NoticesAre DEF Tool
<1>7. /\ next \in StreamState /\ next.phase = "open" /\ next.finish = s.finish /\ next.why = s.why
      /\ next.tools[i] = known /\ \A j \in Indexes : j # i => next.tools[j] = s.tools[j]
      /\ next.odd = (s.odd \/ renamed)
  <2>1. renamed \in BOOLEAN /\ (s.odd \/ renamed) \in BOOLEAN
    BY DEF Ready
  <2> HIDE DEF known, renamed
  <2> QED
    BY <1>1, <1>3, <2>1 DEF StreamState
<1>8. \/ ~chunk /\ Accept(ready, next, more)
      \/ chunk /\ \E args \in ArgsAfterChunk(known.args) :
                    Accept(ready /\ Ready(known), [next EXCEPT !.tools[i].args = args], more)
  <2> HIDE DEF known, next, begins, renamed, ready, begun
  <2> QED
    BY <1>4a, <1>5
<1>9. ready => s.finish = "none"
  OBVIOUS
<1>10. begins \in BOOLEAN /\ (begins <=> Ready(known) /\ ~Ready(old))
  BY DEF Ready
<1>11. ~next.odd => ~s.odd /\ (Ready(old) => old.id = known.id)
  BY <1>7
<1> HIDE DEF known, next, begins, renamed, ready, s, events
<1>12. CASE Accept(ready, next, more)
  <2>1. ready => Goes("openai", s, events, next, more)
    BY <1>1, <1>3, <1>4, <1>5, <1>6, <1>7, <1>9, <1>10, <1>11, CallContinues
  <2> QED
    BY <1>12, <2>1, AcceptFrame DEF s, events
<1>13. ASSUME NEW args \in ArgsAfterChunk(known.args),
              Accept(ready /\ Ready(known), [next EXCEPT !.tools[i].args = args], more)
       PROVE  FrameSound
  <2> DEFINE heard == [next EXCEPT !.tools[i].args = args]
             tool == [known EXCEPT !.args = args]
  <2>1. args \in {"broken", "whole"}
    BY <1>13 DEF ArgsAfterChunk
  <2>2. tool \in Tool /\ tool.id = known.id /\ tool.named = known.named
    BY <1>3, <2>1 DEF Tool
  <2>3. /\ heard \in StreamState /\ heard.phase = "open" /\ heard.finish = s.finish /\ heard.why = s.why
        /\ heard.tools[i] = tool /\ \A j \in Indexes : j # i => heard.tools[j] = s.tools[j]
        /\ heard.odd = next.odd
    BY <1>7, <2>2 DEF StreamState
  <2>4. Ready(tool) <=> Ready(known)
    BY <2>2 DEF Ready
  <2> HIDE DEF heard, tool
  <2>5. ready /\ Ready(known) => Goes("openai", s, events, heard, more)
    BY <1>1, <1>3, <1>4, <1>5, <1>6, <1>9, <1>10, <1>11, <2>2, <2>3, <2>4, CallContinues
  <2>6. Accept(ready /\ Ready(known), heard, more)
    BY <1>13 DEF heard
  <2> QED
    BY <2>5, <2>6, AcceptFrame DEF s, events
<1> QED
  BY <1>8, <1>12, <1>13

LEMMA FinishReasonSound ==
  ASSUME StreamTypeOK, StreamInv, StreamOpen, provider = "openai",
         NEW finish \in OpenAIStops, FinishReason(finish)
  PROVE  FrameSound
<1> DEFINE s == stream
           events == observed
<1>1. /\ s \in StreamState /\ events \in Seq(Notice) /\ s.phase = "open"
      /\ StreamSound("openai", s, events) /\ staged = <<>>
  BY OpenStream
<1> DEFINE toolsOf(order) == [n \in DOMAIN order |-> Called(s.tools)[order[n]]]
           badOf(tools) == {n \in DOMAIN tools :
                              tools[n].id = NoId \/ ~tools[n].named \/ ~Parsed(tools[n].args)}
           endsOf(tools, n) == [m \in 1 .. n |-> <<"end", tools[m].id>>]
           whyOf(tool) == IF tool.id # NoId /\ tool.named THEN "arguments" ELSE "unnamed"
           fails(tools, n) ==
             /\ stream' = [stream EXCEPT !.phase = "failed", !.finish = finish, !.why = whyOf(tools[n])]
             /\ Tell(endsOf(tools, n - 1) \o <<<<"failed">>>>) /\ staged' = <<>>
           finishes(tools) ==
             /\ stream' = [stream EXCEPT !.finish = finish]
             /\ Tell(endsOf(tools, Len(tools))) /\ UNCHANGED staged
           body(tools) ==
             IF stream.stopped \/ stream.finish # "none" THEN Fail("protocol")
             ELSE IF badOf(tools) = {} THEN finishes(tools) ELSE fails(tools, FirstOf(badOf(tools)))
<1>2. \E order \in {o \in [DOMAIN Called(s.tools) -> DOMAIN Called(s.tools)] :
                     \A m, n \in DOMAIN o : o[m] = o[n] => m = n} : body(toolsOf(order))
  BY DEF FinishReason, FirstOf
<1> HIDE DEF body
<1>3. PICK order \in [DOMAIN Called(s.tools) -> DOMAIN Called(s.tools)] :
        (\A k, l \in DOMAIN order : order[k] = order[l] => k = l) /\ body(toolsOf(order))
  BY <1>2
<1>3a. PICK at, n, f : at = s.tools /\ n = Cardinality(CalledAt(at)) /\ f = Reordered(at, order)
  OBVIOUS
<1>4. /\ n \in Nat /\ DOMAIN order = 1 .. n /\ f \in [1 .. n -> CalledAt(at)]
      /\ \A i \in CalledAt(at) : \E k \in 1 .. n : f[k] = i
      /\ \A k \in 1 .. n : Called(at)[order[k]] = at[f[k]]
  <2> HIDE DEF s, body
  <2>1. /\ order \in [DOMAIN Called(at) -> DOMAIN Called(at)]
        /\ \A k, l \in DOMAIN order : order[k] = order[l] => k = l
    BY <1>3, <1>3a
  <2> QED
    BY <1>3a, <2>1, CalledInOrder
<1>4f. /\ n \in Nat /\ f \in [1 .. n -> CalledAt(s.tools)]
       /\ n = Cardinality(CalledAt(s.tools)) /\ DOMAIN order = 1 .. n
       /\ \A i \in CalledAt(s.tools) : \E k \in 1 .. n : f[k] = i
       /\ \A k \in 1 .. n : Called(s.tools)[order[k]] = s.tools[f[k]]
  <2> HIDE DEF s
  <2> QED
    BY <1>3a, <1>4
<1>4n. n \in Nat
  BY <1>4
<1> USE <1>4n
<1>5. PICK tools : tools = toolsOf(order)
  OBVIOUS
<1>6. /\ body(tools) /\ DOMAIN tools = 1 .. n /\ Len(tools) = n
      /\ \A k \in 1 .. n : tools[k] = s.tools[f[k]]
  <2>1. tools = [k \in 1 .. n |-> Called(s.tools)[order[k]]]
    BY <1>4f, <1>5
  <2>2. DOMAIN tools = 1 .. n /\ Len(tools) = n
    BY <2>1
  <2> QED
    BY <1>3, <1>4f, <1>5, <2>1, <2>2
<1>7. \A k \in 1 .. n : f[k] \in CalledAt(s.tools) /\ tools[k] \in Tool
  BY <1>1, <1>4f, <1>6 DEF StreamState, CalledAt
<1> HIDE DEF s, events, toolsOf
<1>8. ASSUME NEW m \in Nat, m <= n
      PROVE  /\ endsOf(tools, m) \in Seq(Notice) /\ Len(endsOf(tools, m)) = m /\ Quiet(endsOf(tools, m))
             /\ \A k \in 1 .. m : endsOf(tools, m)[k] = <<"end", s.tools[f[k]].id>>
  <2> DEFINE ends == endsOf(tools, m)
  <2>1. \A k \in 1 .. m : <<"end", tools[k].id>> \in Notice /\ tools[k].id = s.tools[f[k]].id
    <3> SUFFICES ASSUME NEW k \in 1 .. m
                 PROVE  <<"end", tools[k].id>> \in Notice /\ tools[k].id = s.tools[f[k]].id
      OBVIOUS
    <3>1. k \in 1 .. n
      BY <1>8
    <3>2. tools[k].id \in StreamIds
      BY <1>7, <3>1 DEF Tool
    <3> QED
      BY <1>6, <3>1, <3>2, NoticesAre
  <2>2. ends = [k \in 1 .. m |-> <<"end", tools[k].id>>]
    OBVIOUS
  <2>3. ends \in Seq(Notice) /\ Len(ends) = m /\ DOMAIN ends = 1 .. m
    BY <2>1, <2>2
  <2>4. \A k \in 1 .. m : ends[k] = <<"end", tools[k].id>> /\ ends[k][1] = "end"
    BY <2>2
  <2> HIDE DEF ends
  <2>5. Quiet(ends)
    BY <2>3, <2>4 DEF Quiet
  <2> QED
    BY <2>1, <2>3, <2>4, <2>5 DEF ends
<1> HIDE DEF endsOf
<1>9. CASE Fail("protocol")
  BY <1>9, FailsNow DEF Reasons
<1>10. CASE stream.finish = "none" /\ badOf(tools) = {} /\ finishes(tools)
  <2> DEFINE next == [s EXCEPT !.finish = finish]
  <2>1. PICK more : more = endsOf(tools, n)
    OBVIOUS
  <2>2. stream' = next /\ observed' = events \o more /\ staged' = <<>>
    BY <1>1, <1>6, <1>10, <2>1 DEF Tell, s, events
  <2>3. more \in Seq(Notice) /\ Len(more) = n /\ \A k \in 1 .. n : more[k] = <<"end", s.tools[f[k]].id>>
    <3>1. n <= n
      OBVIOUS
    <3> QED
      BY <1>8, <2>1, <3>1
  <2>4. /\ next \in StreamState /\ next.phase = "open" /\ next.tools = s.tools
        /\ next.odd = s.odd /\ next.why = s.why /\ next.finish = finish
    BY <1>1 DEF StreamState
  <2>5. \A i \in CalledAt(s.tools) : Ready(s.tools[i]) /\ Parsed(s.tools[i].args)
    <3> SUFFICES ASSUME NEW i \in CalledAt(s.tools)
                 PROVE  Ready(s.tools[i]) /\ Parsed(s.tools[i].args)
      OBVIOUS
    <3>1. PICK k \in 1 .. n : f[k] = i
      BY <1>4f
    <3>2. tools[k] = s.tools[i]
      BY <1>6, <3>1
    <3>3. k \notin badOf(tools) /\ k \in DOMAIN tools
      BY <1>6, <1>10, <3>1
    <3> QED
      BY <3>2, <3>3 DEF Ready
  <2> HIDE DEF next
  <2>6. s.finish = "none"
    BY <1>10 DEF s
  <2>7. Goes("openai", s, events, next, more)
    BY <1>1, <1>4f, <2>3, <2>4, <2>5, <2>6, CallsEnd
  <2>8. next \in StreamState /\ next.phase = "open" /\ StreamSound("openai", next, events \o more)
    BY <2>7 DEF Goes
  <2>9. events \o more \in Seq(Notice)
    BY <1>1, <2>3, ToldAfter
  <2> QED
    BY <2>2, <2>8, <2>9 DEF FrameSound
<1>11. CASE badOf(tools) # {} /\ fails(tools, FirstOf(badOf(tools)))
  <2> DEFINE bad == badOf(tools)
  <2>1. bad \in SUBSET Nat /\ IsFiniteSet(bad) /\ bad \subseteq 1 .. n
    <3>1. bad \subseteq 1 .. n
      BY <1>6
    <3>2. IsFiniteSet(1 .. n)
      <4>1. 1 \in Int /\ n \in Int
        OBVIOUS
      <4> QED
        BY <4>1, FS_Interval
    <3> HIDE DEF bad
    <3> QED
      <4>1. \A k \in 1 .. n : k \in Nat
        OBVIOUS
      <4>2. IsFiniteSet(bad)
        BY <3>1, <3>2, FS_Subset
      <4> QED
        BY <3>1, <4>1, <4>2
  <2>2. PICK k \in bad : k = FirstOf(bad)
    BY <1>11, <2>1, FirstOfIs
  <2>3. k \in 1 .. n /\ k - 1 \in Nat /\ k - 1 <= n
    BY <2>1, <2>2
  <2>4. PICK why, more : why = whyOf(tools[k]) /\ more = endsOf(tools, k - 1)
    OBVIOUS
  <2> DEFINE next == [s EXCEPT !.phase = "failed", !.finish = finish, !.why = why]
  <2>5. stream' = next /\ observed' = events \o (more \o <<<<"failed">>>>) /\ staged' = <<>>
    BY <1>11, <2>2, <2>4 DEF Tell, s, events
  <2>6. more \in Seq(Notice) /\ Quiet(more)
    BY <1>8, <2>3, <2>4
  <2>7. why \in {"arguments", "unnamed"}
    BY <2>4
  <2>8. /\ next \in StreamState /\ next.phase = "failed" /\ next.tools = s.tools /\ next.block = s.block
        /\ next.odd = s.odd /\ next.finish = finish /\ next.why = why
    BY <1>1, <2>7 DEF StreamState, Reasons
  <2>9. WhySound("openai", next)
    <3>2. f[k] \in CalledAt(s.tools) /\ tools[k] = s.tools[f[k]]
      BY <1>6, <1>7, <2>3
    <3>3. tools[k].id = NoId \/ ~tools[k].named \/ ~Parsed(tools[k].args)
      BY <2>2
    <3>4. why = "arguments" => ~Parsed(tools[k].args)
      BY <2>4, <3>3
    <3>5. why = "unnamed" => ~Ready(tools[k])
      BY <2>4 DEF Ready
    <3> QED
      BY <2>7, <2>8, <3>2, <3>4, <3>5 DEF WhySound
  <2>10. finish \in StopsOf("openai") \cup {"none"}
    BY DEF StopsOf
  <2> HIDE DEF next, bad, fails, finishes, whyOf
  <2>11. /\ more \o <<<<"failed">>>> \in Seq(Notice)
         /\ StreamSound("openai", next, events \o (more \o <<<<"failed">>>>))
    BY <1>1, <2>6, <2>8, <2>9, <2>10, FailsSound
  <2>12. events \o (more \o <<<<"failed">>>>) \in Seq(Notice)
    BY <1>1, <2>11, ToldAfter
  <2> QED
    BY <2>5, <2>8, <2>11, <2>12 DEF FrameSound
<1>12. body(tools)
  BY <1>6
<1> HIDE DEF badOf, fails, finishes
<1> QED
  BY <1>9, <1>10, <1>11, <1>12 DEF body

LEMMA OpenAIFrameSound ==
  ASSUME StreamTypeOK, StreamInv, OpenAIFrame
  PROVE  FrameSound
<1>0. StreamOpen /\ provider = "openai"
  BY DEF OpenAIFrame
<1>1. /\ stream \in StreamState /\ stream.phase = "open"
      /\ stream.finish \in StopsOf(provider) \cup {"none"}
  BY <1>0, OpenStream
<1>2. <<>> \in {<<>>, <<<<"text">>>>} /\ <<<<"text">>>> \in {<<>>, <<<<"text">>>>}
  OBVIOUS
<1>3. CASE ContentDelta
  <2>1. Accept(~stream.stopped /\ stream.finish = "none", stream, <<<<"text">>>>)
    BY <1>3 DEF ContentDelta
  <2> QED
    BY <1>0, <1>1, <1>2, <2>1, ListensSound
<1>7. CASE ReasoningDelta
  <2> DEFINE next == [stream EXCEPT !.thought = TRUE]
             ok == ~stream.stopped /\ stream.finish = "none"
  <2>1. Accept(ok, next, <<>>)
    BY <1>7 DEF ReasoningDelta, Thought
  <2>2. /\ next \in StreamState /\ next.phase = "open"
        /\ next.tools = stream.tools /\ next.block = stream.block /\ next.odd = stream.odd
        /\ next.why = stream.why /\ next.finish = stream.finish
    BY <1>1 DEF StreamState
  <2> HIDE DEF next, ok
  <2> QED
    BY <1>0, <1>1, <1>2, <2>1, <2>2, ListensSound
<1>4. CASE Done
  <2> DEFINE next == [stream EXCEPT !.stopped = TRUE]
  <2>1. Accept(~stream.stopped, next, <<>>)
    BY <1>4 DEF Done
  <2>2. /\ next \in StreamState /\ next.phase = "open"
        /\ next.tools = stream.tools /\ next.block = stream.block /\ next.odd = stream.odd
        /\ next.why = stream.why /\ next.finish = stream.finish
    BY <1>1 DEF StreamState
  <2> HIDE DEF next
  <2> QED
    BY <1>0, <1>1, <1>2, <2>1, <2>2, ListensSound
<1>5. ASSUME NEW finish \in OpenAIStops, FinishReason(finish)
      PROVE  FrameSound
  BY <1>0, <1>5, FinishReasonSound
<1>6. ASSUME NEW i \in Indexes, NEW named \in BOOLEAN, NEW chunk \in BOOLEAN,
             NEW id \in {NoId, ServerId(i)} \cup {AnotherId(j) : j \in {i} \ {k \in Indexes : stream.tools[k].id = NoId}},
             ToolCallDelta(i, id, named, chunk)
      PROVE  FrameSound
  <2>1. id \in {NoId, ServerId(i), AnotherId(i)}
    BY <1>6
  <2> QED
    BY <1>0, <1>6, <2>1, ToolCallDeltaSound
<1> QED
  BY <1>3, <1>4, <1>5, <1>6, <1>7 DEF OpenAIFrame

LEMMA GeminiDataSound ==
  ASSUME StreamTypeOK, StreamInv, StreamOpen, provider = "gemini",
         NEW text \in BOOLEAN, NEW call \in BOOLEAN, NEW named \in BOOLEAN,
         NEW finish \in GeminiStops \cup {"none"}, GeminiData(text, call, named, finish)
  PROVE  FrameSound
<1> DEFINE s == stream
           events == observed
           ok == s.finish = "none"
<1>1. /\ s \in StreamState /\ events \in Seq(Notice) /\ s.phase = "open"
      /\ StreamSound("gemini", s, events) /\ s.finish \in StopsOf(provider) \cup {"none"}
  BY OpenStream
<1>2. PICK n : n = Len(Called(s.tools))
  OBVIOUS
<1>3. n \in Nat /\ n = Cardinality(CalledAt(s.tools))
  <2> HIDE DEF s
  <2> QED
    BY <1>2, CalledIs
<1>4. PICK id, tool : /\ id = [by |-> "stream", n |-> n]
                      /\ tool = [id |-> id, named |-> TRUE, args |-> "whole"]
  OBVIOUS
<1>5. PICK words, calls :
        /\ words = IF text THEN <<<<"text">>>> ELSE <<>>
        /\ calls = IF call THEN <<<<"begin", id>>, <<"end", id>>>> ELSE <<>>
  OBVIOUS
<1>6. tool.id = id
  BY <1>4
<1> DEFINE heard == IF call THEN [s EXCEPT !.tools[n] = tool] ELSE s
           next == IF finish = "none" THEN heard ELSE [heard EXCEPT !.finish = finish]
<1>10. \/ FailAfter(words, "unnamed")
       \/ (call => n < MaxCalls) /\ Accept(ok, next, words \o calls)
  BY <1>2, <1>4, <1>5, <1>6 DEF GeminiData
<1>11. CASE FailAfter(words, "unnamed")
  <2>1. words \in {<<>>, <<<<"text">>>>}
    BY <1>5
  <2>2. words \in Seq(Notice) /\ Quiet(words)
    BY <2>1, SmallNotices
  <2>3. "unnamed" \in Reasons
    BY DEF Reasons
  <2> HIDE DEF s, events, ok, heard, next
  <2> QED
    BY <1>11, <2>2, <2>3, FailFrame
<1> SUFFICES ASSUME (call => n < MaxCalls) /\ Accept(ok, next, words \o calls)
             PROVE  FrameSound
  BY <1>10, <1>11
<1>7. (call => n < MaxCalls) /\ Accept(ok, next, words \o calls)
  OBVIOUS
<1>8. CASE ~call
  <2>1. words \o calls \in {<<>>, <<<<"text">>>>}
    BY <1>5, <1>8
  <2>2. PICK more \in {<<>>, <<<<"text">>>>} : more = words \o calls
    BY <2>1
  <2>3. /\ next \in StreamState /\ next.phase = "open" /\ next.tools = s.tools /\ next.block = s.block
        /\ next.odd = s.odd /\ next.why = s.why /\ next.finish \in StopsOf(provider) \cup {"none"}
    <3>1. StopsOf(provider) = GeminiStops
      BY DEF StopsOf
    <3> QED
      BY <1>1, <1>8, <3>1 DEF StreamState
  <2>4. Accept(ok, next, more)
    BY <1>7, <2>2
  <2> HIDE DEF next, ok
  <2> QED
    BY <2>3, <2>4, ListensSound
<1>9. CASE call
  <2>1. n \in Indexes
    BY <1>3, <1>7, <1>9, IndexesAre DEF Indexes
  <2>2. id \in StreamIds
    BY <1>3, <1>4, IdsAreTyped
  <2>3. tool \in Tool
    BY <1>4, <2>2 DEF Tool
  <2>4. /\ next \in StreamState /\ next.phase = "open" /\ next.tools[n] = tool
        /\ \A j \in Indexes : j # n => next.tools[j] = s.tools[j]
        /\ next.odd = s.odd /\ next.why = s.why
        /\ ok => next.finish \in GeminiStops \cup {"none"}
    <3> DEFINE called == [s EXCEPT !.tools[n] = tool]
    <3>1. /\ called \in StreamState /\ called.phase = "open" /\ called.tools[n] = tool
          /\ \A j \in Indexes : j # n => called.tools[j] = s.tools[j]
          /\ called.odd = s.odd /\ called.why = s.why /\ called.finish = s.finish
      BY <1>1, <2>1, <2>3 DEF StreamState
    <3>2. next = IF finish = "none" THEN called ELSE [called EXCEPT !.finish = finish]
      BY <1>9
    <3> HIDE DEF called, next
    <3>3. CASE finish = "none"
      BY <3>1, <3>2, <3>3
    <3>4. CASE finish # "none"
      <4>1. next = [called EXCEPT !.finish = finish]
        BY <3>2, <3>4
      <4> QED
        BY <3>1, <4>1 DEF StreamState
    <3> QED
      BY <3>3, <3>4
  <2>5. PICK m \in {0, 1} : (m = 1 <=> text)
    <3>1. CASE text
      BY <3>1
    <3>2. CASE ~text
      BY <3>2
    <3> QED
      BY <3>1, <3>2
  <2>6. PICK more : more = words \o calls
    OBVIOUS
  <2>7. /\ more \in Seq(Notice) /\ Len(more) = m + 2 /\ (m = 1 => more[1] = <<"text">>)
        /\ more[m + 1] = <<"begin", id>> /\ more[m + 2] = <<"end", id>>
    <3>1. PICK b, e, t : b = <<"begin", id>> /\ e = <<"end", id>> /\ t = <<"text">>
      OBVIOUS
    <3>2. b \in Notice /\ e \in Notice /\ t \in Notice
      BY <2>2, <3>1, NoticesAre
    <3>3. calls = <<b, e>> /\ words = IF text THEN <<t>> ELSE <<>>
      BY <1>5, <1>9, <3>1
    <3>4. CASE text
      <4>1. more = <<t>> \o <<b, e>> /\ m = 1
        BY <2>5, <2>6, <3>3, <3>4
      <4>2. PICK first, call2 : first = <<t>> /\ call2 = <<b, e>>
        OBVIOUS
      <4>3. /\ first \in Seq(Notice) /\ call2 \in Seq(Notice) /\ Len(first) = 1 /\ Len(call2) = 2
            /\ 1 \in DOMAIN first /\ first[1] = t
            /\ 1 \in DOMAIN call2 /\ call2[1] = b /\ 2 \in DOMAIN call2 /\ call2[2] = e
        BY <3>2, <4>2
      <4>4. /\ more \in Seq(Notice) /\ Len(more) = 1 + 2 /\ more[1] = t
            /\ more[1 + 1] = b /\ more[1 + 2] = e
        BY <4>1, <4>2, <4>3, ToldMore
      <4> QED
        BY <3>1, <4>1, <4>4
    <3>5. CASE ~text
      <4>1. more = <<>> \o <<b, e>> /\ m = 0
        BY <2>5, <2>6, <3>3, <3>5
      <4>2. more = <<b, e>>
        BY <4>1
      <4> QED
        BY <3>1, <3>2, <4>1, <4>2
    <3> QED
      BY <3>4, <3>5
  <2>8. tool.named /\ tool.id = id
    BY <1>4
  <2>9. Accept(ok, next, more)
    BY <1>7, <2>6
  <2> HIDE DEF next, ok, s, events
  <2>10. ok => Goes("gemini", s, events, next, more)
    <3> SUFFICES ASSUME ok
                 PROVE  Goes("gemini", s, events, next, more)
      OBVIOUS
    <3>1. tool.id = [by |-> "stream", n |-> n] /\ tool.named /\ id = tool.id
      BY <1>4, <2>8
    <3>2. next.finish \in GeminiStops \cup {"none"}
      BY <2>4
    <3> HIDE DEF heard
    <3> QED
      BY <1>1, <1>3, <2>1, <2>3, <2>4, <2>7, <3>1, <3>2, WholeCallComes, ZenonT(60)
  <2> QED
    BY <2>9, <2>10, AcceptFrame DEF s, events
<1> QED
  BY <1>8, <1>9

LEMMA GeminiFrameSound ==
  ASSUME StreamTypeOK, StreamInv, GeminiFrame
  PROVE  FrameSound
<1>1. StreamOpen /\ provider = "gemini"
  BY DEF GeminiFrame
<1>2. ASSUME NEW text \in BOOLEAN, NEW call \in BOOLEAN, NEW named \in BOOLEAN,
             NEW finish \in GeminiStops \cup {"none"}, GeminiData(text, call, named, finish)
      PROVE  FrameSound
  BY <1>1, <1>2, GeminiDataSound
<1>3. CASE Thought(stream.finish = "none")
  <2> DEFINE next == [stream EXCEPT !.thought = TRUE]
             ok == stream.finish = "none"
  <2>1. Accept(ok, next, <<>>)
    BY <1>3 DEF Thought
  <2>2. /\ stream \in StreamState /\ stream.phase = "open"
        /\ stream.finish \in StopsOf(provider) \cup {"none"}
    BY <1>1, OpenStream
  <2>3. /\ next \in StreamState /\ next.phase = "open"
        /\ next.tools = stream.tools /\ next.block = stream.block /\ next.odd = stream.odd
        /\ next.why = stream.why /\ next.finish = stream.finish
    BY <2>2 DEF StreamState
  <2>4. <<>> \in {<<>>, <<<<"text">>>>}
    OBVIOUS
  <2> HIDE DEF next, ok
  <2> QED
    BY <1>1, <2>1, <2>2, <2>3, <2>4, ListensSound
<1> QED
  BY <1>2, <1>3 DEF GeminiFrame

-----------------------------------------------------------------------------
(* A message and the uses after it, of which Uses takes the latter. *)
Says(m) == m.type = "assistant_message"
AreUses(us, n) == us = [k \in 1 .. n |-> us[k]] /\ \A k \in 1 .. n : us[k].type = "tool_use"

Answers(events, m, us) == events = <<m>> \o us

LEMMA UsesFollow ==
  ASSUME NEW m, Says(m), NEW n \in Nat, NEW us, AreUses(us, n), NEW events, Answers(events, m, us)
  PROVE  /\ Len(events) = n + 1 /\ DOMAIN events = 1 .. n + 1 /\ events # <<>> /\ Head(events) = m
         /\ events[1] = m /\ \A k \in 1 .. n : events[k + 1] = us[k]
         /\ Uses(events) = us /\ Len(us) = n /\ DOMAIN us = 1 .. n
<1> DEFINE T == {m} \cup {us[k] : k \in 1 .. n}
<1>1. /\ us \in Seq(T) /\ Len(us) = n /\ DOMAIN us = 1 .. n
  <2>1. us \in [1 .. n -> T] /\ DOMAIN us = 1 .. n
    BY DEF AreUses
  <2> HIDE DEF T
  <2> QED
    BY <2>1
<1>2. <<m>> \in Seq(T) /\ Len(<<m>>) = 1 /\ <<m>>[1] = m
  OBVIOUS
<1> HIDE DEF T
<1>3. /\ events \in Seq(T) /\ Len(events) = n + 1 /\ DOMAIN events = 1 .. n + 1
      /\ events[1] = m /\ \A k \in 1 .. n : events[k + 1] = us[k]
  <2>1. PICK first : first = <<m>>
    OBVIOUS
  <2>2. first \in Seq(T) /\ Len(first) = 1 /\ first[1] = m
    BY <1>2, <2>1
  <2>3. /\ first \o us \in Seq(T) /\ Len(first \o us) = 1 + n
        /\ \A i \in 1 .. 1 + n : (first \o us)[i] = IF i <= 1 THEN first[i] ELSE us[i - 1]
    <3>1. us \in Seq(T) /\ first \in Seq(T)
      BY <1>1, <2>2
    <3>2. /\ first \o us \in Seq(T) /\ Len(first \o us) = Len(first) + Len(us)
          /\ \A i \in 1 .. Len(first) + Len(us) :
               (first \o us)[i] = IF i <= Len(first) THEN first[i] ELSE us[i - Len(first)]
      BY <3>1
    <3> QED
      BY <1>1, <2>2, <3>2
  <2>4. events = first \o us
    BY <2>1 DEF Answers
  <2>5. events[1] = m
    BY <2>2, <2>3, <2>4
  <2>6. ASSUME NEW k \in 1 .. n
        PROVE  events[k + 1] = us[k]
    <3>1. k + 1 \in 1 .. 1 + n /\ ~(k + 1 <= 1) /\ k + 1 - 1 = k
      OBVIOUS
    <3> QED
      BY <2>3, <2>4, <3>1
  <2> QED
    BY <2>3, <2>4, <2>5, <2>6
<1>4. events # <<>> /\ Head(events) = m
  BY <1>3
<1> DEFINE S == {i \in DOMAIN events : events[i].type = "tool_use"}
<1>5. S = 2 .. n + 1
  <2>1. ASSUME NEW i \in 1 .. n + 1
        PROVE  events[i].type = "tool_use" <=> i \in 2 .. n + 1
    <3>1. CASE i = 1
      <4>1. events[i].type = "assistant_message"
        BY <1>3, <3>1 DEF Says
      <4>2. i \notin 2 .. n + 1
        BY <3>1
      <4> QED
        BY <4>1, <4>2
    <3>2. CASE i # 1
      <4>1. i - 1 \in 1 .. n /\ i = (i - 1) + 1 /\ i \in 2 .. n + 1
        BY <3>2
      <4>2. events[i] = us[i - 1]
        BY <1>3, <4>1
      <4> QED
        BY <4>1, <4>2 DEF AreUses
    <3> QED
      BY <3>1, <3>2
  <2>2. 2 .. n + 1 \subseteq 1 .. n + 1
    OBVIOUS
  <2> QED
    BY <1>3, <2>1, <2>2
<1>6. S \in SUBSET Nat /\ IsFiniteSet(S) /\ Cardinality(S) = n
  <2>1. 2 \in Int /\ n + 1 \in Int /\ (n = 0 => 2 > n + 1) /\ (n # 0 => ~(2 > n + 1) /\ n + 1 - 2 + 1 = n)
    OBVIOUS
  <2>2. /\ IsFiniteSet(2 .. n + 1)
        /\ Cardinality(2 .. n + 1) = IF 2 > n + 1 THEN 0 ELSE n + 1 - 2 + 1
    BY <2>1, FS_Interval
  <2>3. 2 .. n + 1 \subseteq Nat
    OBVIOUS
  <2> QED
    BY <1>5, <2>1, <2>2, <2>3
<1>7. ASSUME NEW k \in 1 .. n
      PROVE  InOrder(S)[k] = k + 1
  <2> HIDE DEF S
  <2>1. k + 1 \in S /\ k \in Nat
    BY <1>5
  <2>2. Below(S, k + 1) = k - 1
    <3>1. {j \in S : j < k + 1} = 2 .. k
      BY <1>5
    <3>2. 2 \in Int /\ k \in Int /\ (k = 1 => 2 > k) /\ (k # 1 => ~(2 > k) /\ k - 2 + 1 = k - 1)
      OBVIOUS
    <3>3. Cardinality(2 .. k) = IF 2 > k THEN 0 ELSE k - 2 + 1
      BY <3>2, FS_Interval
    <3>4. Cardinality(2 .. k) = k - 1
      BY <3>2, <3>3
    <3> QED
      BY <3>1, <3>4 DEF Below
  <2>3. \A i \in S : Below(S, i) = k - 1 => i = k + 1
    <3> SUFFICES ASSUME NEW i \in S, Below(S, i) = k - 1, i # k + 1
                 PROVE  FALSE
      OBVIOUS
    <3>1. i \in Nat /\ (i < k + 1 \/ k + 1 < i)
      BY <1>6
    <3>2. i < k + 1 => Below(S, i) < Below(S, k + 1)
      BY <1>6, <2>1, BelowIs
    <3>3. k + 1 < i => Below(S, k + 1) < Below(S, i)
      BY <1>6, <2>1, BelowIs
    <3> QED
      BY <2>2, <3>1, <3>2, <3>3
  <2>4. InOrder(S)[k] = CHOOSE i \in S : Below(S, i) = k - 1
    BY <1>6 DEF InOrder, Below
  <2> QED
    BY <2>1, <2>2, <2>3, <2>4
<1>8. Uses(events) = [k \in 1 .. n |-> events[InOrder(S)[k]]]
  <2>1. Uses(events) = ItemsAt(events, S)
    BY DEF Uses
  <2> HIDE DEF S
  <2> QED
    BY <1>6, <2>1, ItemsAtIs
<1>9. Uses(events) = us
  <2> HIDE DEF S
  <2>1. \A k \in 1 .. n : events[InOrder(S)[k]] = us[k]
    BY <1>3, <1>7
  <2>2. Uses(events) = [k \in 1 .. n |-> us[k]]
    BY <1>8, <2>1
  <2> QED
    BY <2>2 DEF AreUses
<1> QED
  BY <1>1, <1>3, <1>4, <1>9

(* A step's uses are those of its answer: streamed, or ingested. *)
LEMMA UsesOfAre ==
  ASSUME NEW tools, NEW m, Says(m), NEW events, Answers(events, m, UsesOf(tools)), NEW n,
         n = Cardinality(CalledAt(tools))
  PROVE  /\ n \in Nat /\ Uses(events) = UsesOf(tools) /\ DOMAIN UsesOf(tools) = 1 .. n
         /\ Len(UsesOf(tools)) = n
         /\ Len(events) = n + 1 /\ events # <<>> /\ Head(events) = m
         /\ \A k \in 1 .. n : UsesOf(tools)[k] = Use(Called(tools)[k].id, Called(tools)[k].named, Called(tools)[k].args)
<1>1. n \in Nat /\ DOMAIN Called(tools) = 1 .. n
  BY CalledIs
<1>2. PICK us : us = UsesOf(tools)
  OBVIOUS
<1>3. us = [k \in 1 .. n |-> Use(Called(tools)[k].id, Called(tools)[k].named, Called(tools)[k].args)]
  BY <1>1, <1>2 DEF UsesOf
<1>4. \A k \in 1 .. n : us[k] = Use(Called(tools)[k].id, Called(tools)[k].named, Called(tools)[k].args)
  BY <1>3
<1>5. AreUses(us, n)
  BY <1>3, <1>4 DEF AreUses, Use
<1>6. Answers(events, m, us)
  BY <1>2
<1> QED
  <2>1. /\ Len(events) = n + 1 /\ events # <<>> /\ Head(events) = m
        /\ Uses(events) = us /\ Len(us) = n /\ DOMAIN us = 1 .. n
    <3>1. n \in Nat
      BY <1>1
    <3> QED
      BY <1>5, <1>6, <3>1, UsesFollow
  <2> QED
    BY <1>1, <1>2, <1>4, <2>1

LEMMA NotRefused ==
  ASSUME NEW events, CloseProviderStep(events) # "refused"
  PROVE  \A k \in DOMAIN Uses(events) : Uses(events)[k].id # NoId
BY DEF CloseProviderStep

(* The ids that are numbered here are new, or recur as they may. *)
LEMMA StagedNumbers ==
  ASSUME StreamTypeOK, StreamInv, StageStream
  PROVE  NumberedSound' /\ IdsRecurOnlyFromGemini'
<1>1. /\ stream.phase = "done" /\ streams' = streams + 1 /\ restarts' = restarts /\ counter' = counter
      /\ \/ callIds' = callIds /\ recurred' = recurred
         \/ CloseProviderStep(staged) # "refused" /\ AppendStep(staged)
  BY DEF StageStream
<1>2. streams \in Nat /\ stream \in StreamState /\ NumberedSound /\ IdsRecurOnlyFromGemini
  BY DEF StreamTypeOK, StreamInv
<1>3. CASE callIds' = callIds /\ recurred' = recurred
  BY <1>1, <1>2, <1>3 DEF NumberedSound, IdsRecurOnlyFromGemini
<1>4. CASE CloseProviderStep(staged) # "refused" /\ AppendStep(staged)
  <2> DEFINE server == [by : {"server"}, n : 1 .. 2 * MaxCalls]
  <2>1. PICK ids : /\ ids = {Uses(staged)[n].id : n \in DOMAIN Uses(staged)} \ server
                   /\ callIds' = callIds \cup ids /\ recurred' = recurred \cup (callIds \cap ids)
    BY <1>4 DEF AppendStep
  <2>2. PICK tools, m, n : /\ tools = stream.tools /\ m = Message(StopReason(stream.finish), Texts, FALSE)
                           /\ n = Cardinality(CalledAt(tools)) /\ Answers(staged, m, UsesOf(tools))
    BY <1>1 DEF StreamInv, StagedSound, Answers
  <2>3. Says(m)
    BY <2>2 DEF Message, Says
  <2>4. /\ n \in Nat /\ Uses(staged) = UsesOf(tools) /\ DOMAIN UsesOf(tools) = 1 .. n
        /\ \A k \in 1 .. n : UsesOf(tools)[k] = Use(Called(tools)[k].id, Called(tools)[k].named, Called(tools)[k].args)
    BY <2>2, <2>3, UsesOfAre
  <2>5. ASSUME NEW id \in ids
        PROVE  id.by = "stream"
    <3>1. PICK k \in 1 .. n : id = UsesOf(tools)[k].id /\ id \notin server
      BY <2>1, <2>4
    <3>2. id = Called(tools)[k].id /\ id # NoId
      <4>1. Uses(staged)[k].id # NoId
        BY <1>4, <2>4, NotRefused
      <4> QED
        BY <2>4, <3>1, <4>1 DEF Use
    <3>3. PICK i \in CalledAt(tools) : id = tools[i].id
      BY <2>2, <3>2, CalledIs
    <3>4. tools[i].id \in IdsOf(provider, i) /\ i \in Indexes
      BY <2>2, <3>3 DEF StreamInv, StreamSound, ToolsSound, CalledAt
    <3>5. CASE provider = "gemini"
      BY <3>3, <3>4, <3>5 DEF IdsOf
    <3>6. CASE provider # "gemini"
      <4>1. id \in {ServerId(i), AnotherId(i)}
        BY <3>2, <3>3, <3>4, <3>6 DEF IdsOf
      <4>2. 1 + i \in 1 .. 2 * MaxCalls /\ 1 + i + MaxCalls \in 1 .. 2 * MaxCalls
        BY <3>4, IndexesAre DEF Indexes
      <4>3. ServerId(i) \in server /\ AnotherId(i) \in server
        BY <4>2 DEF ServerId, AnotherId
      <4> QED
        BY <3>1, <4>1, <4>3
    <3> QED
      BY <3>5, <3>6
  <2> HIDE DEF server
  <2>6. NumberedSound'
    <3>1. streams >= 1 => streams' >= 1
      BY <1>1, <1>2
    <3>2. streams' >= 1
      BY <1>1, <1>2
    <3> QED
      BY <1>1, <1>2, <2>1, <2>5, <3>2 DEF NumberedSound
  <2>7. IdsRecurOnlyFromGemini'
    <3> SUFFICES ASSUME NEW id \in recurred'
                 PROVE  (id.by = "stream" /\ streams' >= 2) \/ (id.by = "ingestor" /\ restarts' > 0)
      BY DEF IdsRecurOnlyFromGemini
    <3>1. streams >= 2 => streams' >= 2
      BY <1>1, <1>2
    <3>2. CASE id \in recurred
      BY <1>1, <1>2, <3>1, <3>2 DEF IdsRecurOnlyFromGemini
    <3>3. CASE id \in callIds /\ id \in ids
      <4>1. id.by = "stream"
        BY <2>5, <3>3
      <4>2. streams >= 1
        BY <1>2, <3>3, <4>1 DEF NumberedSound
      <4>3. streams' >= 2
        BY <1>1, <1>2, <4>2
      <4> QED
        BY <4>1, <4>3
    <3> QED
      BY <2>1, <3>2, <3>3
  <2> QED
    BY <2>6, <2>7
<1> QED
  BY <1>1, <1>3, <1>4

(* A step of a message and n uses; and what is ingested of n calls. *)
StepOf(events, n) ==
  /\ events # <<>> /\ Len(events) = n + 1 /\ Says(Head(events))
  /\ DOMAIN Uses(events) = 1 .. n /\ Len(Uses(events)) = n /\ AreUses(Uses(events), n)

LEMMA StepsAre ==
  ASSUME NEW m, Says(m), NEW n \in Nat, NEW us, AreUses(us, n), NEW events, Answers(events, m, us)
  PROVE  StepOf(events, n) /\ Head(events) = m /\ Uses(events) = us
<1>1. /\ Len(events) = n + 1 /\ events # <<>> /\ Head(events) = m
      /\ Uses(events) = us /\ Len(us) = n /\ DOMAIN us = 1 .. n
  BY UsesFollow
<1> QED
  BY <1>1 DEF StepOf

IngestedAs(finish, calls, n, chunks, thought, events) ==
  /\ StepOf(events, n) /\ Head(events).chunks = chunks /\ Head(events).thought = thought
  /\ \A k \in 1 .. n : Uses(events)[k].named = calls[k].named
  /\ provider = "anthropic" =>
       /\ Head(events).info = IF finish = "none" THEN "other" ELSE finish
       /\ \A k \in 1 .. n : Uses(events)[k] = Use(calls[k].id, calls[k].named, calls[k].args)
  /\ provider = "openai" =>
       /\ Head(events).info = NormalizeOpenAIStop(finish)
       /\ \A k \in 1 .. n : /\ Uses(events)[k] = Use(calls[k].id, calls[k].named, Uses(events)[k].info)
                            /\ calls[k].args = "whole" => Uses(events)[k].info = "whole"
                            /\ calls[k].args # "whole" => Uses(events)[k].info = "empty"
  /\ provider = "gemini" =>
       /\ Head(events).info = NormalizeGeminiStop(finish, calls # <<>>)
       /\ \A k \in 1 .. n : Uses(events)[k].id = [by |-> "ingestor", n |-> counter + k]

LEMMA IngestedIs ==
  ASSUME NEW finish, NEW calls, NEW n \in Nat, DOMAIN calls = 1 .. n, NEW chunks, NEW thought,
         provider \in {"anthropic", "openai", "gemini"},
         NEW events, events = Ingested(finish, calls, chunks, thought)
  PROVE  IngestedAs(finish, calls, n, chunks, thought, events)
<1>1. CASE provider = "anthropic"
  <2> DEFINE stop == IF finish = "none" THEN "other" ELSE finish
  <2>1. PICK m, us : /\ m = Message(stop, chunks, thought)
                     /\ us = [k \in 1 .. n |-> Use(calls[k].id, calls[k].named, calls[k].args)]
    OBVIOUS
  <2>2. Answers(events, m, us)
    BY <1>1, <2>1 DEF Ingested, AnthropicIngest, Answers
  <2> HIDE DEF stop
  <2>3. Says(m) /\ m.info = stop /\ m.chunks = chunks /\ m.thought = thought
    BY <2>1 DEF Message, Says
  <2>4. \A k \in 1 .. n : us[k] = Use(calls[k].id, calls[k].named, calls[k].args)
    BY <2>1
  <2>5. AreUses(us, n) /\ \A k \in 1 .. n : us[k].named = calls[k].named
    BY <2>1, <2>4 DEF AreUses, Use
  <2>6. StepOf(events, n) /\ Head(events) = m /\ Uses(events) = us
    BY <2>2, <2>3, <2>5, StepsAre
  <2> QED
    BY <1>1, <2>3, <2>4, <2>5, <2>6 DEF IngestedAs, stop
<1>2. CASE provider = "openai"
  <2> DEFINE args(k) == IF calls[k].args = "whole" THEN "whole" ELSE "empty"
  <2>1. PICK m, us : /\ m = Message(NormalizeOpenAIStop(finish), chunks, thought)
                     /\ us = [k \in 1 .. n |-> Use(calls[k].id, calls[k].named, args(k))]
    OBVIOUS
  <2>2. Answers(events, m, us)
    BY <1>2, <2>1 DEF Ingested, OpenAIIngest, Answers
  <2>3. Says(m) /\ m.info = NormalizeOpenAIStop(finish) /\ m.chunks = chunks /\ m.thought = thought
    BY <2>1 DEF Message, Says
  <2> HIDE DEF args
  <2>4. \A k \in 1 .. n : us[k] = Use(calls[k].id, calls[k].named, args(k))
    BY <2>1
  <2>5. /\ AreUses(us, n)
        /\ \A k \in 1 .. n : /\ us[k].id = calls[k].id /\ us[k].named = calls[k].named
                             /\ us[k].info = args(k) /\ us[k] = Use(us[k].id, us[k].named, us[k].info)
    BY <2>1, <2>4 DEF AreUses, Use
  <2>6. \A k \in 1 .. n : /\ calls[k].args = "whole" => args(k) = "whole"
                          /\ calls[k].args # "whole" => args(k) = "empty"
    BY DEF args
  <2>7. StepOf(events, n) /\ Head(events) = m /\ Uses(events) = us
    BY <2>2, <2>3, <2>5, StepsAre
  <2> QED
    BY <1>2, <2>3, <2>5, <2>6, <2>7 DEF IngestedAs
<1>3. CASE provider = "gemini"
  <2> DEFINE id(k) == [by |-> "ingestor", n |-> counter + k]
  <2>1. PICK m, us : /\ m = Message(NormalizeGeminiStop(finish, calls # <<>>), chunks, thought)
                     /\ us = [k \in 1 .. n |-> Use(id(k), calls[k].named, calls[k].args)]
    OBVIOUS
  <2>2. Answers(events, m, us)
    BY <1>3, <2>1 DEF Ingested, GeminiIngest, Answers
  <2>3. Says(m) /\ m.info = NormalizeGeminiStop(finish, calls # <<>>)
        /\ m.chunks = chunks /\ m.thought = thought
    BY <2>1 DEF Message, Says
  <2> HIDE DEF id
  <2>4. \A k \in 1 .. n : us[k] = Use(id(k), calls[k].named, calls[k].args)
    BY <2>1
  <2>5. AreUses(us, n) /\ \A k \in 1 .. n : us[k].id = id(k) /\ us[k].named = calls[k].named
    BY <2>1, <2>4 DEF AreUses, Use
  <2>6. StepOf(events, n) /\ Head(events) = m /\ Uses(events) = us
    BY <2>2, <2>3, <2>5, StepsAre
  <2> QED
    BY <1>3, <2>3, <2>5, <2>6 DEF id, IngestedAs
<1> QED
  BY <1>1, <1>2, <1>3

LEMMA BufferedNumbers ==
  ASSUME StreamTypeOK, StreamInv, BufferedStep
  PROVE  NumberedSound' /\ IdsRecurOnlyFromGemini' /\ counter' \in Nat
<1>1. /\ streams' = streams /\ restarts' = restarts /\ streams \in Nat /\ restarts \in Nat /\ counter \in Nat
      /\ provider \in {"anthropic", "openai", "gemini"}
      /\ NumberedSound /\ IdsRecurOnlyFromGemini
  BY DEF BufferedStep, StreamTypeOK, StreamInv
<1> DEFINE callsOf(n) == [k \in 1 .. n |-> [id |-> ServerId(k - 1), named |-> TRUE, args |-> "whole"]]
           server == [by : {"server"}, n : 1 .. 2 * MaxCalls]
<1>2. PICK n \in 0 .. MaxCalls, finish \in Stops :
        /\ AppendStep(Ingested(finish, callsOf(n), 0, FALSE))
        /\ counter' = IF provider = "gemini" THEN NextNumber(counter, n) ELSE counter
  BY DEF BufferedStep
<1>3. n \in Nat /\ n <= MaxCalls /\ MaxCalls \in Nat
  BY IndexesAre
<1>4. PICK calls, chunks, thought : calls = callsOf(n) /\ chunks = 0 /\ thought = FALSE
  OBVIOUS
<1>5. DOMAIN calls = 1 .. n /\ \A k \in 1 .. n : calls[k].id = ServerId(k - 1)
  BY <1>4
<1>6. PICK events, us : events = Ingested(finish, calls, chunks, thought) /\ us = Uses(events)
  OBVIOUS
<1>7. /\ DOMAIN us = 1 .. n
      /\ provider # "gemini" => \A k \in 1 .. n : us[k].id = calls[k].id
      /\ provider = "gemini" => \A k \in 1 .. n : us[k].id = [by |-> "ingestor", n |-> counter + k]
  <2>1. \A id, named, args : Use(id, named, args).id = id
    BY DEF Use
  <2>2. IngestedAs(finish, calls, n, chunks, thought, events)
    BY <1>1, <1>3, <1>5, <1>6, IngestedIs
  <2> QED
    BY <1>1, <1>6, <2>1, <2>2 DEF IngestedAs, StepOf
<1>8. PICK ids : /\ ids = {us[k].id : k \in 1 .. n} \ server
                 /\ callIds' = callIds \cup ids /\ recurred' = recurred \cup (callIds \cap ids)
  <2>1. AppendStep(events)
    BY <1>2, <1>4, <1>6
  <2>2. {Uses(events)[k].id : k \in DOMAIN Uses(events)} = {us[k].id : k \in 1 .. n}
    BY <1>6, <1>7
  <2> HIDE DEF callsOf
  <2> QED
    BY <2>1, <2>2 DEF AppendStep
<1>9. ASSUME NEW id \in ids
      PROVE  /\ provider = "gemini" /\ id.by = "ingestor" /\ id.n \in Nat
             /\ counter < id.n /\ id.n <= counter + n
  <2>1. PICK k \in 1 .. n : id = us[k].id /\ id \notin server
    BY <1>8
  <2>2. CASE provider = "gemini"
    <3>1. id = [by |-> "ingestor", n |-> counter + k]
      BY <1>7, <2>1, <2>2
    <3>2. counter + k \in Nat /\ counter < counter + k /\ counter + k <= counter + n
      BY <1>1, <1>3
    <3> QED
      BY <2>2, <3>1, <3>2
  <2>3. CASE provider # "gemini"
    <3>1. id = ServerId(k - 1)
      BY <1>5, <1>7, <2>1, <2>3
    <3>2. 1 + (k - 1) \in 1 .. 2 * MaxCalls
      BY <1>3
    <3> QED
      BY <2>1, <3>1, <3>2 DEF ServerId
  <2> QED
    BY <2>2, <2>3
<1>10. counter' \in Nat /\ counter <= counter' /\ (provider = "gemini" => counter' = counter + n)
  BY <1>1, <1>2, <1>3 DEF NextNumber
<1> HIDE DEF server
<1>11. NumberedSound'
  <2> SUFFICES ASSUME NEW id \in callIds'
               PROVE  \/ id.by = "stream" /\ streams' >= 1
                      \/ id.by = "ingestor" /\ (restarts' = 0 => id.n \in Nat /\ id.n <= counter')
    BY DEF NumberedSound
  <2>1. CASE id \in callIds
    <3>1. \/ id.by = "stream" /\ streams >= 1
          \/ id.by = "ingestor" /\ (restarts = 0 => id.n \in Nat /\ id.n <= counter)
      BY <1>1, <2>1 DEF NumberedSound
    <3> QED
      BY <1>1, <1>10, <3>1
  <2>2. CASE id \in ids
    BY <1>9, <1>10, <2>2
  <2> QED
    BY <1>8, <2>1, <2>2
<1>12. IdsRecurOnlyFromGemini'
  <2> SUFFICES ASSUME NEW id \in recurred'
               PROVE  (id.by = "stream" /\ streams' >= 2) \/ (id.by = "ingestor" /\ restarts' > 0)
    BY DEF IdsRecurOnlyFromGemini
  <2>1. CASE id \in recurred
    BY <1>1, <2>1 DEF IdsRecurOnlyFromGemini
  <2>2. CASE id \in callIds /\ id \in ids
    <3>1. id.by = "ingestor" /\ id.n \in Nat /\ counter < id.n
      BY <1>9, <2>2
    <3>2. restarts = 0 => id.n <= counter
      BY <1>1, <2>2, <3>1 DEF NumberedSound
    <3>3. restarts # 0
      BY <1>1, <3>1, <3>2
    <3> QED
      BY <1>1, <3>1, <3>3
  <2> QED
    BY <1>8, <2>1, <2>2
<1> QED
  BY <1>10, <1>11, <1>12

-----------------------------------------------------------------------------
(* The other steps. *)
LEMMA NewStreamSound ==
  ASSUME NEW p \in {"anthropic", "openai", "gemini"},
         NEW s, s = NewStream \/ s = [NewStream EXCEPT !.phase = "idle"],
         NEW events \in {<<>>, <<<<"started">>>>}
  PROVE  s \in StreamState /\ events \in Seq(Notice) /\ StreamSound(p, s, events)
<1>1. /\ s.finish = "none" /\ s.why = "none" /\ s.phase \in {"idle", "open"} /\ ~s.stopped
      /\ \A i \in Indexes : s.block[i] = "none" /\ s.tools[i] = NoTool
  BY DEF NewStream
<1>2. CalledAt(s.tools) = {} /\ EndedTools(p, s) = {}
  BY <1>1 DEF CalledAt, EndedTools
<1>3. ToldIn(events, "end") = {} /\ ToldIn(events, "done") = {} /\ ToldIn(events, "failed") = {}
  BY DEF ToldIn
<1>4. Cardinality({}) = 0
  BY FS_EmptySet
<1>5. ToolsSound(p, s)
  BY <1>2, <1>4 DEF ToolsSound
<1>6. BlocksSound(p, s)
  BY <1>1 DEF BlocksSound
<1>7. FinishSound(p, s)
  BY <1>1 DEF FinishSound
<1>8. ToldSound(p, s, events)
  BY <1>2, <1>3 DEF ToldSound
<1>9. EndingsSound(s, events)
  BY <1>1, <1>3 DEF EndingsSound
<1>10. s \in StreamState /\ events \in Seq(Notice)
  BY NewStreamTyped, NoticesAre
<1> QED
  BY <1>5, <1>6, <1>7, <1>8, <1>9, <1>10 DEF StreamSound

(* The events of a whole turn. *)
LEMMA TurnEnds ==
  ASSUME NEW p, NEW s, NEW events \in Seq(Notice), StreamSound(p, s, events), s.phase = "open",
         NEW next \in StreamState, next.phase = "done", next.tools = s.tools, next.block = s.block,
         next.odd = s.odd, next.why = s.why, next.finish = s.finish, next.stopped = s.stopped,
         s.finish # "none", p # "gemini" => s.stopped,
         NEW after, after = events \o <<<<"done">>>>
  PROVE  after \in Seq(Notice) /\ StreamSound(p, next, after)
         /\ ToldIn(after, "text") = ToldIn(events, "text")
<1>1. <<"done">> \in Notice /\ <<<<"done">>>> \in Seq(Notice)
  BY NoticesAre
<1>2. PICK notice \in Notice : notice = <<"done">>
  BY <1>1
<1>2a. notice[1] = "done" /\ after = events \o <<notice>> /\ <<notice>> \in Seq(Notice)
  BY <1>1, <1>2
<1>3. /\ after \in Seq(Notice) /\ Len(after) = Len(events) + 1
      /\ ToldIn(after, "done") = ToldIn(events, "done") \cup {Len(after)}
      /\ \A kind : kind # "done" => ToldIn(after, kind) = ToldIn(events, kind)
  BY <1>2a, ToldOne
<1>4. /\ \A id : BegunIn(events, id) => BegunIn(after, id)
      /\ \A id : EndedIn(events, id) => EndedIn(after, id)
  <2>1. PICK more \in Seq(Notice) : more = <<notice>>
    BY <1>2a
  <2>2. /\ \A id : BegunIn(events, id) => BegunIn(events \o more, id)
        /\ \A id : EndedIn(events, id) => EndedIn(events \o more, id)
    BY ToldAfter, SMTT(30)
  <2> QED
    BY <1>2a, <2>1, <2>2
<1>5. ToolsSound(p, next) /\ EndedTools(p, next) = EndedTools(p, s)
  BY DEF StreamSound, ToolsSound, EndedTools
<1>6. BlocksSound(p, next)
  BY DEF StreamSound, BlocksSound
<1>7. FinishSound(p, next)
  BY DEF StreamSound, FinishSound, WhySound
<1>8. ToldSound(p, next, after)
  <2>1. ToldSound(p, s, events)
    BY DEF StreamSound
  <2> QED
    BY <1>3, <1>4, <1>5, <2>1 DEF ToldSound
<1>9. EndingsSound(next, after)
  <2>1. ToldIn(events, "done") = {} /\ ToldIn(events, "failed") = {}
    BY DEF StreamSound, EndingsSound
  <2> QED
    BY <1>3, <2>1 DEF EndingsSound
<1> QED
  BY <1>3, <1>5, <1>6, <1>7, <1>8, <1>9 DEF StreamSound

LEMMA StreamEndsSound ==
  ASSUME StreamTypeOK, StreamInv, StreamEnds
  PROVE  /\ stream' \in StreamState /\ observed' \in Seq(Notice)
         /\ StreamSound(provider, stream', observed') /\ StagedSound'
<1>1. StreamOpen
  BY DEF StreamEnds
<1>2. /\ stream \in StreamState /\ observed \in Seq(Notice) /\ stream.phase = "open"
      /\ StreamSound(provider, stream, observed)
  BY <1>1, OpenStream
<1>3. CASE ~Whole
  <2>1. Fail("protocol") \/ (Fail("unfinished") /\ stream.finish = "none")
    BY <1>3 DEF StreamEnds, Whole
  <2>3. "protocol" \in Reasons /\ "unfinished" \in Reasons
    BY DEF Reasons
  <2>2. FrameSound
    BY <1>1, <2>1, <2>3, FailsNow
  <2> QED
    BY <2>2 DEF FrameSound, StagedSound
<1>4. CASE Whole
  <2> DEFINE next == [stream EXCEPT !.phase = "done"]
             after == observed \o <<<<"done">>>>
  <2>1. /\ stream' = next /\ observed' = after
        /\ staged' = <<Message(StopReason(stream.finish), Texts, FALSE)>> \o UsesOf(stream.tools)
    BY <1>4 DEF StreamEnds, Tell, UsesOf
  <2>2. /\ next \in StreamState /\ next.phase = "done" /\ next.tools = stream.tools
        /\ next.block = stream.block /\ next.odd = stream.odd /\ next.why = stream.why
        /\ next.finish = stream.finish /\ next.stopped = stream.stopped
    BY <1>2 DEF StreamState
  <2>3. stream.finish # "none" /\ (provider # "gemini" => stream.stopped)
    BY <1>4 DEF Whole
  <2> HIDE DEF next
  <2>4. /\ after \in Seq(Notice) /\ StreamSound(provider, next, after)
        /\ ToldIn(after, "text") = ToldIn(observed, "text")
    BY <1>2, <2>2, <2>3, TurnEnds
  <2> HIDE DEF after
  <2>5. Texts' = Texts
    BY <2>1, <2>4 DEF Texts, ToldIn
  <2>6. StagedSound'
    BY <2>1, <2>2, <2>5 DEF StagedSound
  <2> QED
    BY <2>1, <2>2, <2>4, <2>6
<1> QED
  BY <1>3, <1>4

LEMMA StreamInitSound == StreamInit => StreamTypeOK /\ StreamInv
<1> SUFFICES ASSUME StreamInit
             PROVE  StreamTypeOK /\ StreamInv
  OBVIOUS
<1>1. /\ provider \in {"anthropic", "openai", "gemini"}
      /\ stream = [NewStream EXCEPT !.phase = "idle"] /\ observed \in {<<>>, <<<<"started">>>>}
      /\ staged = <<>> /\ callIds = {} /\ recurred = {}
      /\ counter = 0 /\ streams = 0 /\ attempts = 0 /\ restarts = 0
  BY DEF StreamInit
<1>2. /\ stream \in StreamState /\ observed \in Seq(Notice)
      /\ StreamSound(provider, stream, observed)
  BY <1>1, NewStreamSound
<1>3. stream.phase = "idle"
  BY <1>1 DEF NewStream
<1>4. StreamTypeOK
  BY <1>1, <1>2 DEF StreamTypeOK
<1>5. StagedSound
  BY <1>1, <1>3 DEF StagedSound
<1>6. NumberedSound /\ IdsRecurOnlyFromGemini
  BY <1>1 DEF NumberedSound, IdsRecurOnlyFromGemini
<1> QED
  BY <1>2, <1>4, <1>5, <1>6 DEF StreamInv

LEMMA StreamNextSound == StreamTypeOK /\ StreamInv /\ [StreamNext]_streamVars => (StreamTypeOK /\ StreamInv)'
<1> SUFFICES ASSUME StreamTypeOK, StreamInv, [StreamNext]_streamVars
             PROVE  (StreamTypeOK /\ StreamInv)'
  OBVIOUS
<1>1. /\ provider \in {"anthropic", "openai", "gemini"} /\ provider' = provider
      /\ counter \in Nat /\ streams \in Nat /\ attempts \in Nat /\ restarts \in Nat
      /\ stream \in StreamState /\ observed \in Seq(Notice)
      /\ StreamSound(provider, stream, observed) /\ StagedSound
      /\ NumberedSound /\ IdsRecurOnlyFromGemini
  BY DEF StreamTypeOK, StreamInv, StreamNext, streamVars, session, StartStream, StreamBreaks, AnthropicFrame,
         OpenAIFrame, GeminiFrame, StreamEnds, StageStream, BufferedStep, Restart
<1>2. ASSUME UNCHANGED session, stream' \in StreamState, observed' \in Seq(Notice),
             StreamSound(provider, stream', observed'), StagedSound'
      PROVE  (StreamTypeOK /\ StreamInv)'
  <2>1. /\ provider' = provider /\ callIds' = callIds /\ recurred' = recurred /\ counter' = counter
        /\ streams' = streams /\ attempts' = attempts /\ restarts' = restarts
    BY <1>2 DEF session
  <2>2. StreamTypeOK'
    BY <1>1, <1>2, <2>1 DEF StreamTypeOK
  <2>3. NumberedSound' /\ IdsRecurOnlyFromGemini'
    BY <1>1, <2>1 DEF NumberedSound, IdsRecurOnlyFromGemini
  <2> QED
    BY <1>1, <1>2, <2>2, <2>3 DEF StreamInv
<1>3. ASSUME UNCHANGED session, FrameSound
      PROVE  (StreamTypeOK /\ StreamInv)'
  <2>1. StagedSound'
    BY <1>3 DEF FrameSound, StagedSound
  <2> QED
    BY <1>2, <1>3, <2>1 DEF FrameSound
<1>4. ASSUME NEW events \in {<<>>, <<<<"started">>>>}, observed' = events, staged' = <<>>,
             stream' = NewStream \/ stream' = [NewStream EXCEPT !.phase = "idle"]
      PROVE  /\ stream' \in StreamState /\ observed' \in Seq(Notice)
             /\ StreamSound(provider', stream', observed') /\ StagedSound'
  <2>1. PICK next : next = stream'
    OBVIOUS
  <2>2. next \in StreamState /\ events \in Seq(Notice) /\ StreamSound(provider, next, events)
    BY <1>1, <1>4, <2>1, NewStreamSound
  <2>3. stream'.phase # "done"
    BY <1>4 DEF NewStream
  <2> QED
    BY <1>1, <1>4, <2>1, <2>2, <2>3 DEF StagedSound
<1>5. CASE StartStream
  <2>1. /\ stream' = NewStream /\ observed' = <<<<"started">>>> /\ staged' = <<>>
        /\ attempts' = attempts + 1 /\ callIds' = callIds /\ recurred' = recurred
        /\ counter' = counter /\ streams' = streams /\ restarts' = restarts
    BY <1>5 DEF StartStream
  <2>2. /\ stream' \in StreamState /\ observed' \in Seq(Notice)
        /\ StreamSound(provider', stream', observed') /\ StagedSound'
    BY <1>4, <2>1
  <2>3. NumberedSound' /\ IdsRecurOnlyFromGemini'
    BY <1>1, <2>1 DEF NumberedSound, IdsRecurOnlyFromGemini
  <2> QED
    BY <1>1, <2>1, <2>2, <2>3 DEF StreamTypeOK, StreamInv
<1>6. CASE StreamBreaks
  <2>1. StreamOpen /\ Fail("broken") /\ UNCHANGED session
    BY <1>6 DEF StreamBreaks
  <2> QED
    BY <1>3, <2>1, FailsNow DEF Reasons
<1>7. CASE AnthropicFrame \/ OpenAIFrame \/ GeminiFrame
  <2>1. UNCHANGED session
    BY <1>7 DEF AnthropicFrame, OpenAIFrame, GeminiFrame
  <2> QED
    BY <1>3, <1>7, <2>1, AnthropicFrameSound, OpenAIFrameSound, GeminiFrameSound
<1>8. CASE StreamEnds
  <2>1. UNCHANGED session
    BY <1>8 DEF StreamEnds
  <2> QED
    BY <1>2, <1>8, <2>1, StreamEndsSound
<1>9. CASE StageStream
  <2>1. /\ stream' = [NewStream EXCEPT !.phase = "idle"] /\ observed' = <<>> /\ staged' = <<>>
        /\ streams' = streams + 1 /\ attempts' = attempts /\ counter' = counter /\ restarts' = restarts
    BY <1>9 DEF StageStream
  <2>2. /\ stream' \in StreamState /\ observed' \in Seq(Notice)
        /\ StreamSound(provider', stream', observed') /\ StagedSound'
    BY <1>4, <2>1
  <2>3. NumberedSound' /\ IdsRecurOnlyFromGemini'
    BY <1>9, StagedNumbers
  <2> QED
    BY <1>1, <2>1, <2>2, <2>3 DEF StreamTypeOK, StreamInv
<1>10. CASE BufferedStep
  <2>1. /\ stream' = stream /\ observed' = observed /\ staged' = staged
        /\ streams' = streams /\ attempts' = attempts + 1 /\ restarts' = restarts
    BY <1>10 DEF BufferedStep
  <2>2. NumberedSound' /\ IdsRecurOnlyFromGemini' /\ counter' \in Nat
    BY <1>10, BufferedNumbers
  <2>3. StagedSound'
    BY <1>1, <2>1 DEF StagedSound, Texts
  <2> QED
    BY <1>1, <2>1, <2>2, <2>3 DEF StreamTypeOK, StreamInv
<1>11. CASE Restart
  <2>1. /\ stream' = [NewStream EXCEPT !.phase = "idle"] /\ observed' = <<>> /\ staged' = <<>>
        /\ callIds' = callIds /\ recurred' = recurred /\ counter' = 0
        /\ streams' = streams /\ attempts' = attempts /\ restarts' = restarts + 1
    BY <1>11 DEF Restart
  <2>2. /\ stream' \in StreamState /\ observed' \in Seq(Notice)
        /\ StreamSound(provider', stream', observed') /\ StagedSound'
    BY <1>4, <2>1
  <2>3. restarts' # 0 /\ restarts' > 0
    BY <1>1, <2>1
  <2>4. NumberedSound' /\ IdsRecurOnlyFromGemini'
    BY <1>1, <2>1, <2>3 DEF NumberedSound, IdsRecurOnlyFromGemini
  <2> QED
    BY <1>1, <2>1, <2>2, <2>4 DEF StreamTypeOK, StreamInv
<1>12. CASE UNCHANGED streamVars
  <2>1. UNCHANGED session /\ stream' = stream /\ observed' = observed /\ staged' = staged
    BY <1>12 DEF streamVars, session
  <2>2. StagedSound'
    BY <1>1, <2>1 DEF StagedSound, Texts
  <2> QED
    BY <1>1, <1>2, <2>1, <2>2
<1> QED
  BY <1>5, <1>6, <1>7, <1>8, <1>9, <1>10, <1>11, <1>12 DEF StreamNext

-----------------------------------------------------------------------------
(* The inductive invariant, and that ids recur with Gemini only: what the   *)
(* state machines of provider_stream.go keep for any server.               *)
THEOREM StreamStaysSound == StreamSpec => [](StreamTypeOK /\ StreamInv)
<1>1. StreamInit => StreamTypeOK /\ StreamInv
  BY StreamInitSound
<1>2. (StreamTypeOK /\ StreamInv) /\ [StreamNext]_streamVars => (StreamTypeOK /\ StreamInv)'
  BY StreamNextSound
<1> QED
  BY <1>1, <1>2, PTL DEF StreamSpec

(* A call id that recurs in a session's log was numbered twice: by a second *)
(* stream of Gemini, or by a new process's GeminiIngestor.                 *)
THEOREM OnlyGeminiIdsRecur == StreamSpec => []IdsRecurOnlyFromGemini
<1>1. StreamTypeOK /\ StreamInv => IdsRecurOnlyFromGemini
  BY DEF StreamInv
<1> QED
  BY <1>1, StreamStaysSound, PTL

-----------------------------------------------------------------------------
(* What closeProviderStep makes of a step whose calls have names, and ids of *)
(* their own; and of one with a call that has not.                         *)
OwnIds(us, n) ==
  \A k \in 1 .. n : us[k].id # NoId /\ us[k].named /\ \A l \in 1 .. n : k # l => us[k].id # us[l].id

LEMMA Closing ==
  ASSUME NEW n \in Nat, NEW events, StepOf(events, n), OwnIds(Uses(events), n)
  PROVE  LET stop == Head(events).info
         IN  CloseProviderStep(events) =
               IF n = 0 THEN IF stop = "tool_use" THEN "refused" ELSE "final"
               ELSE IF stop = "tool_use" THEN "dispatch" ELSE "closed"
<1> DEFINE us == Uses(events)
           stop == Head(events).info
<1>1. /\ events # <<>> /\ Head(events).type = "assistant_message"
      /\ Len(us) = n /\ Len(events) - 1 = n /\ DOMAIN us = 1 .. n
  BY DEF StepOf, Says
<1>2. us = <<>> <=> n = 0
  <2>1. us = [k \in 1 .. n |-> us[k]]
    BY DEF StepOf, AreUses
  <2>2. n = 0 => us = <<>>
    <3>1. n = 0 => 1 .. n = {}
      OBVIOUS
    <3> HIDE DEF us
    <3>2. n = 0 => us = [k \in {} |-> us[k]]
      BY <2>1, <3>1
    <3>3. [k \in {} |-> us[k]] = <<>>
      OBVIOUS
    <3> QED
      BY <3>2, <3>3
  <2>3. us = <<>> => n = 0
    BY <1>1
  <2> QED
    BY <2>2, <2>3
<1>3. ~\E i \in DOMAIN us : us[i].id = NoId \/ ~us[i].named
  BY <1>1 DEF OwnIds
<1>4. ~\E i, j \in DOMAIN us : i # j /\ us[i].id = us[j].id
  BY <1>1 DEF OwnIds
<1>5. CloseProviderStep(events) =
        IF \/ events = <<>> \/ Head(events).type # "assistant_message"
           \/ Len(us) # Len(events) - 1
           \/ \E i \in DOMAIN us : us[i].id = NoId \/ ~us[i].named
           \/ \E i, j \in DOMAIN us : i # j /\ us[i].id = us[j].id
           \/ stop = "tool_use" /\ us = <<>>
        THEN "refused"
        ELSE IF us = <<>> THEN "final" ELSE IF stop = "tool_use" THEN "dispatch" ELSE "closed"
  BY DEF CloseProviderStep
<1> HIDE DEF us, stop
<1>6. CloseProviderStep(events) =
        IF stop = "tool_use" /\ us = <<>> THEN "refused"
        ELSE IF us = <<>> THEN "final" ELSE IF stop = "tool_use" THEN "dispatch" ELSE "closed"
  BY <1>1, <1>3, <1>4, <1>5
<1> QED
  BY <1>2, <1>6 DEF stop

LEMMA Refusing ==
  ASSUME NEW n \in Nat, NEW events, StepOf(events, n),
         NEW k \in 1 .. n, Uses(events)[k].id = NoId \/ ~Uses(events)[k].named
  PROVE  CloseProviderStep(events) = "refused"
<1>1. k \in DOMAIN Uses(events)
  BY DEF StepOf
<1>2. \E i \in DOMAIN Uses(events) : Uses(events)[i].id = NoId \/ ~Uses(events)[i].named
  BY <1>1
<1> QED
  BY <1>2, Zenon DEF CloseProviderStep

(* The calls of a stream: of each, its tool and an id of its own. *)
LEMMA CallsOwnIds ==
  ASSUME NEW p, NEW s \in StreamState, ToolsSound(p, s),
         \A i \in CalledAt(s.tools) : Ready(s.tools[i]),
         NEW n, n = Cardinality(CalledAt(s.tools)), NEW calls, calls = Called(s.tools)
  PROVE  /\ n \in Nat /\ DOMAIN calls = 1 .. n
         /\ \A k \in 1 .. n : \E i \in CalledAt(s.tools) : calls[k] = s.tools[i]
         /\ OwnIds(calls, n)
<1> DEFINE at == InOrder(CalledAt(s.tools))
<1>1. /\ n \in Nat /\ DOMAIN calls = 1 .. n
      /\ \A k \in 1 .. n : at[k] \in CalledAt(s.tools) /\ calls[k] = s.tools[at[k]]
      /\ \A k, l \in 1 .. n : at[k] = at[l] => k = l
  BY CalledIs
<1> HIDE DEF at
<1>2. ASSUME NEW i \in CalledAt(s.tools), NEW j \in CalledAt(s.tools), i # j
      PROVE  s.tools[i].id # s.tools[j].id
  <2>1. /\ i \in Indexes /\ j \in Indexes /\ s.tools[i].id \in IdsOf(p, i) /\ s.tools[j].id \in IdsOf(p, j)
        /\ s.tools[i].id # NoId /\ s.tools[j].id # NoId
    BY DEF ToolsSound, CalledAt, Ready
  <2>2. i \in Nat /\ j \in Nat /\ i < MaxCalls /\ j < MaxCalls /\ MaxCalls \in Nat
    BY <2>1, IndexesAre DEF Indexes
  <2>3. CASE p = "gemini"
    BY <1>2, <2>1, <2>3 DEF IdsOf
  <2>4. CASE p # "gemini"
    <3>1. s.tools[i].id \in {ServerId(i), AnotherId(i)} /\ s.tools[j].id \in {ServerId(j), AnotherId(j)}
      BY <2>1, <2>4 DEF IdsOf
    <3>2. 1 + i # 1 + j /\ 1 + i + MaxCalls # 1 + j + MaxCalls /\ 1 + i # 1 + j + MaxCalls
          /\ 1 + i + MaxCalls # 1 + j
      BY <1>2, <2>2
    <3>3. /\ ServerId(i).n = 1 + i /\ AnotherId(i).n = 1 + i + MaxCalls
          /\ ServerId(j).n = 1 + j /\ AnotherId(j).n = 1 + j + MaxCalls
      BY DEF ServerId, AnotherId
    <3> QED
      BY <3>1, <3>2, <3>3
  <2> QED
    BY <2>3, <2>4
<1>3. OwnIds(calls, n)
  <2> SUFFICES ASSUME NEW k \in 1 .. n
               PROVE  calls[k].id # NoId /\ calls[k].named /\ \A l \in 1 .. n : k # l => calls[k].id # calls[l].id
    BY DEF OwnIds
  <2>1. calls[k].id # NoId /\ calls[k].named
    BY <1>1 DEF Ready
  <2>2. ASSUME NEW l \in 1 .. n, k # l
        PROVE  calls[k].id # calls[l].id
    <3>1. at[k] # at[l] /\ at[k] \in CalledAt(s.tools) /\ at[l] \in CalledAt(s.tools)
      BY <1>1, <2>2
    <3>2. s.tools[at[k]].id # s.tools[at[l]].id
      BY <1>2, <3>1
    <3> QED
      BY <1>1, <3>2
  <2> QED
    BY <2>1, <2>2
<1> QED
  BY <1>1, <1>3

(* What a whole turn stages. *)
UsesThem(us, calls, n) == \A k \in 1 .. n : us[k] = Use(calls[k].id, calls[k].named, calls[k].args)
CallsThem(us, calls, n) ==
  \A k \in 1 .. n : /\ us[k].id = calls[k].id
                     /\ \E i \in CalledAt(stream.tools) : calls[k] = stream.tools[i]

LEMMA StagedIs ==
  ASSUME StreamTypeOK, StreamInv, stream.phase = "done",
         NEW calls, calls = Called(stream.tools), NEW n, n = Cardinality(CalledAt(stream.tools))
  PROVE  /\ n \in Nat /\ DOMAIN calls = 1 .. n /\ StepOf(staged, n) /\ OwnIds(Uses(staged), n)
         /\ Head(staged).info = StopReason(stream.finish) /\ Head(staged).chunks = Texts
         /\ ~Head(staged).thought
         /\ UsesThem(Uses(staged), calls, n) /\ CallsThem(Uses(staged), calls, n)
         /\ OwnIds(calls, n)
         /\ \A i \in CalledAt(stream.tools) : Ready(stream.tools[i])
<1>1. /\ stream \in StreamState /\ provider \in {"anthropic", "openai", "gemini"}
      /\ ToolsSound(provider, stream) /\ FinishSound(provider, stream)
  BY DEF StreamTypeOK, StreamInv, StreamSound
<1>2. \A i \in CalledAt(stream.tools) : Ready(stream.tools[i])
  BY <1>1 DEF ToolsSound, FinishSound
<1>3. /\ n \in Nat /\ DOMAIN calls = 1 .. n /\ OwnIds(calls, n)
      /\ \A k \in 1 .. n : \E i \in CalledAt(stream.tools) : calls[k] = stream.tools[i]
  BY <1>1, <1>2, CallsOwnIds
<1>4. PICK m, us, tools : /\ m = Message(StopReason(stream.finish), Texts, FALSE) /\ tools = stream.tools
                          /\ us = UsesOf(tools)
  OBVIOUS
<1>5. Answers(staged, m, us)
  BY <1>4 DEF StreamInv, StagedSound, Answers
<1>6. us = [k \in 1 .. n |-> Use(calls[k].id, calls[k].named, calls[k].args)]
  BY <1>3, <1>4 DEF UsesOf
<1>7. \A k \in 1 .. n : us[k] = Use(calls[k].id, calls[k].named, calls[k].args) /\ us[k].id = calls[k].id
                     /\ us[k].named = calls[k].named
  BY <1>6 DEF Use
<1>8. AreUses(us, n)
  BY <1>6, <1>7 DEF AreUses, Use
<1>9. Says(m) /\ m.info = StopReason(stream.finish) /\ m.chunks = Texts /\ ~m.thought
  BY <1>4 DEF Message, Says
<1>10. StepOf(staged, n) /\ Head(staged) = m /\ Uses(staged) = us
  BY <1>3, <1>5, <1>8, <1>9, StepsAre
<1>11. OwnIds(us, n)
  BY <1>3, <1>7 DEF OwnIds
<1>12. UsesThem(Uses(staged), calls, n) /\ CallsThem(Uses(staged), calls, n)
  BY <1>3, <1>7, <1>10 DEF UsesThem, CallsThem
<1> QED
  BY <1>2, <1>3, <1>9, <1>10, <1>11, <1>12

LEMMA ObserversAgree == StreamTypeOK /\ StreamInv => ObserversAgreeWithLog
<1> SUFFICES ASSUME StreamTypeOK, StreamInv
             PROVE  ObserversAgreeWithLog
  OBVIOUS
<1>1. /\ stream \in StreamState /\ StagedSound /\ EndingsSound(stream, observed)
      /\ Told("done") = ToldIn(observed, "done") /\ Told("failed") = ToldIn(observed, "failed")
      /\ Told("end") = ToldIn(observed, "end") /\ Told("begin") = ToldIn(observed, "begin")
  BY DEF StreamTypeOK, StreamInv, StreamSound, Told, ToldIn
<1>2. stream.phase \in {"idle", "open", "failed", "done"}
  BY <1>1 DEF StreamState
<1>3. CASE stream.phase \in {"idle", "open"}
  <2>1. staged = <<>> /\ Told("done") = {} /\ Told("failed") = {}
    BY <1>1, <1>3 DEF StagedSound, EndingsSound
  <2> QED
    BY <1>3, <2>1 DEF ObserversAgreeWithLog
<1>4. CASE stream.phase = "failed"
  <2>1. staged = <<>> /\ Told("done") = {} /\ Told("failed") = {Len(observed)}
    BY <1>1, <1>4 DEF StagedSound, EndingsSound
  <2> QED
    BY <1>4, <2>1 DEF ObserversAgreeWithLog
<1>5. CASE stream.phase = "done"
  <2> DEFINE us == Uses(staged)
  <2>1. PICK n, calls : n = Cardinality(CalledAt(stream.tools)) /\ calls = Called(stream.tools)
    OBVIOUS
  <2>2. /\ n \in Nat /\ DOMAIN calls = 1 .. n /\ StepOf(staged, n) /\ OwnIds(us, n)
        /\ Head(staged).chunks = Texts
        /\ CallsThem(us, calls, n)
        /\ \A i \in CalledAt(stream.tools) : Ready(stream.tools[i])
    BY <1>5, <2>1, StagedIs
  <2>8. \A k \in 1 .. n : /\ us[k].id = calls[k].id
                          /\ \E i \in CalledAt(stream.tools) : calls[k] = stream.tools[i]
    BY <2>2 DEF CallsThem
  <2>3. Told("failed") = {} /\ Told("done") = {Len(observed)}
    BY <1>1, <1>5 DEF EndingsSound
  <2>4. DOMAIN us = 1 .. n /\ Len(us) = n
    BY <2>2 DEF StepOf
  <2> HIDE DEF us
  <2>5. CloseProviderStep(staged) = "refused" => us = <<>> /\ Head(staged).info = "tool_use"
    <3>1. CloseProviderStep(staged) = "refused" => n = 0 /\ Head(staged).info = "tool_use"
      BY <2>2, Closing DEF us
    <3>2. n = 0 => us = <<>>
      <4>1. us = [k \in 1 .. n |-> us[k]]
        BY <2>2 DEF StepOf, AreUses, us
      <4>2. n = 0 => 1 .. n = {}
        OBVIOUS
      <4>3. n = 0 => us = [k \in {} |-> us[k]]
        BY <4>1, <4>2
      <4>4. [k \in {} |-> us[k]] = <<>>
        OBVIOUS
      <4> QED
        BY <4>3, <4>4
    <3> QED
      BY <3>1, <3>2
  <2>6. ASSUME ~stream.odd
        PROVE  /\ Cardinality(Told("end")) = Len(us)
               /\ \A k \in DOMAIN us : EndedIn(observed, us[k].id)
    <3>1. EndedTools(provider, stream) = CalledAt(stream.tools)
      <4>1. provider = "anthropic" => \A i \in Indexes : stream.block[i] = "none"
        BY <1>5 DEF StreamInv, StreamSound, BlocksSound, FinishSound
      <4>2. provider = "openai" => stream.finish # "none"
        BY <1>5 DEF StreamInv, StreamSound, FinishSound
      <4> QED
        BY <4>1, <4>2 DEF EndedTools, CalledAt
    <3>2. /\ \A i \in EndedTools(provider, stream) : EndedIn(observed, stream.tools[i].id)
          /\ Cardinality(ToldIn(observed, "end")) = Cardinality(EndedTools(provider, stream))
      BY <1>5, <2>6 DEF StreamInv, StreamSound, ToldSound
    <3>3. Cardinality(Told("end")) = Len(us)
      BY <1>1, <2>1, <2>4, <3>1, <3>2
    <3>4. \A k \in DOMAIN us : EndedIn(observed, us[k].id)
      BY <2>2, <2>4, <2>8, <3>1, <3>2
    <3> QED
      BY <3>3, <3>4
  <2>7. ASSUME NEW id, EndedIn(observed, id)
        PROVE  \E b \in Told("begin") : \E e \in Told("end") :
                 b < e /\ observed[b][2] = id /\ observed[e][2] = id
    <3>1. PICK b \in DOMAIN observed, e \in DOMAIN observed :
            b < e /\ observed[b] = <<"begin", id>> /\ observed[e] = <<"end", id>>
      BY <2>7 DEF EndedIn
    <3>2. b \in Told("begin") /\ e \in Told("end")
      BY <3>1 DEF Told
    <3> QED
      BY <3>1, <3>2
  <2> QED
    BY <1>5, <2>2, <2>3, <2>5, <2>6, <2>7 DEF ObserversAgreeWithLog, us
<1> QED
  BY <1>2, <1>3, <1>4, <1>5

(* What observers were told of a turn is what the log gets of it, whatever  *)
(* the server sends and wherever it breaks off.                            *)
THEOREM ToldIsStaged == StreamSpec => []ObserversAgreeWithLog
<1> QED
  BY ObserversAgree, StreamStaysSound, PTL

(* A step ingested of calls with names and ids of their own has such uses;  *)
(* without, it has a use to refuse.                                        *)
LEMMA WholeOwnIds ==
  ASSUME provider \in {"anthropic", "openai", "gemini"}, counter \in Nat,
         NEW finish, NEW calls, NEW n \in Nat, NEW chunks, NEW thought, NEW whole,
         IngestedAs(finish, calls, n, chunks, thought, whole), OwnIds(calls, n)
  PROVE  OwnIds(Uses(whole), n)
<1>1. CASE provider # "gemini"
  <2>1. \A id, named, args : Use(id, named, args).id = id /\ Use(id, named, args).named = named
    BY DEF Use
  <2>2. \A k \in 1 .. n : Uses(whole)[k].id = calls[k].id /\ Uses(whole)[k].named = calls[k].named
    BY <1>1, <2>1 DEF IngestedAs
  <2> QED
    BY <2>2 DEF OwnIds
<1>2. CASE provider = "gemini"
  <2>1. \A k \in 1 .. n : /\ Uses(whole)[k].id = [by |-> "ingestor", n |-> counter + k]
                          /\ Uses(whole)[k].named = calls[k].named
    BY <1>2 DEF IngestedAs
  <2> SUFFICES ASSUME NEW k \in 1 .. n
               PROVE  /\ Uses(whole)[k].id # NoId /\ Uses(whole)[k].named
                      /\ \A l \in 1 .. n : k # l => Uses(whole)[k].id # Uses(whole)[l].id
    BY DEF OwnIds
  <2> DEFINE numbered(x) == [by |-> "ingestor", n |-> x]
  <2>2. \A x : numbered(x).by = "ingestor" /\ numbered(x).n = x
    OBVIOUS
  <2>3. Uses(whole)[k].id.by = "ingestor" /\ Uses(whole)[k].id.n = counter + k
    <3>1. Uses(whole)[k].id = numbered(counter + k)
      BY <2>1
    <3> HIDE DEF numbered
    <3> QED
      BY <2>2, <3>1
  <2>4. NoId.by = "server"
    BY DEF NoId, NoTool
  <2>5. ASSUME NEW l \in 1 .. n, k # l
        PROVE  Uses(whole)[k].id # Uses(whole)[l].id
    <3>1. Uses(whole)[l].id.n = counter + l
      <4>1. Uses(whole)[l].id = numbered(counter + l)
        BY <2>1
      <4> HIDE DEF numbered
      <4> QED
        BY <2>2, <4>1
    <3>2. counter + k # counter + l
      BY <2>5
    <3> QED
      BY <2>3, <3>1, <3>2
  <2>6. Uses(whole)[k].named
    BY <2>1 DEF OwnIds
  <2> QED
    BY <2>3, <2>4, <2>5, <2>6
<1> QED
  BY <1>1, <1>2

(* One answer, streamed or buffered, of each provider. *)
LEMMA AnsweredAlike ==
  ASSUME StreamTypeOK, StreamInv, stream.phase = "done",
         NEW calls, calls = Called(stream.tools),
         NEW whole, whole = Ingested(stream.finish, calls, Texts, stream.thought)
  PROVE  /\ \/ /\ CloseProviderStep(whole) = CloseProviderStep(staged)
               /\ ~(provider = "gemini" /\ calls # <<>>)
            \/ /\ provider = "gemini" /\ calls # <<>>
               /\ CloseProviderStep(whole) = "dispatch" /\ CloseProviderStep(staged) = "closed"
         /\ SameStep(staged, whole, calls)
<1> DEFINE stop == Head(whole).info
           stopped == Head(staged).info
           limited == provider # "anthropic" /\ stream.finish \in {"length", "MAX_TOKENS"}
<1>1. PICK n : n = Cardinality(CalledAt(stream.tools))
  OBVIOUS
<1>2. /\ n \in Nat /\ DOMAIN calls = 1 .. n /\ StepOf(staged, n) /\ OwnIds(Uses(staged), n)
      /\ stopped = StopReason(stream.finish)
      /\ UsesThem(Uses(staged), calls, n) /\ CallsThem(Uses(staged), calls, n)
      /\ OwnIds(calls, n)
  BY <1>1, StagedIs
<1>15. \A k \in 1 .. n : /\ Uses(staged)[k] = Use(calls[k].id, calls[k].named, calls[k].args)
                         /\ \E i \in CalledAt(stream.tools) : calls[k] = stream.tools[i]
  BY <1>2 DEF UsesThem, CallsThem
<1>2a. Head(staged).chunks = Texts /\ ~Head(staged).thought
  BY <1>1, StagedIs
<1>3. /\ provider \in {"anthropic", "openai", "gemini"} /\ FinishSound(provider, stream)
      /\ stream.finish \in StopsOf(provider) /\ counter \in Nat
  BY DEF StreamTypeOK, StreamInv, StreamSound, FinishSound
<1>4. IngestedAs(stream.finish, calls, n, Texts, stream.thought, whole)
  BY <1>2, <1>3, IngestedIs
<1>5. StepOf(whole, n) /\ Head(whole).chunks = Texts /\ Head(whole).thought = stream.thought
  BY <1>4 DEF IngestedAs
<1>13. OwnIds(Uses(whole), n)
  BY <1>2, <1>3, <1>4, WholeOwnIds
<1>6. CloseProviderStep(whole) =
        IF n = 0 THEN IF stop = "tool_use" THEN "refused" ELSE "final"
        ELSE IF stop = "tool_use" THEN "dispatch" ELSE "closed"
  BY <1>2, <1>5, <1>13, Closing
<1>7. CloseProviderStep(staged) =
        IF n = 0 THEN IF stopped = "tool_use" THEN "refused" ELSE "final"
        ELSE IF stopped = "tool_use" THEN "dispatch" ELSE "closed"
  BY <1>2, Closing
<1>8. /\ Uses(whole) = [k \in 1 .. n |-> Uses(whole)[k]]
      /\ Uses(staged) = [k \in 1 .. n |-> Uses(staged)[k]]
      /\ Len(staged) = n + 1 /\ Len(whole) = n + 1
  BY <1>2, <1>5 DEF StepOf, AreUses
<1>14. SameStep(staged, whole, calls) <=>
         /\ stopped = stop \/ limited \/ (provider = "gemini" /\ calls # <<>>)
         /\ provider # "gemini" => Uses(staged) = Uses(whole)
  BY <1>2a, <1>5, <1>8 DEF SameStep
<1> HIDE DEF stop, stopped, limited
<1>9. ASSUME \A k \in 1 .. n : Uses(whole)[k] = Uses(staged)[k], stop = "tool_use" <=> stopped = "tool_use",
             stopped = stop \/ limited
      PROVE  CloseProviderStep(whole) = CloseProviderStep(staged) /\ SameStep(staged, whole, calls)
  <2>1. Uses(whole) = Uses(staged)
    BY <1>8, <1>9
  <2>2. CloseProviderStep(whole) = CloseProviderStep(staged)
    BY <1>6, <1>7, <1>9
  <2> QED
    BY <1>9, <1>14, <2>1, <2>2
<1>10. CASE provider = "anthropic"
  <2>1. \A k \in 1 .. n : Uses(whole)[k] = Uses(staged)[k]
    BY <1>4, <1>10, <1>15 DEF IngestedAs
  <2>2. stop = stream.finish
    BY <1>3, <1>4, <1>10 DEF IngestedAs, stop, StopsOf, AnthropicStops
  <2>3. stop = stopped
    BY <1>2, <1>3, <1>10, <2>2 DEF StopsOf, AnthropicStops, StopReason
  <2> QED
    BY <1>9, <1>10, <2>1, <2>3
<1>11. CASE provider = "openai"
  <2>1. ASSUME NEW k \in 1 .. n
        PROVE  Uses(whole)[k] = Uses(staged)[k]
    <3>1. PICK i \in CalledAt(stream.tools) : calls[k] = stream.tools[i]
      BY <1>15
    <3>2. calls[k].args \in {"empty", "whole"}
      BY <1>3, <1>11, <3>1 DEF FinishSound, StopsOf, OpenAIStops, Parsed
    <3>3. /\ Uses(whole)[k] = Use(calls[k].id, calls[k].named, Uses(whole)[k].info)
          /\ calls[k].args = "whole" => Uses(whole)[k].info = "whole"
          /\ calls[k].args # "whole" => Uses(whole)[k].info = "empty"
      BY <1>4, <1>11 DEF IngestedAs
    <3> QED
      BY <1>15, <3>2, <3>3
  <2>2. stop = NormalizeOpenAIStop(stream.finish)
    BY <1>4, <1>11 DEF IngestedAs, stop
  <2>3. (stop = "tool_use" <=> stopped = "tool_use") /\ (stopped = stop \/ limited)
    BY <1>2, <1>3, <1>11, <2>2 DEF StopsOf, OpenAIStops, StopReason, NormalizeOpenAIStop, limited
  <2> QED
    BY <1>9, <1>11, <2>1, <2>3
<1>12. CASE provider = "gemini"
  <2>3. stop = NormalizeGeminiStop(stream.finish, calls # <<>>)
    BY <1>4, <1>12 DEF IngestedAs, stop
  <2>4. stopped # "tool_use"
    BY <1>2, <1>3, <1>12 DEF StopsOf, GeminiStops, StopReason
  <2>5. CASE calls = <<>>
    <3>1. n = 0
      BY <1>2, <2>5
    <3>2. stop # "tool_use"
      BY <2>3, <2>5 DEF NormalizeGeminiStop
    <3>3. stopped = stop \/ limited
      BY <1>2, <1>3, <1>12, <2>3, <2>5 DEF StopsOf, GeminiStops, StopReason, NormalizeGeminiStop, limited
    <3> QED
      BY <1>6, <1>7, <1>12, <1>14, <2>4, <2>5, <3>1, <3>2, <3>3
  <2>6. CASE calls # <<>>
    <3>1. n # 0
      <4>1. calls = [k \in 1 .. n |-> calls[k]]
        BY <1>1, CalledIs DEF Called, ItemsAt
      <4>2. n = 0 => 1 .. n = {}
        OBVIOUS
      <4>3. n = 0 => calls = [k \in {} |-> calls[k]]
        BY <4>1, <4>2
      <4>4. [k \in {} |-> calls[k]] = <<>>
        OBVIOUS
      <4> QED
        BY <2>6, <4>3, <4>4
    <3>2. stop = "tool_use"
      BY <2>3, <2>6 DEF NormalizeGeminiStop
    <3> QED
      BY <1>6, <1>7, <1>12, <1>14, <2>4, <2>6, <3>1, <3>2
  <2> QED
    BY <2>5, <2>6
<1> QED
  BY <1>3, <1>9, <1>10, <1>11, <1>12

(* The calls of a stream that failed, ingested: refused when one has no     *)
(* name or id, and otherwise not, unless it stops for calls it has not.    *)
LEMMA FailedIngested ==
  ASSUME StreamTypeOK, StreamInv, NEW calls, calls = Called(stream.tools), NEW finish, NEW thought,
         NEW whole, whole = Ingested(finish, calls, Texts, thought)
  PROVE  /\ ~Complete(calls) => CloseProviderStep(whole) = "refused"
         /\ provider # "openai" => Complete(calls)
         /\ Complete(calls) /\ (Head(whole).info = "tool_use" => calls # <<>>) =>
              CloseProviderStep(whole) # "refused"
<1>1. PICK s, n : s \in StreamState /\ s = stream /\ n = Cardinality(CalledAt(s.tools))
  BY DEF StreamTypeOK
<1>2. PICK at : at = InOrder(CalledAt(s.tools))
  OBVIOUS
<1>3. /\ n \in Nat /\ DOMAIN calls = 1 .. n
      /\ \A k \in 1 .. n : at[k] \in CalledAt(s.tools) /\ calls[k] = s.tools[at[k]]
      /\ \A i \in CalledAt(s.tools) : \E k \in 1 .. n : at[k] = i
  BY <1>1, <1>2, CalledIs
<1>4. provider \in {"anthropic", "openai", "gemini"} /\ counter \in Nat /\ ToolsSound(provider, s)
  BY <1>1 DEF StreamTypeOK, StreamInv, StreamSound
<1>5. IngestedAs(finish, calls, n, Texts, thought, whole)
  BY <1>3, <1>4, IngestedIs
<1>6. StepOf(whole, n)
  BY <1>5 DEF IngestedAs
<1>7. provider # "openai" => Complete(calls)
  <2>1. provider # "openai" => \A i \in CalledAt(s.tools) : Ready(s.tools[i])
    BY <1>4 DEF ToolsSound
  <2>2. ASSUME NEW k \in 1 .. n, Ready(s.tools[at[k]])
        PROVE  calls[k].id # NoId /\ calls[k].named
    BY <1>3, <2>2 DEF Ready
  <2> QED
    BY <1>3, <2>1, <2>2 DEF Complete
<1>8. ASSUME ~Complete(calls)
      PROVE  CloseProviderStep(whole) = "refused"
  <2>1. PICK k \in 1 .. n : calls[k].id = NoId \/ ~calls[k].named
    BY <1>3, <1>8 DEF Complete
  <2>2. \A id, named, args : Use(id, named, args).id = id /\ Use(id, named, args).named = named
    BY DEF Use
  <2>3. Uses(whole)[k].id = calls[k].id /\ Uses(whole)[k].named = calls[k].named
    BY <1>4, <1>5, <1>7, <1>8, <2>2 DEF IngestedAs
  <2> QED
    BY <1>3, <1>6, <2>1, <2>3, Refusing
<1>9. ASSUME Complete(calls), Head(whole).info = "tool_use" => calls # <<>>
      PROVE  CloseProviderStep(whole) # "refused"
  <2>1. ASSUME NEW i \in CalledAt(s.tools)
        PROVE  Ready(s.tools[i])
    <3>1. PICK k \in 1 .. n : at[k] = i
      BY <1>3
    <3>2. calls[k] = s.tools[i] /\ k \in DOMAIN calls
      BY <1>3, <3>1
    <3>3. calls[k].id # NoId /\ calls[k].named
      BY <1>9, <3>2 DEF Complete
    <3> QED
      BY <3>2, <3>3 DEF Ready
  <2>2. OwnIds(calls, n)
    BY <1>1, <1>4, <2>1, CallsOwnIds
  <2>3. OwnIds(Uses(whole), n)
    BY <1>3, <1>4, <1>5, <2>2, WholeOwnIds
  <2>4. n = 0 => calls = <<>>
    <3>1. calls = [k \in 1 .. n |-> calls[k]]
      BY <1>1, CalledIs DEF Called, ItemsAt
    <3>2. n = 0 => 1 .. n = {}
      OBVIOUS
    <3>3. n = 0 => calls = [k \in {} |-> calls[k]]
      BY <3>1, <3>2
    <3>4. [k \in {} |-> calls[k]] = <<>>
      OBVIOUS
    <3> QED
      BY <3>3, <3>4
  <2>5. PICK stop : stop = Head(whole).info
    OBVIOUS
  <2>6. CloseProviderStep(whole) =
          IF n = 0 THEN IF stop = "tool_use" THEN "refused" ELSE "final"
          ELSE IF stop = "tool_use" THEN "dispatch" ELSE "closed"
    BY <1>3, <1>6, <2>3, <2>5, Closing
  <2> QED
    BY <1>9, <2>4, <2>5, <2>6
<1> QED
  BY <1>7, <1>8, <1>9

(* ... with a call that came with no name. *)
LEMMA NamelessRefused ==
  ASSUME provider \in {"anthropic", "openai", "gemini"},
         NEW m \in Nat, NEW calls, DOMAIN calls = 1 .. m, m # 0, ~calls[m].named,
         NEW finish, NEW thought, NEW whole, whole = Ingested(finish, calls, Texts, thought)
  PROVE  CloseProviderStep(whole) = "refused"
<1>1. IngestedAs(finish, calls, m, Texts, thought, whole)
  BY IngestedIs
<1>2. m \in 1 .. m
  OBVIOUS
<1>3. StepOf(whole, m) /\ ~Uses(whole)[m].named
  BY <1>1, <1>2 DEF IngestedAs
<1> QED
  BY <1>2, <1>3, Refusing

LEMMA UnnamedIngested ==
  ASSUME StreamTypeOK, NEW calls, calls = Append(Called(stream.tools), Unnamed), NEW finish, NEW thought,
         NEW whole, whole = Ingested(finish, calls, Texts, thought)
  PROVE  CloseProviderStep(whole) = "refused"
<1>1. PICK before, n : before = Called(stream.tools) /\ n = Cardinality(CalledAt(stream.tools))
  OBVIOUS
<1>2. /\ n \in Nat /\ DOMAIN before = 1 .. n /\ Len(before) = n
      /\ before = [k \in 1 .. n |-> before[k]]
  BY <1>1, CalledIs DEF Called, ItemsAt
<1>3. DOMAIN calls = 1 .. n + 1 /\ calls[n + 1] = Unnamed
  <2> DEFINE T == {before[k] : k \in 1 .. n} \cup {Unnamed}
  <2>1. before \in [1 .. n -> T]
    BY <1>2
  <2>2. Unnamed \in T
    OBVIOUS
  <2> HIDE DEF T
  <2>3. before \in Seq(T)
    BY <1>2, <2>1
  <2>4. /\ Len(Append(before, Unnamed)) = n + 1
        /\ DOMAIN Append(before, Unnamed) = 1 .. n + 1
        /\ Append(before, Unnamed)[n + 1] = Unnamed
    BY <1>2, <2>2, <2>3
  <2> QED
    BY <1>1, <2>4
<1>4. PICK m \in Nat : m = n + 1 /\ m # 0
  BY <1>2
<1>5. DOMAIN calls = 1 .. m /\ ~calls[m].named
  BY <1>3, <1>4 DEF Unnamed
<1>6. provider \in {"anthropic", "openai", "gemini"}
  BY DEF StreamTypeOK
<1> QED
  BY <1>4, <1>5, <1>6, NamelessRefused, Zenon

(* A stream of OpenAI that ends at arguments which do not parse, of which   *)
(* the ingestor makes an empty object.                                     *)
LEMMA UnparsedIngested ==
  ASSUME StreamTypeOK, StreamInv, stream.why = "arguments", provider = "openai",
         NEW calls, calls = Called(stream.tools),
         NEW whole, whole = Ingested(stream.finish, calls, Texts, stream.thought)
  PROVE  \E n \in DOMAIN calls : ~Parsed(calls[n].args) /\ Uses(whole)[n].info = "empty"
<1>1. PICK i \in CalledAt(stream.tools) : ~Parsed(stream.tools[i].args)
  BY DEF StreamInv, StreamSound, FinishSound, WhySound
<1>2. PICK tools, n : tools = stream.tools /\ n = Cardinality(CalledAt(tools))
  OBVIOUS
<1>3. n \in Nat /\ DOMAIN calls = 1 .. n
  BY <1>2, CalledIs
<1>4. PICK k \in 1 .. n : calls[k] = tools[i]
  <2>1. PICK at : at = InOrder(CalledAt(tools))
    OBVIOUS
  <2>2. /\ \A k \in 1 .. n : calls[k] = tools[at[k]]
        /\ \A j \in CalledAt(tools) : \E k \in 1 .. n : at[k] = j
    BY <1>2, <2>1, CalledIs
  <2> QED
    BY <1>1, <1>2, <2>2
<1>5. IngestedAs(stream.finish, calls, n, Texts, stream.thought, whole)
  BY <1>3, IngestedIs DEF StreamTypeOK
<1>6. ~Parsed(calls[k].args) /\ calls[k].args # "whole"
  BY <1>1, <1>2, <1>4 DEF Parsed
<1>7. Uses(whole)[k].info = "empty"
  BY <1>5, <1>6 DEF IngestedAs
<1> QED
  BY <1>3, <1>6, <1>7

(* A stream that ends at what the ingestor takes, or refuses. *)
LEMMA FailedAlike ==
  ASSUME StreamTypeOK, StreamInv, NEW calls, calls = Called(stream.tools)
  PROVE  /\ stream.why = "delta" =>
              \A finish \in Stops : (finish = "tool_use" => calls # <<>>) =>
                Buffered(finish, calls) # "refused"
         /\ stream.why = "unfinished" =>
              (Buffered(stream.finish, calls) = "refused" <=> ~Complete(calls))
         /\ stream.why = "unnamed" /\ provider = "openai" => Buffered(stream.finish, calls) = "refused"
         /\ stream.why = "unnamed" /\ provider # "openai" =>
              Buffered(stream.finish, Append(calls, Unnamed)) = "refused"
<1>1. /\ provider \in {"anthropic", "openai", "gemini"} /\ FinishSound(provider, stream)
      /\ ToolsSound(provider, stream)
  BY DEF StreamTypeOK, StreamInv, StreamSound
<1>2. stream.why # "none" => WhySound(provider, stream)
  BY <1>1 DEF FinishSound
<1>3. ASSUME NEW finish
      PROVE  \E n \in Nat : \E whole :
               /\ n = Cardinality(CalledAt(stream.tools)) /\ DOMAIN calls = 1 .. n
               /\ whole = Ingested(finish, calls, Texts, stream.thought)
               /\ Buffered(finish, calls) = CloseProviderStep(whole)
               /\ IngestedAs(finish, calls, n, Texts, stream.thought, whole)
  <2>1. PICK n, whole : /\ n = Cardinality(CalledAt(stream.tools))
                        /\ whole = Ingested(finish, calls, Texts, stream.thought)
    OBVIOUS
  <2>2. n \in Nat /\ DOMAIN calls = 1 .. n
    BY <2>1, CalledIs
  <2>3. IngestedAs(finish, calls, n, Texts, stream.thought, whole)
    BY <1>1, <2>1, <2>2, IngestedIs
  <2>4. Buffered(finish, calls) = CloseProviderStep(whole)
    BY <2>1 DEF Buffered
  <2> QED
    BY <2>1, <2>2, <2>3, <2>4
<1>4. ASSUME stream.why = "delta", NEW finish \in Stops, finish = "tool_use" => calls # <<>>
      PROVE  Buffered(finish, calls) # "refused"
  <2>1. provider = "anthropic"
    BY <1>2, <1>4 DEF WhySound
  <2>2. PICK n, whole :
          /\ n \in Nat /\ whole = Ingested(finish, calls, Texts, stream.thought)
          /\ Buffered(finish, calls) = CloseProviderStep(whole)
          /\ IngestedAs(finish, calls, n, Texts, stream.thought, whole)
    BY <1>3
  <2>3. finish # "none"
    BY <1>4, <2>1 DEF Stops, AnthropicStops
  <2>4. Head(whole).info = finish
    BY <2>1, <2>2, <2>3 DEF IngestedAs
  <2>5. PICK thought : thought = stream.thought
    OBVIOUS
  <2>6. CloseProviderStep(whole) # "refused"
    BY <1>4, <2>1, <2>2, <2>4, <2>5, FailedIngested
  <2> QED
    BY <2>2, <2>6
<1>5. ASSUME stream.why = "unfinished"
      PROVE  Buffered(stream.finish, calls) = "refused" <=> ~Complete(calls)
  <2>1. stream.finish = "none"
    BY <1>2, <1>5 DEF WhySound
  <2>2. PICK n, whole :
          /\ n \in Nat /\ whole = Ingested("none", calls, Texts, stream.thought)
          /\ Buffered("none", calls) = CloseProviderStep(whole)
          /\ IngestedAs("none", calls, n, Texts, stream.thought, whole)
    BY <1>3
  <2>3. Head(whole).info = "tool_use" => calls # <<>>
    BY <1>1, <2>2 DEF IngestedAs, NormalizeOpenAIStop, NormalizeGeminiStop
  <2>4. PICK thought, finish : thought = stream.thought /\ finish = "none"
    OBVIOUS
  <2>5. CloseProviderStep(whole) = "refused" <=> ~Complete(calls)
    BY <2>2, <2>3, <2>4, FailedIngested
  <2> QED
    BY <2>1, <2>2, <2>5
<1>6. ASSUME stream.why = "unnamed", provider = "openai"
      PROVE  Buffered(stream.finish, calls) = "refused"
  <2>1. PICK i \in CalledAt(stream.tools) : ~Ready(stream.tools[i])
    BY <1>2, <1>6 DEF WhySound
  <2>2. ~Complete(calls)
    <3>1. PICK tools, n, at : tools = stream.tools /\ n = Cardinality(CalledAt(tools))
                              /\ at = InOrder(CalledAt(tools))
      OBVIOUS
    <3>2. /\ DOMAIN calls = 1 .. n /\ \A k \in 1 .. n : calls[k] = tools[at[k]]
          /\ \A j \in CalledAt(tools) : \E k \in 1 .. n : at[k] = j
      BY <3>1, CalledIs
    <3> QED
      BY <2>1, <3>1, <3>2 DEF Complete, Ready
  <2>3. PICK whole, thought, finish :
          /\ thought = stream.thought /\ finish = stream.finish
          /\ whole = Ingested(finish, calls, Texts, thought)
    OBVIOUS
  <2>4. CloseProviderStep(whole) = "refused"
    BY <2>2, <2>3, FailedIngested
  <2> QED
    BY <2>3, <2>4 DEF Buffered
<1>7. Buffered(stream.finish, Append(calls, Unnamed)) = "refused"
  <2>1. PICK heard, whole, thought, finish :
          /\ thought = stream.thought /\ finish = stream.finish
          /\ heard = Append(calls, Unnamed) /\ whole = Ingested(finish, heard, Texts, thought)
    OBVIOUS
  <2>2. CloseProviderStep(whole) = "refused"
    BY <2>1, UnnamedIngested
  <2> QED
    BY <2>1, <2>2 DEF Buffered
<1> QED
  BY <1>4, <1>5, <1>6, <1>7

LEMMA StreamedAlike == StreamTypeOK /\ StreamInv => StreamedLikeBuffered
<1> SUFFICES ASSUME StreamTypeOK, StreamInv
             PROVE  StreamedLikeBuffered
  OBVIOUS
<1>1. PICK calls, whole : /\ calls = Called(stream.tools)
                          /\ whole = Ingested(stream.finish, calls, Texts, stream.thought)
  OBVIOUS
<1>2. stream.phase = "done" =>
        /\ SameStep(staged, whole, calls)
        /\ IF provider = "gemini" /\ calls # <<>>
           THEN CloseProviderStep(staged) = "closed" /\ CloseProviderStep(whole) = "dispatch"
           ELSE CloseProviderStep(staged) = CloseProviderStep(whole)
  BY <1>1, AnsweredAlike
<1>3. stream.why = "arguments" /\ provider = "openai" =>
        \E n \in DOMAIN calls : ~Parsed(calls[n].args) /\ Uses(whole)[n].info = "empty"
  BY <1>1, UnparsedIngested
<1>4. /\ stream.why = "delta" =>
           \A finish \in Stops : (finish = "tool_use" => calls # <<>>) =>
             Buffered(finish, calls) # "refused"
      /\ stream.why = "unfinished" =>
           (Buffered(stream.finish, calls) = "refused" <=> ~Complete(calls))
      /\ stream.why = "unnamed" /\ provider = "openai" => Buffered(stream.finish, calls) = "refused"
      /\ stream.why = "unnamed" /\ provider # "openai" =>
           Buffered(stream.finish, Append(calls, Unnamed)) = "refused"
  BY <1>1, FailedAlike
<1>5. stream.why = "unnamed" =>
        Buffered(stream.finish, IF provider = "openai" THEN calls ELSE Append(calls, Unnamed)) = "refused"
  BY <1>4
<1> QED
  BY <1>1, <1>2, <1>3, <1>4, <1>5, Zenon DEF StreamedLikeBuffered

(* The same answer, streamed or buffered, stages the same and takes the     *)
(* loop the same way, but where StreamedLikeBuffered says how they differ. *)
THEOREM StreamsAreLikeBuffered == StreamSpec => []StreamedLikeBuffered
<1> QED
  BY StreamedAlike, StreamStaysSound, PTL
=============================================================================
