----------------------------- MODULE HostProofs -----------------------------
(***************************************************************************)
(* Of what a host runs beside and around its sessions: cost trackers on the *)
(* buses of any number of sessions (Observation), registries of shells with *)
(* any callers, ids, shells and sizes of buffers (ShellRegistry), and the   *)
(* middleware around a tool (tool_middleware.go): at most two windows'      *)
(* calls in a minute (RateLimiter), and what a guarded session truncates it *)
(* has seen, unless it was raced (Workspace).                              *)
(***************************************************************************)
EXTENDS Observation, ShellRegistry, RateLimiter, Workspace, FiniteSetTheorems,
        SequenceTheorems, TLAPS

-----------------------------------------------------------------------------
(* Observation: ObservationTypeOK and ObservationInv are an inductive       *)
(* invariant; AlarmRingsOnce follows from it.                              *)
Messages == Buses \X Nat

ObservationTypeOK ==
  /\ subscribers \in [Buses -> Seq(Trackers)] /\ toCall \in [Buses -> Seq(Trackers)]
  /\ ringing \in [Buses -> Nat] /\ emitted \in [Buses -> Nat]
  /\ joined \in [Buses -> SUBSET Trackers] /\ gone \in [Buses -> SUBSET Trackers]
  /\ spent \in [Trackers -> Nat] /\ fired \in [Trackers -> BOOLEAN]
  /\ owed \in [Trackers -> SUBSET Messages] /\ counted \in [Trackers -> SUBSET Messages]
  /\ rang \in [Trackers -> Seq(Nat)]

(* Nobody is twice on a bus, or twice in the copy Emit works from. *)
Once(seq) == \A i, j \in 1 .. Len(seq) : seq[i] = seq[j] => i = j
In(seq) == {seq[i] : i \in 1 .. Len(seq)}

OnTheBus ==
  \A b \in Buses :
    /\ Once(subscribers[b]) /\ Once(toCall[b])
    /\ In(subscribers[b]) \subseteq joined[b]
    /\ gone[b] = {} => joined[b] \subseteq In(subscribers[b])

(* The trackers that have not yet counted the message being emitted. *)
ToCount(b) ==
  IF ringing[b] # 0 THEN In(toCall[b]) \ {Head(toCall[b])} ELSE In(toCall[b])

CountsOnce ==
  /\ \A b \in Buses : ringing[b] # 0 => toCall[b] # <<>>
  /\ \A t \in Trackers :
       /\ IsFiniteSet(counted[t]) /\ spent[t] = Cardinality(counted[t])
       /\ \A m \in counted[t] : m[2] <= emitted[m[1]]
       /\ \A b \in Buses : t \in ToCount(b) => <<b, emitted[b]>> \notin counted[t]

CountsWhatItIsOwed ==
  \A t \in Trackers : LeftAlone(t) =>
    \A m \in owed[t] :
      m \in counted[t] \/ \E b \in Buses : m = <<b, emitted[b]>> /\ t \in ToCount(b)

(* onThreshold of t is being called on b. *)
Rings(b, t) == ringing[b] # 0 /\ toCall[b] # <<>> /\ Head(toCall[b]) = t

OneAlarm ==
  /\ \A b \in Buses : ringing[b] # 0 => ringing[b] >= Threshold
  /\ \A t \in Trackers :
       /\ fired[t] <=> Threshold > 0 /\ spent[t] >= Threshold
       /\ fired[t] <=> rang[t] # <<>> \/ \E b \in Buses : Rings(b, t)
       /\ \A b \in Buses : Rings(b, t) =>
            rang[t] = <<>> /\ \A c \in Buses : Rings(c, t) => c = b
       /\ Len(rang[t]) <= 1
       /\ \A i \in 1 .. Len(rang[t]) : rang[t][i] >= Threshold

ObservationInv == OnTheBus /\ CountsOnce /\ CountsWhatItIsOwed /\ OneAlarm

-----------------------------------------------------------------------------
(* What is left of a sequence without its head. *)
LEMMA TailFacts ==
  ASSUME NEW S, NEW seq \in Seq(S), seq # <<>>
  PROVE  /\ Tail(seq) \in Seq(S) /\ Head(seq) \in In(seq) /\ Head(seq) \in S
         /\ In(Tail(seq)) \subseteq In(seq)
         /\ Once(seq) => Once(Tail(seq)) /\ In(Tail(seq)) = In(seq) \ {Head(seq)}
<1>1. /\ Len(seq) \in Nat \ {0} /\ Len(Tail(seq)) = Len(seq) - 1
      /\ Tail(seq) \in Seq(S) /\ Head(seq) = seq[1]
      /\ \A i \in 1 .. Len(seq) : seq[i] \in S
      /\ \A i \in 1 .. Len(Tail(seq)) : Tail(seq)[i] = seq[i + 1]
  OBVIOUS
<1>2. \A i \in 1 .. Len(Tail(seq)) : i + 1 \in 1 .. Len(seq)
  BY <1>1
<1>3. \A j \in 1 .. Len(seq) : j # 1 => j - 1 \in 1 .. Len(Tail(seq)) /\ Tail(seq)[j - 1] = seq[j]
  BY <1>1
<1>4. Head(seq) \in In(seq) /\ In(Tail(seq)) \subseteq In(seq)
  BY <1>1, <1>2 DEF In
<1>5. ASSUME Once(seq)
      PROVE  Once(Tail(seq)) /\ In(Tail(seq)) = In(seq) \ {Head(seq)}
  <2>1. Once(Tail(seq))
    BY <1>1, <1>2, <1>5 DEF Once
  <2>2. \A i \in 1 .. Len(Tail(seq)) : Tail(seq)[i] # Head(seq)
    BY <1>1, <1>2, <1>5 DEF Once
  <2>3. In(seq) \ {Head(seq)} \subseteq In(Tail(seq))
    BY <1>1, <1>3 DEF In
  <2> QED
    BY <1>4, <2>1, <2>2, <2>3 DEF In
<1> QED
  BY <1>1, <1>4, <1>5

LEMMA AppendFacts ==
  ASSUME NEW S, NEW seq \in Seq(S), NEW e \in S
  PROVE  /\ Append(seq, e) \in Seq(S) /\ In(Append(seq, e)) = In(seq) \cup {e}
         /\ Once(seq) /\ e \notin In(seq) => Once(Append(seq, e))
<1>1. /\ Len(seq) \in Nat /\ Len(Append(seq, e)) = Len(seq) + 1
      /\ Append(seq, e) \in Seq(S) /\ Append(seq, e)[Len(seq) + 1] = e
      /\ \A i \in 1 .. Len(seq) : Append(seq, e)[i] = seq[i]
  OBVIOUS
<1>2. \A i \in 1 .. Len(seq) + 1 : i \in 1 .. Len(seq) \/ i = Len(seq) + 1
  BY <1>1
<1>3. In(Append(seq, e)) = In(seq) \cup {e}
  <2>1. In(Append(seq, e)) \subseteq In(seq) \cup {e}
    BY <1>1, <1>2 DEF In
  <2>2. In(seq) \subseteq In(Append(seq, e))
    BY <1>1 DEF In
  <2>3. e \in In(Append(seq, e))
    BY <1>1 DEF In
  <2> QED
    BY <2>1, <2>2, <2>3
<1>4. Once(seq) /\ e \notin In(seq) => Once(Append(seq, e))
  BY <1>1, <1>2 DEF In, Once
<1> QED
  BY <1>1, <1>3, <1>4

LEMMA EmptyFacts == In(<<>>) = {} /\ Once(<<>>)
  BY DEF In, Once

-----------------------------------------------------------------------------
(* The buses and trackers are type correct: Subscribe, Unsubscribe, Emit,  *)
(* Count and Ring leave sequences of trackers and sets of messages.        *)
THEOREM BusTypes == ObservationSpec => []ObservationTypeOK
<1>1. ObservationInit => ObservationTypeOK
  BY DEF ObservationInit, ObservationTypeOK, Messages
<1>2. ObservationTypeOK /\ [ObservationNext]_observationVars => ObservationTypeOK'
  <2> SUFFICES ASSUME ObservationTypeOK, [ObservationNext]_observationVars
               PROVE  ObservationTypeOK'
    OBVIOUS
  <2> USE DEF ObservationTypeOK, Messages
  <2>1. ASSUME NEW b \in Buses, NEW t \in Trackers, Subscribe(b, t)
        PROVE  ObservationTypeOK'
    BY <2>1, AppendFacts DEF Subscribe
  <2>2. ASSUME NEW b \in Buses, NEW t \in Trackers, Unsubscribe(b, t)
        PROVE  ObservationTypeOK'
    BY <2>2 DEF Unsubscribe
  <2>3. ASSUME NEW b \in Buses, Emit(b)
        PROVE  ObservationTypeOK'
    BY <2>3 DEF Emit
  <2>4. ASSUME NEW b \in Buses, NEW t \in Trackers, Count(b, t)
        PROVE  ObservationTypeOK'
    <3>1. spent' \in [Trackers -> Nat] /\ ringing' \in [Buses -> Nat]
      <4>1. spent' = [spent EXCEPT ![t] = @ + 1]
        BY <2>4, Zenon DEF Count
      <4>2. ringing' = ringing \/ ringing' = [ringing EXCEPT ![b] = spent[t] + 1]
        BY <2>4, Zenon DEF Count
      <4> QED
        BY <4>1, <4>2
    <3>2. counted' \in [Trackers -> SUBSET (Buses \X Nat)]
      BY <2>4 DEF Count
    <3>3. fired' \in [Trackers -> BOOLEAN]
      <4>1. fired' = fired \/ fired' = [fired EXCEPT ![t] = TRUE]
        BY <2>4, Zenon DEF Count
      <4> QED
        BY <4>1
    <3>4. toCall' \in [Buses -> Seq(Trackers)]
      <4>1. toCall' = toCall \/ toCall' = [toCall EXCEPT ![b] = Tail(@)]
        BY <2>4, Zenon DEF Count
      <4>2. toCall[b] \in Seq(Trackers) /\ toCall[b] # <<>>
        BY <2>4 DEF Count
      <4>3. Tail(toCall[b]) \in Seq(Trackers)
        BY <4>2
      <4> QED
        BY <4>1, <4>3
    <3>5. UNCHANGED <<subscribers, emitted, joined, gone, owed, rang>>
      BY <2>4, Zenon DEF Count
    <3> QED
      BY <3>1, <3>2, <3>3, <3>4, <3>5
  <2>5. ASSUME NEW b \in Buses, NEW t \in Trackers, Ring(b, t)
        PROVE  ObservationTypeOK'
    <3>1. toCall[b] \in Seq(Trackers) /\ toCall[b] # <<>>
      BY <2>5 DEF Ring
    <3>2. Tail(toCall[b]) \in Seq(Trackers) /\ Append(rang[t], ringing[b]) \in Seq(Nat)
      BY <3>1, AppendFacts
    <3> QED
      BY <2>5, <3>2 DEF Ring
  <2>6. CASE UNCHANGED observationVars
    BY <2>6 DEF observationVars
  <2> QED
    BY <2>1, <2>2, <2>3, <2>4, <2>5, <2>6 DEF ObservationNext
<1> QED
  BY <1>1, <1>2, PTL DEF ObservationSpec

-----------------------------------------------------------------------------
LEMMA OnTheBusStep ==
  ASSUME ObservationTypeOK, OnTheBus, [ObservationNext]_observationVars
  PROVE  OnTheBus'
<1> USE DEF ObservationTypeOK
<1>1. ASSUME NEW b \in Buses, NEW t \in Trackers, Subscribe(b, t)
      PROVE  OnTheBus'
  <2>1. subscribers[b] \in Seq(Trackers) /\ t \notin In(subscribers[b])
    BY <1>1 DEF Subscribe, OnTheBus
  <2>2. /\ Once(Append(subscribers[b], t))
        /\ In(Append(subscribers[b], t)) = In(subscribers[b]) \cup {t}
    BY <2>1, AppendFacts DEF OnTheBus
  <2> QED
    BY <1>1, <2>2 DEF Subscribe, OnTheBus
<1>2. ASSUME NEW b \in Buses, NEW t \in Trackers, Unsubscribe(b, t)
      PROVE  OnTheBus'
  <2>1. Once(subscribers'[b]) /\ In(subscribers'[b]) \subseteq joined[b]
    <3>1. subscribers[b] \in Seq(Trackers) /\ Once(subscribers[b])
          /\ In(subscribers[b]) \subseteq joined[b]
      BY DEF OnTheBus
    <3>2. subscribers'[b] = IF subscribers[b] = <<>> THEN subscribers[b] ELSE Tail(subscribers[b])
      BY <1>2 DEF Unsubscribe
    <3> QED
      BY <3>1, <3>2, TailFacts
  <2> QED
    BY <1>2, <2>1 DEF Unsubscribe, OnTheBus
<1>3. ASSUME NEW b \in Buses, Emit(b)
      PROVE  OnTheBus'
  BY <1>3 DEF Emit, OnTheBus
<1>4. ASSUME NEW b \in Buses, NEW t \in Trackers, Count(b, t) \/ Ring(b, t)
      PROVE  OnTheBus'
  <2>1. toCall' = toCall \/ toCall' = [toCall EXCEPT ![b] = Tail(@)]
    BY <1>4, Zenon DEF Count, Ring
  <2>2. UNCHANGED <<subscribers, joined, gone>>
    BY <1>4, Zenon DEF Count, Ring
  <2>3. toCall[b] \in Seq(Trackers) /\ toCall[b] # <<>> /\ Once(toCall[b])
    BY <1>4 DEF Count, Ring, OnTheBus
  <2>4. Once(Tail(toCall[b]))
    BY <2>3, TailFacts
  <2> QED
    BY <2>1, <2>2, <2>4 DEF OnTheBus
<1>5. CASE UNCHANGED observationVars
  BY <1>5 DEF observationVars, OnTheBus
<1> QED
  BY <1>1, <1>2, <1>3, <1>4, <1>5 DEF ObservationNext

(* What each action does to those who have still to count a message. *)
LEMMA EmitToCount ==
  ASSUME ObservationTypeOK, CountsOnce, NEW b \in Buses, Emit(b)
  PROVE  /\ ToCount(b)' = In(subscribers[b]) /\ ToCount(b) = {}
         /\ \A c \in Buses \ {b} : ToCount(c)' = ToCount(c)
BY EmptyFacts DEF Emit, ToCount, CountsOnce, ObservationTypeOK

LEMMA CountToCount ==
  ASSUME ObservationTypeOK, OnTheBus, NEW b \in Buses, NEW t \in Trackers, Count(b, t)
  PROVE  /\ t \in ToCount(b) /\ ToCount(b)' = ToCount(b) \ {t}
         /\ \A c \in Buses \ {b} : ToCount(c)' = ToCount(c)
         /\ ringing'[b] # 0 => toCall'[b] # <<>>
<1>1. /\ toCall[b] \in Seq(Trackers) /\ toCall[b] # <<>> /\ Once(toCall[b])
      /\ t = Head(toCall[b]) /\ ringing[b] = 0
  BY DEF Count, OnTheBus, ObservationTypeOK
<1>2. t \in In(toCall[b]) /\ In(Tail(toCall[b])) = In(toCall[b]) \ {t}
  BY <1>1, TailFacts
<1>3. CASE Fires(t)
  <2>1. toCall' = toCall /\ ringing' = [ringing EXCEPT ![b] = spent[t] + 1]
    BY <1>3, Zenon DEF Count
  <2>2. ringing'[b] = spent[t] + 1 /\ spent[t] \in Nat
    BY <2>1 DEF ObservationTypeOK
  <2> QED
    BY <1>1, <1>2, <2>1, <2>2 DEF ToCount, ObservationTypeOK
<1>4. CASE ~Fires(t)
  <2>1. toCall' = [toCall EXCEPT ![b] = Tail(@)] /\ ringing' = ringing
    BY <1>4, Zenon DEF Count
  <2> QED
    BY <1>1, <1>2, <2>1 DEF ToCount, ObservationTypeOK
<1> QED
  BY <1>3, <1>4

LEMMA RingToCount ==
  ASSUME ObservationTypeOK, OnTheBus, NEW b \in Buses, NEW t \in Trackers, Ring(b, t)
  PROVE  \A c \in Buses : ToCount(c)' = ToCount(c)
<1>1. /\ toCall[b] \in Seq(Trackers) /\ toCall[b] # <<>> /\ Once(toCall[b])
      /\ t = Head(toCall[b]) /\ ringing[b] # 0
  BY DEF Ring, OnTheBus, ObservationTypeOK
<1>2. In(Tail(toCall[b])) = In(toCall[b]) \ {t}
  BY <1>1, TailFacts
<1> QED
  BY <1>1, <1>2 DEF Ring, ToCount, ObservationTypeOK

-----------------------------------------------------------------------------
LEMMA CountsOnceStep ==
  ASSUME ObservationTypeOK, OnTheBus, CountsOnce, [ObservationNext]_observationVars
  PROVE  CountsOnce'
<1> USE DEF ObservationTypeOK
<1>1. ASSUME NEW b \in Buses, NEW t \in Trackers, Subscribe(b, t) \/ Unsubscribe(b, t)
      PROVE  CountsOnce'
  BY <1>1 DEF Subscribe, Unsubscribe, CountsOnce, ToCount
<1>2. ASSUME NEW b \in Buses, Emit(b)
      PROVE  CountsOnce'
  <2>1. /\ emitted' = [emitted EXCEPT ![b] = @ + 1]
        /\ UNCHANGED <<ringing, counted, spent>>
        /\ toCall' = [toCall EXCEPT ![b] = subscribers[b]] /\ toCall[b] = <<>>
    BY <1>2 DEF Emit
  <2>2. \A c \in Buses : ringing'[c] # 0 => toCall'[c] # <<>>
    BY <2>1 DEF CountsOnce
  <2>3. ASSUME NEW u \in Trackers
        PROVE  \A m \in counted[u] : m[2] <= emitted'[m[1]]
    <3> SUFFICES ASSUME NEW m \in counted[u]
                 PROVE  m[2] <= emitted'[m[1]]
      OBVIOUS
    <3>1. m \in Messages /\ m[2] <= emitted[m[1]]
      BY DEF CountsOnce
    <3>2. m[1] \in Buses /\ m[2] \in Nat
      BY <3>1 DEF Messages
    <3> QED
      BY <2>1, <3>1, <3>2
  <2>4. ASSUME NEW u \in Trackers, NEW c \in Buses, u \in ToCount(c)'
        PROVE  <<c, emitted'[c]>> \notin counted[u]
    <3>1. CASE c = b
      <4>1. \A m \in counted[u] : m[2] <= emitted[m[1]]
        BY DEF CountsOnce
      <4>2. emitted'[b] = emitted[b] + 1 /\ emitted[b] \in Nat
        BY <2>1
      <4> QED
        BY <3>1, <4>1, <4>2
    <3>2. CASE c # b
      BY <1>2, <2>1, <2>4, <3>2, EmitToCount DEF CountsOnce
    <3> QED
      BY <3>1, <3>2
  <2> QED
    BY <2>1, <2>2, <2>3, <2>4 DEF CountsOnce
<1>3. ASSUME NEW b \in Buses, NEW t \in Trackers, Count(b, t)
      PROVE  CountsOnce'
  <2> DEFINE m == <<b, emitted[b]>>
  <2>1. /\ spent' = [spent EXCEPT ![t] = @ + 1] /\ emitted' = emitted
        /\ counted' = [counted EXCEPT ![t] = @ \cup {m}]
    BY <1>3, Zenon DEF Count
  <2>2. \A c \in Buses : ringing'[c] # 0 => toCall'[c] # <<>>
    <3> SUFFICES ASSUME NEW c \in Buses, c # b, ringing'[c] # 0
                 PROVE  toCall'[c] # <<>>
      BY <1>3, CountToCount
    <3>1. \/ toCall' = toCall /\ ringing' = [ringing EXCEPT ![b] = spent[t] + 1]
          \/ toCall' = [toCall EXCEPT ![b] = Tail(@)] /\ ringing' = ringing
      BY <1>3, Zenon DEF Count
    <3> QED
      BY <3>1 DEF CountsOnce
  <2>3. m \notin counted[t]
    BY <1>3, CountToCount DEF CountsOnce
  <2>4. ASSUME NEW u \in Trackers
        PROVE  IsFiniteSet(counted'[u]) /\ spent'[u] = Cardinality(counted'[u])
    <3>1. IsFiniteSet(counted[u]) /\ spent[u] = Cardinality(counted[u])
      BY DEF CountsOnce
    <3>2. CASE u = t
      <4>1. counted'[u] = counted[t] \cup {m} /\ spent'[u] = spent[t] + 1
        BY <2>1, <3>2
      <4>2. /\ IsFiniteSet(counted[t] \cup {m})
            /\ Cardinality(counted[t] \cup {m}) = Cardinality(counted[t]) + 1
        BY <2>3, <3>1, <3>2, FS_AddElement
      <4> QED
        BY <3>1, <3>2, <4>1, <4>2
    <3>3. CASE u # t
      BY <2>1, <3>1, <3>3
    <3> QED
      BY <3>2, <3>3
  <2>5. ASSUME NEW u \in Trackers
        PROVE  \A n \in counted'[u] : n[2] <= emitted'[n[1]]
    <3>1. \A n \in counted'[u] : n \in counted[u] \/ n = m
      BY <2>1
    <3>2. m[1] = b /\ m[2] = emitted[b] /\ emitted[b] \in Nat
      OBVIOUS
    <3>3. m[2] <= emitted[m[1]]
      BY <3>2
    <3> QED
      BY <2>1, <3>1, <3>3 DEF CountsOnce
  <2>6. ASSUME NEW u \in Trackers, NEW c \in Buses, u \in ToCount(c)'
        PROVE  <<c, emitted'[c]>> \notin counted'[u]
    <3>1. u \in ToCount(c) /\ (c = b => u # t)
      BY <1>3, <2>6, CountToCount
    <3>2. <<c, emitted[c]>> \notin counted[u]
      BY <3>1 DEF CountsOnce
    <3>3. u = t => <<c, emitted[c]>> # m
      BY <3>1
    <3> QED
      BY <2>1, <3>2, <3>3
  <2> HIDE DEF m
  <2> QED
    BY <2>2, <2>4, <2>5, <2>6 DEF CountsOnce
<1>4. ASSUME NEW b \in Buses, NEW t \in Trackers, Ring(b, t)
      PROVE  CountsOnce'
  <2>1. \A c \in Buses : ToCount(c)' = ToCount(c)
    BY <1>4, RingToCount
  <2>2. /\ UNCHANGED <<counted, spent, emitted>>
        /\ ringing' = [ringing EXCEPT ![b] = 0]
        /\ toCall' = [toCall EXCEPT ![b] = Tail(@)]
    BY <1>4 DEF Ring
  <2>3. \A c \in Buses : ringing'[c] # 0 => toCall'[c] # <<>>
    BY <2>2 DEF CountsOnce
  <2> QED
    BY <2>1, <2>2, <2>3 DEF CountsOnce
<1>5. CASE UNCHANGED observationVars
  BY <1>5 DEF observationVars, CountsOnce, ToCount
<1> QED
  BY <1>1, <1>2, <1>3, <1>4, <1>5 DEF ObservationNext

LEMMA CountsWhatItIsOwedStep ==
  ASSUME ObservationTypeOK, OnTheBus, CountsOnce, CountsWhatItIsOwed,
         [ObservationNext]_observationVars
  PROVE  CountsWhatItIsOwed'
<1> USE DEF ObservationTypeOK
<1>1. ASSUME NEW b \in Buses, NEW t \in Trackers, Subscribe(b, t)
      PROVE  CountsWhatItIsOwed'
  BY <1>1 DEF Subscribe, CountsWhatItIsOwed, LeftAlone, ToCount
<1>2. ASSUME NEW b \in Buses, NEW t \in Trackers, Unsubscribe(b, t)
      PROVE  CountsWhatItIsOwed'
  <2>1. \A u \in Trackers : LeftAlone(u)' => LeftAlone(u)
    BY <1>2 DEF Unsubscribe, LeftAlone
  <2> QED
    BY <1>2, <2>1 DEF Unsubscribe, CountsWhatItIsOwed, ToCount
<1>3. ASSUME NEW b \in Buses, Emit(b)
      PROVE  CountsWhatItIsOwed'
  <2> SUFFICES ASSUME NEW u \in Trackers, LeftAlone(u)', NEW m \in owed'[u]
               PROVE  \/ m \in counted'[u]
                      \/ \E c \in Buses : m = <<c, emitted'[c]>> /\ u \in ToCount(c)'
    BY DEF CountsWhatItIsOwed
  <2>1. LeftAlone(u)
    BY <1>3 DEF Emit, LeftAlone
  <2>2. CASE m \in owed[u]
    <3>1. CASE m \in counted[u]
      BY <1>3, <3>1 DEF Emit
    <3>2. ASSUME NEW c \in Buses, m = <<c, emitted[c]>>, u \in ToCount(c)
          PROVE  \E d \in Buses : m = <<d, emitted'[d]>> /\ u \in ToCount(d)'
      <4>1. c # b /\ u \in ToCount(c)'
        BY <1>3, <3>2, EmitToCount
      <4>2. emitted'[c] = emitted[c]
        BY <1>3, <4>1 DEF Emit
      <4> QED
        BY <3>2, <4>1, <4>2
    <3> QED
      BY <2>1, <2>2, <3>1, <3>2 DEF CountsWhatItIsOwed
  <2>3. CASE m \notin owed[u]
    <3>1. u \in joined[b] \ gone[b] /\ m = <<b, emitted'[b]>>
      BY <1>3, <2>3 DEF Emit
    <3>2. u \in In(subscribers[b])
      BY <2>1, <3>1 DEF LeftAlone, OnTheBus
    <3> QED
      BY <1>3, <3>1, <3>2, EmitToCount
  <2> QED
    BY <2>2, <2>3
<1>4. ASSUME NEW b \in Buses, NEW t \in Trackers, Count(b, t)
      PROVE  CountsWhatItIsOwed'
  <2>1. /\ emitted' = emitted /\ owed' = owed /\ gone' = gone
        /\ counted' = [counted EXCEPT ![t] = @ \cup {<<b, emitted[b]>>}]
    BY <1>4, Zenon DEF Count
  <2> SUFFICES ASSUME NEW u \in Trackers, LeftAlone(u), NEW m \in owed[u]
               PROVE  \/ m \in counted'[u]
                      \/ \E c \in Buses : m = <<c, emitted[c]>> /\ u \in ToCount(c)'
    BY <2>1 DEF CountsWhatItIsOwed, LeftAlone
  <2>2. CASE m \in counted[u]
    BY <2>1, <2>2
  <2>3. ASSUME NEW c \in Buses, m = <<c, emitted[c]>>, u \in ToCount(c)
        PROVE  \/ m \in counted'[u]
               \/ \E d \in Buses : m = <<d, emitted[d]>> /\ u \in ToCount(d)'
    <3>1. CASE c = b /\ u = t
      BY <2>1, <2>3, <3>1
    <3>2. CASE ~(c = b /\ u = t)
      BY <1>4, <2>3, <3>2, CountToCount
    <3> QED
      BY <3>1, <3>2
  <2> QED
    BY <2>2, <2>3 DEF CountsWhatItIsOwed
<1>5. ASSUME NEW b \in Buses, NEW t \in Trackers, Ring(b, t)
      PROVE  CountsWhatItIsOwed'
  <2>1. \A c \in Buses : ToCount(c)' = ToCount(c)
    BY <1>5, RingToCount
  <2>2. UNCHANGED <<counted, emitted, owed, gone>>
    BY <1>5 DEF Ring
  <2> SUFFICES ASSUME NEW u \in Trackers, LeftAlone(u)', NEW m \in owed'[u]
               PROVE  \/ m \in counted'[u]
                      \/ \E c \in Buses : m = <<c, emitted'[c]>> /\ u \in ToCount(c)'
    BY DEF CountsWhatItIsOwed
  <2>3. LeftAlone(u) /\ m \in owed[u]
    BY <2>2 DEF LeftAlone
  <2>4. CASE m \in counted[u]
    BY <2>2, <2>4
  <2>5. ASSUME NEW c \in Buses, m = <<c, emitted[c]>>, u \in ToCount(c)
        PROVE  m = <<c, emitted'[c]>> /\ u \in ToCount(c)'
    BY <2>1, <2>2, <2>5
  <2> QED
    BY <2>3, <2>4, <2>5 DEF CountsWhatItIsOwed
<1>6. CASE UNCHANGED observationVars
  BY <1>6 DEF observationVars, CountsWhatItIsOwed, LeftAlone, ToCount
<1> QED
  BY <1>1, <1>2, <1>3, <1>4, <1>5, <1>6 DEF ObservationNext

LEMMA OneAlarmStep ==
  ASSUME ObservationTypeOK, CountsOnce, OneAlarm, [ObservationNext]_observationVars
  PROVE  OneAlarm'
<1> USE ObservationAssumption DEF ObservationTypeOK
<1>1. ASSUME NEW b \in Buses, NEW t \in Trackers, Subscribe(b, t) \/ Unsubscribe(b, t)
      PROVE  OneAlarm'
  <2>1. UNCHANGED <<ringing, toCall, spent, fired, rang>>
    BY <1>1 DEF Subscribe, Unsubscribe
  <2> QED
    BY <2>1 DEF OneAlarm, Rings
<1>2. ASSUME NEW b \in Buses, Emit(b)
      PROVE  OneAlarm'
  <2>1. UNCHANGED <<ringing, spent, fired, rang>>
    BY <1>2 DEF Emit
  <2>2. \A c \in Buses, u \in Trackers : Rings(c, u)' <=> Rings(c, u)
    <3>1. /\ toCall[b] = <<>> /\ toCall' = [toCall EXCEPT ![b] = subscribers[b]]
          /\ ringing[b] = 0
      BY <1>2 DEF Emit, CountsOnce
    <3> QED
      BY <2>1, <3>1 DEF Rings
  <2> QED
    BY <2>1, <2>2 DEF OneAlarm
<1>3. ASSUME NEW b \in Buses, NEW t \in Trackers, Count(b, t)
      PROVE  OneAlarm'
  <2>1. /\ rang' = rang /\ spent' = [spent EXCEPT ![t] = @ + 1]
        /\ toCall[b] # <<>> /\ t = Head(toCall[b]) /\ ringing[b] = 0
    BY <1>3, Zenon DEF Count
  <2>2. CASE Fires(t)
    <3>1. /\ fired' = [fired EXCEPT ![t] = TRUE] /\ toCall' = toCall
          /\ ringing' = [ringing EXCEPT ![b] = spent[t] + 1]
      BY <1>3, <2>2, Zenon DEF Count
    <3>2. ~fired[t] /\ Threshold > 0 /\ spent[t] + 1 >= Threshold /\ spent[t] \in Nat
      BY <2>2 DEF Fires
    <3>3. rang[t] = <<>> /\ \A c \in Buses : ~Rings(c, t)
      BY <3>2 DEF OneAlarm
    <3>4. /\ Rings(b, t)' /\ \A u \in Trackers \ {t} : ~Rings(b, u)' /\ ~Rings(b, u)
          /\ \A c \in Buses \ {b}, u \in Trackers : Rings(c, u)' <=> Rings(c, u)
      BY <2>1, <3>1, <3>2 DEF Rings
    <3>5. \A c \in Buses : ringing'[c] # 0 => ringing'[c] >= Threshold
      BY <3>1, <3>2 DEF OneAlarm
    <3>6. ASSUME NEW u \in Trackers
          PROVE  /\ fired'[u] <=> Threshold > 0 /\ spent'[u] >= Threshold
                 /\ fired'[u] <=> rang[u] # <<>> \/ \E c \in Buses : Rings(c, u)'
                 /\ \A c \in Buses : Rings(c, u)' =>
                      rang[u] = <<>> /\ \A d \in Buses : Rings(d, u)' => d = c
      <4>1. CASE u = t
        BY <2>1, <3>1, <3>2, <3>3, <3>4, <4>1
      <4>2. CASE u # t
        <5>1. fired'[u] = fired[u] /\ spent'[u] = spent[u]
          BY <2>1, <3>1, <4>2
        <5>2. \A c \in Buses : Rings(c, u)' <=> Rings(c, u)
          BY <3>4, <4>2
        <5> QED
          BY <5>1, <5>2 DEF OneAlarm
      <4> QED
        BY <4>1, <4>2
    <3> QED
      BY <2>1, <3>5, <3>6 DEF OneAlarm
  <2>3. CASE ~Fires(t)
    <3>1. /\ fired' = fired /\ ringing' = ringing
          /\ toCall' = [toCall EXCEPT ![b] = Tail(@)]
      BY <1>3, <2>3, Zenon DEF Count
    <3>2. \A c \in Buses, u \in Trackers : Rings(c, u)' <=> Rings(c, u)
      BY <2>1, <3>1 DEF Rings
    <3>3. ASSUME NEW u \in Trackers
          PROVE  fired[u] <=> Threshold > 0 /\ spent'[u] >= Threshold
      <4>1. fired[u] <=> Threshold > 0 /\ spent[u] >= Threshold
        BY DEF OneAlarm
      <4>2. spent[u] \in Nat /\ spent'[u] = IF u = t THEN spent[u] + 1 ELSE spent[u]
        BY <2>1
      <4>3. u = t => fired[u] \/ ~(Threshold > 0 /\ spent[u] + 1 >= Threshold)
        BY <2>3 DEF Fires
      <4> QED
        BY <4>1, <4>2, <4>3
    <3> QED
      BY <2>1, <3>1, <3>2, <3>3 DEF OneAlarm
  <2> QED
    BY <2>2, <2>3
<1>4. ASSUME NEW b \in Buses, NEW t \in Trackers, Ring(b, t)
      PROVE  OneAlarm'
  <2>1. /\ rang' = [rang EXCEPT ![t] = Append(@, ringing[b])]
        /\ ringing' = [ringing EXCEPT ![b] = 0]
        /\ toCall' = [toCall EXCEPT ![b] = Tail(@)]
        /\ UNCHANGED <<spent, fired>> /\ Rings(b, t)
    BY <1>4 DEF Ring, Rings
  <2>2. /\ rang[t] = <<>> /\ fired[t] /\ \A c \in Buses : Rings(c, t) => c = b
        /\ ringing[b] >= Threshold
    BY <2>1 DEF OneAlarm, Rings
  <2>3. /\ \A u \in Trackers : ~Rings(b, u)' /\ (u # t => ~Rings(b, u))
        /\ \A c \in Buses \ {b}, u \in Trackers : Rings(c, u)' <=> Rings(c, u)
    BY <2>1 DEF Rings
  <2>4. /\ rang'[t] # <<>> /\ Len(rang'[t]) = 1
        /\ \A i \in 1 .. Len(rang'[t]) : rang'[t][i] >= Threshold
    <3>1. rang'[t] = <<ringing[b]>>
      BY <2>1, <2>2
    <3> QED
      BY <2>2, <3>1
  <2>5. \A c \in Buses : ringing'[c] # 0 => ringing'[c] >= Threshold
    BY <2>1 DEF OneAlarm
  <2>6. ASSUME NEW u \in Trackers
        PROVE  /\ fired[u] <=> rang'[u] # <<>> \/ \E c \in Buses : Rings(c, u)'
               /\ \A c \in Buses : Rings(c, u)' =>
                    rang'[u] = <<>> /\ \A d \in Buses : Rings(d, u)' => d = c
               /\ Len(rang'[u]) <= 1
               /\ \A i \in 1 .. Len(rang'[u]) : rang'[u][i] >= Threshold
    <3>1. CASE u = t
      <4>1. \A c \in Buses : ~Rings(c, u)'
        BY <2>2, <2>3, <3>1
      <4>2. fired[u] /\ rang'[u] # <<>> /\ Len(rang'[u]) = 1
        BY <2>2, <2>4, <3>1
      <4>3. \A i \in 1 .. Len(rang'[u]) : rang'[u][i] >= Threshold
        BY <2>4, <3>1
      <4> QED
        BY <4>1, <4>2, <4>3
    <3>2. CASE u # t
      <4>1. rang'[u] = rang[u]
        BY <2>1, <3>2
      <4>2. \A c \in Buses : Rings(c, u)' <=> Rings(c, u)
        BY <2>3, <3>2
      <4> QED
        BY <4>1, <4>2 DEF OneAlarm
    <3> QED
      BY <3>1, <3>2
  <2> QED
    BY <2>1, <2>5, <2>6 DEF OneAlarm
<1>5. CASE UNCHANGED observationVars
  BY <1>5 DEF observationVars, OneAlarm, Rings
<1> QED
  BY <1>1, <1>2, <1>3, <1>4, <1>5 DEF ObservationNext

-----------------------------------------------------------------------------
LEMMA ObservationInvariant == ObservationSpec => []ObservationInv
<1>1. ObservationInit => ObservationInv
  <2> SUFFICES ASSUME ObservationInit
               PROVE  ObservationInv
    OBVIOUS
  <2>1. OnTheBus
    BY EmptyFacts DEF ObservationInit, OnTheBus
  <2>2. CountsOnce
    BY EmptyFacts, FS_EmptySet DEF ObservationInit, CountsOnce, ToCount
  <2>3. CountsWhatItIsOwed
    BY DEF ObservationInit, CountsWhatItIsOwed
  <2>4. OneAlarm
    BY ObservationAssumption DEF ObservationInit, OneAlarm, Rings
  <2> QED
    BY <2>1, <2>2, <2>3, <2>4 DEF ObservationInv
<1>2. ObservationTypeOK /\ ObservationInv /\ [ObservationNext]_observationVars => ObservationInv'
  BY OnTheBusStep, CountsOnceStep, CountsWhatItIsOwedStep, OneAlarmStep DEF ObservationInv
<1> QED
  BY <1>1, <1>2, BusTypes, PTL DEF ObservationSpec

(* The property the runs check: when all is quiet, a tracker left alone has *)
(* counted what it is owed, and the alarm follows what it has counted.     *)
THEOREM AlarmsAreTrue == ObservationSpec => []AlarmRingsOnce
<1>1. ObservationTypeOK /\ ObservationInv => AlarmRingsOnce
  <2> SUFFICES ASSUME ObservationTypeOK, ObservationInv, NEW t \in Trackers
               PROVE  /\ Len(rang[t]) <= 1
                      /\ \A i \in DOMAIN rang[t] : rang[t][i] >= Threshold
                      /\ Threshold > 0 /\ Quiet /\ LeftAlone(t)
                           /\ Cardinality(owed[t]) >= Threshold => rang[t] # <<>>
    BY DEF AlarmRingsOnce
  <2>1. Len(rang[t]) <= 1 /\ \A i \in DOMAIN rang[t] : rang[t][i] >= Threshold
    BY DEF ObservationInv, OneAlarm, ObservationTypeOK
  <2>2. ASSUME Threshold > 0, Quiet, LeftAlone(t), Cardinality(owed[t]) >= Threshold
        PROVE  rang[t] # <<>>
    <3>1. \A b \in Buses : toCall[b] = <<>> /\ ringing[b] = 0
      BY <2>2 DEF Quiet, ObservationInv, CountsOnce
    <3>2. \A b \in Buses : ToCount(b) = {}
      BY <3>1, EmptyFacts DEF ToCount
    <3>3. owed[t] \subseteq counted[t]
      BY <2>2, <3>2 DEF ObservationInv, CountsWhatItIsOwed
    <3>4. IsFiniteSet(counted[t]) /\ spent[t] = Cardinality(counted[t])
      BY DEF ObservationInv, CountsOnce
    <3>5. IsFiniteSet(owed[t]) /\ Cardinality(owed[t]) <= Cardinality(counted[t])
      BY <3>3, <3>4, FS_Subset
    <3>6. Cardinality(owed[t]) \in Nat /\ Cardinality(counted[t]) \in Nat
      BY <3>4, <3>5, FS_CardinalityType
    <3>7. spent[t] >= Threshold
      BY <2>2, <3>4, <3>5, <3>6, ObservationAssumption
    <3>8. fired[t]
      BY <2>2, <3>7 DEF ObservationInv, OneAlarm
    <3>9. \A b \in Buses : ~Rings(b, t)
      BY <3>1 DEF Rings
    <3> QED
      BY <3>8, <3>9 DEF ObservationInv, OneAlarm
  <2> QED
    BY <2>1, <2>2
<1> QED
  BY <1>1, BusTypes, ObservationInvariant, PTL

-----------------------------------------------------------------------------
(* ShellRegistry: no shell is lost, and results are the end of what was     *)
(* printed.                                                                *)
Ids == ShellIds \cup Nat
ShellRecords == [id : Ids, closed : BOOLEAN, busy : BOOLEAN,
                 data : Seq(Nat), total : Nat, truncated : BOOLEAN]
OnShell == {"run", "kill", "running", "flag", "answered"}
CallRecords == [pc : OnShell \cup {"free", "start", "closing"}, id : Ids, of : Nat, start : Nat]
Snapshots == [start : Nat, end : Nat, output : Seq(Nat), truncated : BOOLEAN]

(* The bytes of a buffer are the last ones that were printed, as many as    *)
(* fit, and the flag tells whether there were more.                        *)
HoldsEnd(s) ==
  /\ Len(s.data) <= s.total /\ Len(s.data) <= MaxOutput
  /\ \A i \in 1 .. Len(s.data) : s.data[i] = s.total - Len(s.data) + i
  /\ s.truncated => Len(s.data) = MaxOutput
  /\ ~s.truncated => Len(s.data) = s.total

(* What the variables hold. *)
RegistryTypes ==
  /\ registryMu \in Handlers \cup {Nobody}
  /\ shells \in Seq(ShellRecords)
  /\ \A n \in DOMAIN shells : HoldsEnd(shells[n])
  /\ handling \in [Handlers -> CallRecords]
  /\ \A h \in Handlers : handling[h].pc \in OnShell => handling[h].of \in DOMAIN shells
  /\ \A i \in DOMAIN registered : registered[i] \in DOMAIN shells

LEMMA LeavesTypes ==
  ASSUME NEW h \in Handlers, RegistryTypes, Leaves(h)
  PROVE  /\ handling' \in [Handlers -> CallRecords]
         /\ handling'[h] = Free /\ \A g \in Handlers \ {h} : handling'[g] = handling[g]
  BY DEF Leaves, Free, RegistryTypes, CallRecords, Ids, NoShellId

LEMMA ThenTypes ==
  ASSUME NEW h \in Handlers, NEW pc \in OnShell \cup {"free", "start", "closing"}, RegistryTypes, Then(h, pc)
  PROVE  /\ handling' \in [Handlers -> CallRecords]
         /\ handling'[h] = [handling[h] EXCEPT !.pc = pc]
         /\ \A g \in Handlers \ {h} : handling'[g] = handling[g]
  BY DEF Then, RegistryTypes, CallRecords

LEMMA FindsTypes ==
  ASSUME NEW h \in Handlers, NEW op \in {"run", "kill"}, NEW n \in Nat, RegistryTypes, Finds(h, op, n)
  PROVE  /\ handling' \in [Handlers -> CallRecords]
         /\ handling'[h] = [Free EXCEPT !.pc = op, !.of = n]
         /\ \A g \in Handlers \ {h} : handling'[g] = handling[g]
  BY DEF Finds, Free, RegistryTypes, CallRecords, Ids, NoShellId, OnShell

-----------------------------------------------------------------------------
LEMMA ShellIsTail ==
  ASSUME NEW id \in Ids
  PROVE  Shell(id) \in ShellRecords /\ HoldsEnd(Shell(id)) /\ Shell(id).id = id /\ Shell(id).total = 0
  BY ShellRegistryAssumption DEF Shell, ShellRecords, HoldsEnd

(* The end of a sequence. *)
LEMMA EndOfSeq ==
  ASSUME NEW S, NEW seq \in Seq(S), NEW m \in 1 .. Len(seq) + 1
  PROVE  /\ SubSeq(seq, m, Len(seq)) \in Seq(S)
         /\ Len(SubSeq(seq, m, Len(seq))) = Len(seq) - m + 1
         /\ \A i \in 1 .. Len(seq) - m + 1 : SubSeq(seq, m, Len(seq))[i] = seq[m + i - 1]
<1>1. m \in Int /\ Len(seq) \in Int /\ \A i \in m .. Len(seq) : seq[i] \in S
  OBVIOUS
<1>2. Len(SubSeq(seq, m, Len(seq))) = Len(seq) - m + 1
  BY <1>1, SubSeqProperties
<1> QED
  BY <1>1, <1>2, SubSeqProperties

LEMMA JoinedSeq ==
  ASSUME NEW a \in Seq(Nat), NEW b \in Seq(Nat)
  PROVE  /\ a \o b \in Seq(Nat) /\ Len(a \o b) = Len(a) + Len(b)
         /\ \A i \in 1 .. Len(a) : (a \o b)[i] = a[i]
         /\ \A i \in Len(a) + 1 .. Len(a) + Len(b) : (a \o b)[i] = b[i - Len(a)]
<1>1. a \o b \in Seq(Nat) /\ Len(a \o b) = Len(a) + Len(b)
  OBVIOUS
<1>2. \A i \in 1 .. Len(a) : (a \o b)[i] = a[i]
  OBVIOUS
<1>3. \A i \in Len(a) + 1 .. Len(a) + Len(b) : (a \o b)[i] = b[i - Len(a)]
  OBVIOUS
<1> QED
  BY <1>1, <1>2, <1>3

LEMMA LastOfEnds ==
  ASSUME NEW data \in Seq(Nat), NEW max \in Nat
  PROVE  /\ LastOf(data, max) \in Seq(Nat)
         /\ Len(LastOf(data, max)) = (IF Len(data) > max THEN max ELSE Len(data))
         /\ \A i \in 1 .. Len(LastOf(data, max)) :
              LastOf(data, max)[i] = data[Len(data) - Len(LastOf(data, max)) + i]
<1>1. CASE Len(data) > max
  <2>1. Len(data) - max + 1 \in 1 .. Len(data) + 1
    BY <1>1
  <2>2. LastOf(data, max) = SubSeq(data, Len(data) - max + 1, Len(data))
    BY <1>1 DEF LastOf
  <2>3. /\ LastOf(data, max) \in Seq(Nat) /\ Len(LastOf(data, max)) = max
        /\ \A i \in 1 .. max : LastOf(data, max)[i] = data[Len(data) - max + 1 + i - 1]
    <3>1. Len(data) - (Len(data) - max + 1) + 1 = max
      OBVIOUS
    <3> QED
      BY <2>1, <2>2, <3>1, EndOfSeq
  <2> QED
    BY <1>1, <2>3
<1>2. CASE ~(Len(data) > max)
  BY <1>2 DEF LastOf
<1> QED
  BY <1>1, <1>2

(* Writing appends and keeps the end.                                      *)
LEMMA WrittenIsTail ==
  ASSUME NEW s \in ShellRecords, HoldsEnd(s), NEW k \in Nat \ {0}
  PROVE  /\ Written(s, k) \in ShellRecords /\ HoldsEnd(Written(s, k))
         /\ Written(s, k).total = s.total + k
         /\ s.truncated => Written(s, k).truncated
         /\ Written(s, k).id = s.id /\ Written(s, k).closed = s.closed
<1> DEFINE more == [i \in 1 .. k |-> s.total + i]
           whole == s.data \o more
<1>1. s.data \in Seq(Nat) /\ s.total \in Nat /\ s.truncated \in BOOLEAN /\ MaxOutput \in Nat \ {0}
  BY ShellRegistryAssumption DEF ShellRecords
<1>2. more \in Seq(Nat) /\ Len(more) = k /\ \A i \in 1 .. k : more[i] = s.total + i
  BY <1>1
<1> HIDE DEF more
<1>3. /\ whole \in Seq(Nat) /\ Len(whole) = Len(s.data) + k
      /\ \A i \in 1 .. Len(s.data) : whole[i] = s.data[i]
      /\ \A i \in Len(s.data) + 1 .. Len(s.data) + k : whole[i] = more[i - Len(s.data)]
  BY <1>1, <1>2, JoinedSeq
<1> HIDE DEF whole
<1>4. PICK n \in Nat, old \in Nat, data \in Seq(Nat), added \in Seq(Nat) :
        n = Len(whole) /\ old = Len(s.data) /\ data = whole /\ added = more
  BY <1>1, <1>2, <1>3
<1>5. n = old + k
  BY <1>3, <1>4
<1>6. \A i \in 1 .. n : data[i] = (s.total + k) - n + i
  <2>1. ASSUME NEW i \in 1 .. n
        PROVE  data[i] = (s.total + k) - n + i
    <3>1. CASE i <= old
      <4>1. i \in 1 .. old /\ data[i] = s.data[i]
        BY <1>3, <1>4, <3>1
      <4>2. s.data[i] = s.total - old + i
        BY <1>4, <4>1 DEF HoldsEnd
      <4> QED
        BY <1>1, <1>5, <4>1, <4>2
    <3>2. CASE i > old
      <4>1. i - old \in 1 .. k /\ i \in old + 1 .. old + k
        BY <1>5, <3>2
      <4>2. data[i] = added[i - old]
        BY <1>3, <1>4, <4>1
      <4>3. added[i - old] = s.total + (i - old)
        BY <1>2, <1>4, <4>1
      <4> QED
        BY <1>1, <1>5, <4>2, <4>3
    <3> QED
      BY <3>1, <3>2
  <2> QED
    BY <2>1
<1> DEFINE last == LastOf(data, MaxOutput)
           m == Len(last)
           flag == s.truncated \/ n > MaxOutput
<1>7. /\ last \in Seq(Nat) /\ m \in Nat
      /\ m = (IF n > MaxOutput THEN MaxOutput ELSE n)
      /\ \A i \in 1 .. m : last[i] = data[n - m + i]
  <2>1. last \in Seq(Nat) /\ Len(data) = n
    BY <1>1, <1>4, LastOfEnds
  <2>2. Len(last) = (IF Len(data) > MaxOutput THEN MaxOutput ELSE Len(data))
    BY <1>1, LastOfEnds
  <2>3. \A i \in 1 .. Len(last) : last[i] = data[Len(data) - Len(last) + i]
    BY <1>1, LastOfEnds
  <2> HIDE DEF last
  <2>4. m \in Nat
    BY <2>1
  <2> QED
    BY <2>1, <2>2, <2>3, <2>4
<1>8. Written(s, k) = [s EXCEPT !.total = s.total + k, !.data = last,
                                !.truncated = flag]
  BY <1>4 DEF Written, whole, more
<1> HIDE DEF last
<1>9. /\ Written(s, k) \in ShellRecords /\ Written(s, k).total = s.total + k
      /\ Written(s, k).data = last /\ (Written(s, k).truncated <=> s.truncated \/ n > MaxOutput)
      /\ Written(s, k).id = s.id /\ Written(s, k).closed = s.closed
  <2>1. flag \in BOOLEAN /\ s.total + k \in Nat /\ (flag <=> s.truncated \/ n > MaxOutput)
    BY <1>1
  <2> HIDE DEF flag
  <2>2. /\ Written(s, k) \in ShellRecords /\ Written(s, k).total = s.total + k
        /\ Written(s, k).data = last /\ Written(s, k).truncated = flag
        /\ Written(s, k).id = s.id /\ Written(s, k).closed = s.closed
    <3>1. s.total + k \in Nat /\ last \in Seq(Nat) /\ flag \in BOOLEAN
      BY <1>7, <2>1
    <3> DEFINE total == s.total + k
    <3>2. total \in Nat /\ Written(s, k) = [s EXCEPT !.total = total, !.data = last, !.truncated = flag]
      BY <1>8, <3>1
    <3> HIDE DEF total
    <3>3. /\ Written(s, k) \in ShellRecords /\ Written(s, k).total = total
          /\ Written(s, k).data = last /\ Written(s, k).truncated = flag
          /\ Written(s, k).id = s.id /\ Written(s, k).closed = s.closed
      BY <3>1, <3>2 DEF ShellRecords
    <3> QED
      BY <3>3 DEF total
  <2> QED
    BY <2>1, <2>2
<1>10. HoldsEnd(Written(s, k))
  <2>1. old <= s.total /\ (s.truncated => old = MaxOutput) /\ (~s.truncated => old = s.total)
    BY <1>4 DEF HoldsEnd
  <2>2. /\ m <= s.total + k /\ m <= MaxOutput
        /\ (s.truncated \/ n > MaxOutput) => m = MaxOutput
        /\ ~(s.truncated \/ n > MaxOutput) => m = s.total + k
    <3>1. PICK t \in Nat, c \in BOOLEAN : t = s.total /\ c = s.truncated
      BY <1>1
    <3> HIDE DEF m
    <3>2. /\ n \in Nat /\ old \in Nat /\ k \in Nat /\ MaxOutput \in Nat /\ m \in Nat
          /\ n = old + k /\ m = (IF n > MaxOutput THEN MaxOutput ELSE n)
      BY <1>1, <1>5, <1>7
    <3>3. old <= t /\ (c => old = MaxOutput) /\ (~c => old = t)
      BY <2>1, <3>1
    <3>4. m <= t + k /\ m <= MaxOutput
      BY <3>2, <3>3
    <3>5. (c \/ n > MaxOutput) => m = MaxOutput
      BY <3>2, <3>3
    <3>6. ~(c \/ n > MaxOutput) => m = t + k
      BY <3>2, <3>3
    <3> QED
      BY <3>1, <3>4, <3>5, <3>6
  <2>3. \A i \in 1 .. m : last[i] = (s.total + k) - m + i
    <3>1. ASSUME NEW i \in 1 .. m
          PROVE  last[i] = (s.total + k) - m + i
      <4>1. n - m + i \in 1 .. n
        BY <1>1, <1>7
      <4>2. last[i] = data[n - m + i]
        BY <1>7
      <4>3. data[n - m + i] = (s.total + k) - n + (n - m + i)
        BY <1>6, <4>1
      <4> QED
        BY <1>1, <4>2, <4>3
    <3> QED
      BY <3>1
  <2>4. (Written(s, k).truncated => m = MaxOutput) /\ (~Written(s, k).truncated => m = s.total + k)
    BY <1>9, <2>2
  <2> QED
    <3>1. Written(s, k).data = last /\ Written(s, k).total = s.total + k /\ m = Len(last)
      BY <1>9
    <3> HIDE DEF m
    <3> QED
      <4>1. Len(Written(s, k).data) = m
        BY <3>1
      <4>2. \A i \in 1 .. m : Written(s, k).data[i] = Written(s, k).total - m + i
        BY <2>3, <3>1
      <4>3. m <= Written(s, k).total /\ m <= MaxOutput
        BY <2>2, <3>1
      <4>4. /\ Written(s, k).truncated => m = MaxOutput
            /\ ~Written(s, k).truncated => m = Written(s, k).total
        BY <2>4, <3>1
      <4> HIDE DEF last
      <4> QED
        BY <4>1, <4>2, <4>3, <4>4, Zenon DEF HoldsEnd
<1> QED
  BY <1>9, <1>10

(* Reading from an offset gives the bytes from there to the end, or all     *)
(* there are.                                                              *)
LEMMA StringFromIsTail ==
  ASSUME NEW s \in ShellRecords, HoldsEnd(s), NEW offset \in Nat, offset <= s.total
  PROVE  LET output == StringFrom(s, offset)
             missing == s.total - offset - Len(output)
         IN  /\ output \in Seq(Nat) /\ missing \in Nat
             /\ \A i \in 1 .. Len(output) : output[i] = offset + missing + i
             /\ missing > 0 => Len(output) = MaxOutput /\ s.truncated
<1>1. PICK data \in Seq(Nat), total \in Nat, length \in Nat :
        data = s.data /\ total = s.total /\ length = Len(data)
  BY DEF ShellRecords
<1>2. length <= total /\ offset <= total /\ \A i \in 1 .. length : data[i] = total - length + i
  BY <1>1 DEF HoldsEnd
<1>3. PICK from \in Nat : from = (IF offset < total - length THEN total - length ELSE offset)
  <2>1. total - length \in Nat
    BY <1>2
  <2>2. (IF offset < total - length THEN total - length ELSE offset) \in Nat
    BY <2>1
  <2> QED
    BY <2>2, Zenon
<1>4. PICK first \in Nat : first = from - (total - length) + 1
  BY <1>2, <1>3
<1>5. /\ StringFrom(s, offset) \in Seq(Nat) /\ Len(StringFrom(s, offset)) = total - from
      /\ \A i \in 1 .. Len(StringFrom(s, offset)) : StringFrom(s, offset)[i] = from + i
  <2>1. /\ first \in 1 .. Len(data) + 1 /\ Len(data) - first + 1 = total - from
        /\ \A i \in 1 .. total - from : first + i - 1 \in 1 .. length
    <3>1. length <= total /\ offset <= total /\ length = Len(data)
      BY <1>1, <1>2
    <3>2. total - length <= from /\ from <= total
      BY <1>3, <3>1
    <3>3. first - 1 \in 0 .. length /\ length - first + 1 = total - from
      BY <1>4, <3>1, <3>2
    <3>4. \A i \in 1 .. total - from : first + i - 1 \in 1 .. length
      BY <3>3
    <3> QED
      BY <3>1, <3>3, <3>4
  <2>2. StringFrom(s, offset) = SubSeq(data, first, Len(data))
    BY <1>1, <1>3, <1>4 DEF StringFrom
  <2>3. /\ SubSeq(data, first, Len(data)) \in Seq(Nat)
        /\ Len(SubSeq(data, first, Len(data))) = Len(data) - first + 1
        /\ \A i \in 1 .. Len(data) - first + 1 : SubSeq(data, first, Len(data))[i] = data[first + i - 1]
    BY <2>1, EndOfSeq, Zenon
  <2>4. ASSUME NEW i \in 1 .. total - from
        PROVE  StringFrom(s, offset)[i] = from + i
    <3>1. StringFrom(s, offset)[i] = data[first + i - 1] /\ first + i - 1 \in 1 .. length
      BY <2>1, <2>2, <2>3
    <3>2. data[first + i - 1] = total - length + (first + i - 1)
      BY <1>2, <3>1
    <3> QED
      BY <1>2, <1>4, <3>1, <3>2
  <2> QED
    BY <2>1, <2>2, <2>3, <2>4
<1>6. s.truncated \in BOOLEAN /\ (length # total => s.truncated /\ length = MaxOutput)
  BY <1>1 DEF ShellRecords, HoldsEnd
<1>7. from >= offset /\ from <= total /\ (from > offset => length # total /\ from = total - length)
  BY <1>2, <1>3
<1>8. s.total - offset - Len(StringFrom(s, offset)) = from - offset
  BY <1>1, <1>2, <1>5, <1>7
<1>9. from > offset => Len(StringFrom(s, offset)) = MaxOutput /\ s.truncated
  <2>1. from > offset => total - from = length
    BY <1>2, <1>7
  <2> QED
    BY <1>5, <1>6, <1>7, <2>1
<1>10. from - offset \in Nat /\ offset + (from - offset) = from /\ (from - offset > 0 <=> from > offset)
  BY <1>7
<1> QED
  BY <1>5, <1>8, <1>9, <1>10

-----------------------------------------------------------------------------
(* How a step changes the shells: one is added, or they stay the shells      *)
(* they are, with more printed, or closed.                                  *)
Keeps(s, t) ==
  /\ t.id = s.id /\ (s.closed => t.closed) /\ s.total <= t.total /\ (s.truncated => t.truncated)
  /\ HoldsEnd(t)

ShellsKept ==
  /\ shells' \in Seq(ShellRecords) /\ DOMAIN shells' = DOMAIN shells
  /\ \A n \in DOMAIN shells : Keeps(shells[n], shells'[n])

ShellAdded(h) ==
  LET n == Len(shells) + 1
      id == IF handling[h].id = NoShellId THEN n ELSE handling[h].id
  IN  /\ shells' = Append(shells, Shell(id))
      /\ registered' = [i \in DOMAIN registered \cup {id} |-> IF i = id THEN n ELSE registered[i]]
      /\ Finds(h, "run", n)

LEMMA FlagsOnly ==
  ASSUME NEW s \in ShellRecords, HoldsEnd(s)
  PROVE  /\ [s EXCEPT !.busy = TRUE] \in ShellRecords /\ Keeps(s, [s EXCEPT !.busy = TRUE])
         /\ [s EXCEPT !.busy = FALSE] \in ShellRecords /\ Keeps(s, [s EXCEPT !.busy = FALSE])
         /\ [s EXCEPT !.closed = TRUE] \in ShellRecords /\ Keeps(s, [s EXCEPT !.closed = TRUE])
         /\ [s EXCEPT !.closed = TRUE, !.busy = FALSE] \in ShellRecords
         /\ Keeps(s, [s EXCEPT !.closed = TRUE, !.busy = FALSE])
<1>1. \A t \in ShellRecords : /\ [t EXCEPT !.busy = TRUE] \in ShellRecords
                              /\ [t EXCEPT !.busy = FALSE] \in ShellRecords
                              /\ [t EXCEPT !.closed = TRUE] \in ShellRecords
  BY DEF ShellRecords
<1>2. Keeps(s, [s EXCEPT !.busy = TRUE])
  BY DEF ShellRecords, Keeps, HoldsEnd
<1>3. Keeps(s, [s EXCEPT !.busy = FALSE])
  BY DEF ShellRecords, Keeps, HoldsEnd
<1>4. Keeps(s, [s EXCEPT !.closed = TRUE])
  BY DEF ShellRecords, Keeps, HoldsEnd
<1>5. [s EXCEPT !.closed = TRUE, !.busy = FALSE] \in ShellRecords
  BY DEF ShellRecords
<1>6. Keeps(s, [s EXCEPT !.closed = TRUE, !.busy = FALSE])
  BY DEF ShellRecords, Keeps, HoldsEnd
<1> QED
  BY <1>1, <1>2, <1>3, <1>4, <1>5, <1>6

LEMMA OneShellKept ==
  ASSUME RegistryTypes, NEW n \in DOMAIN shells, NEW t \in ShellRecords, Keeps(shells[n], t),
         shells' = [shells EXCEPT ![n] = t]
  PROVE  ShellsKept
<1>1. \A m \in DOMAIN shells : shells[m] \in ShellRecords /\ HoldsEnd(shells[m])
  BY DEF RegistryTypes
<1>2. \A s \in ShellRecords : HoldsEnd(s) => Keeps(s, s)
  BY DEF Keeps, ShellRecords
<1> QED
  BY <1>1, <1>2 DEF ShellsKept, RegistryTypes

LEMMA NoShellChanged ==
  ASSUME RegistryTypes, UNCHANGED shells
  PROVE  ShellsKept
<1>1. \A m \in DOMAIN shells : shells[m] \in ShellRecords /\ HoldsEnd(shells[m])
  BY DEF RegistryTypes
<1>2. \A s \in ShellRecords : HoldsEnd(s) => Keeps(s, s)
  BY DEF Keeps, ShellRecords
<1> QED
  BY <1>1, <1>2 DEF ShellsKept, RegistryTypes

LEMMA ShellSteps ==
  ASSUME RegistryTypes, [RegistryNext]_registryVars
  PROVE  ShellsKept \/ \E h \in Handlers : StartShell(h) /\ ShellAdded(h)
<1>1. ASSUME NEW n \in DOMAIN shells,
             \/ shells' = [shells EXCEPT ![n].busy = TRUE]
             \/ shells' = [shells EXCEPT ![n].busy = FALSE]
             \/ shells' = [shells EXCEPT ![n].closed = TRUE]
             \/ shells' = [shells EXCEPT ![n].closed = TRUE, ![n].busy = FALSE]
      PROVE  ShellsKept
  <2>1. shells[n] \in ShellRecords /\ HoldsEnd(shells[n])
    BY DEF RegistryTypes
  <2>2. \/ shells' = [shells EXCEPT ![n] = [shells[n] EXCEPT !.busy = TRUE]]
        \/ shells' = [shells EXCEPT ![n] = [shells[n] EXCEPT !.busy = FALSE]]
        \/ shells' = [shells EXCEPT ![n] = [shells[n] EXCEPT !.closed = TRUE]]
        \/ shells' = [shells EXCEPT ![n] = [shells[n] EXCEPT !.closed = TRUE, !.busy = FALSE]]
    BY <1>1, <2>1 DEF RegistryTypes
  <2> QED
    BY <2>1, <2>2, FlagsOnly, OneShellKept
<1>2. CASE UNCHANGED registryVars
  BY <1>2, NoShellChanged DEF registryVars
<1>3. ASSUME NEW h \in Handlers, \/ Handle(h) \/ EnvRefused(h) \/ RunSnapshots(h) \/ RunAnswers(h)
                                \/ Returns(h) \/ ClosesRegistry(h) \/ RegistryClosed(h)
      PROVE  ShellsKept
  BY <1>3, NoShellChanged
     DEF Handle, EnvRefused, RunSnapshots, RunAnswers, Returns, ClosesRegistry, RegistryClosed
<1>4. ASSUME NEW h \in Handlers, StartShell(h)
      PROVE  ShellsKept \/ ShellAdded(h)
  BY <1>4, NoShellChanged DEF StartShell, ShellAdded
<1>5. ASSUME NEW h \in Handlers, RunsCommand(h)
      PROVE  ShellsKept
  <2>1. handling[h].of \in DOMAIN shells
    BY <1>5 DEF RunsCommand, Doing, RegistryTypes, OnShell
  <2> QED
    BY <1>1, <1>5, <2>1, NoShellChanged DEF RunsCommand
<1>6. ASSUME NEW h \in Handlers, KillsShell(h)
      PROVE  ShellsKept
  <2>1. handling[h].of \in DOMAIN shells
    BY <1>6 DEF KillsShell, Doing, RegistryTypes, OnShell
  <2>2. shells[handling[h].of] \in ShellRecords /\ HoldsEnd(shells[handling[h].of])
    BY <2>1 DEF RegistryTypes
  <2> DEFINE s == shells[handling[h].of]
             t == IF s.busy THEN [s EXCEPT !.closed = TRUE, !.busy = FALSE] ELSE s
  <2>3. shells' = [shells EXCEPT ![handling[h].of] = t]
    BY <1>6, <2>1, <2>2 DEF KillsShell, RegistryTypes
  <2>4. Keeps(s, s)
    BY <2>2 DEF Keeps, ShellRecords
  <2>5. t \in ShellRecords /\ Keeps(s, t)
    BY <2>2, <2>4, FlagsOnly
  <2> HIDE DEF t
  <2> QED
    BY <2>1, <2>3, <2>5, OneShellKept
<1>7. ASSUME NEW h \in Handlers, ClosesSession(h)
      PROVE  ShellsKept
  <2>1. StillOpen \subseteq DOMAIN shells
    BY DEF StillOpen, RegistryTypes, Range
  <2> QED
    BY <1>1, <1>7, <2>1 DEF ClosesSession
<1>8. CASE ShellWrites
  <2>1. PICK n \in DOMAIN shells, k \in Nat \ {0} : shells' = [shells EXCEPT ![n] = Written(shells[n], k)]
    <3>1. PICK n \in DOMAIN shells, k \in 1 .. MaxPrinted : shells' = [shells EXCEPT ![n] = Written(@, k)]
      BY <1>8 DEF ShellWrites
    <3>2. k \in Nat \ {0}
      BY ShellRegistryAssumption
    <3> QED
      BY <3>1, <3>2
  <2>2. shells[n] \in ShellRecords /\ HoldsEnd(shells[n])
    BY DEF RegistryTypes
  <2> QED
    <3>1. Written(shells[n], k) \in ShellRecords /\ Keeps(shells[n], Written(shells[n], k))
      <4>1. shells[n].total \in Nat /\ shells[n].total <= shells[n].total + k
        BY <2>2 DEF ShellRecords
      <4> QED
        BY <2>2, <4>1, WrittenIsTail DEF Keeps
    <3> QED
      BY <2>1, <3>1, OneShellKept
<1>9. CASE CommandDone
  BY <1>1, <1>9 DEF CommandDone
<1>10. CASE ShellEnds
  BY <1>1, <1>10 DEF ShellEnds
<1> QED
  BY <1>2, <1>3, <1>4, <1>5, <1>6, <1>7, <1>8, <1>9, <1>10 DEF RegistryNext

LEMMA AddedTypes ==
  ASSUME RegistryTypes, NEW h \in Handlers, StartShell(h), ShellAdded(h)
  PROVE  LET n == Len(shells) + 1
             id == IF handling[h].id = NoShellId THEN n ELSE handling[h].id
         IN  /\ n \in Nat /\ id \in Ids
             /\ shells' \in Seq(ShellRecords) /\ DOMAIN shells' = DOMAIN shells \cup {n}
             /\ DOMAIN shells = 1 .. n - 1 /\ shells'[n] = Shell(id)
             /\ \A m \in DOMAIN shells : shells'[m] = shells[m] /\ m # n
             /\ DOMAIN registered' = DOMAIN registered \cup {id} /\ registered'[id] = n
             /\ \A i \in DOMAIN registered : i # id => registered'[i] = registered[i]
             /\ handling' \in [Handlers -> CallRecords]
             /\ handling'[h] = [Free EXCEPT !.pc = "run", !.of = n]
             /\ \A g \in Handlers \ {h} : handling'[g] = handling[g]
             /\ registryMu' = Nobody
<1> DEFINE n == Len(shells) + 1
           id == IF handling[h].id = NoShellId THEN n ELSE handling[h].id
<1>1. shells \in Seq(ShellRecords) /\ handling[h] \in CallRecords
  BY DEF RegistryTypes
<1>2. n \in Nat /\ n = Len(shells) + 1 /\ DOMAIN shells = 1 .. n - 1
  BY <1>1
<1>3. id \in Ids
  BY <1>1, <1>2 DEF Ids, CallRecords
<1>4. /\ shells' = Append(shells, Shell(id))
      /\ registered' = [i \in DOMAIN registered \cup {id} |-> IF i = id THEN n ELSE registered[i]]
      /\ Finds(h, "run", n)
  BY DEF ShellAdded
<1> HIDE DEF n, id
<1>5. Shell(id) \in ShellRecords
  BY <1>3, ShellIsTail
<1>6. /\ shells' \in Seq(ShellRecords) /\ Len(shells') = n /\ shells'[n] = Shell(id)
      /\ \A m \in 1 .. n - 1 : shells'[m] = shells[m]
  BY <1>1, <1>2, <1>4, <1>5
<1>7. DOMAIN shells' = DOMAIN shells \cup {n} /\ \A m \in DOMAIN shells : m # n
  BY <1>2, <1>6
<1>8. /\ DOMAIN registered' = DOMAIN registered \cup {id} /\ registered'[id] = n
      /\ \A i \in DOMAIN registered : i # id => registered'[i] = registered[i]
  BY <1>4
<1>9. /\ handling' \in [Handlers -> CallRecords] /\ handling'[h] = [Free EXCEPT !.pc = "run", !.of = n]
      /\ \A g \in Handlers \ {h} : handling'[g] = handling[g]
  BY <1>2, <1>4, FindsTypes
<1>10. registryMu' = Nobody
  BY DEF StartShell
<1> QED
  BY <1>2, <1>3, <1>6, <1>7, <1>8, <1>9, <1>10 DEF n, id

LEMMA AddedKeepsTypes ==
  ASSUME RegistryTypes, NEW h \in Handlers, StartShell(h), ShellAdded(h)
  PROVE  RegistryTypes'
<1> DEFINE n == Len(shells) + 1
           id == IF handling[h].id = NoShellId THEN n ELSE handling[h].id
<1>1. /\ n \in Nat /\ id \in Ids
      /\ shells' \in Seq(ShellRecords) /\ DOMAIN shells' = DOMAIN shells \cup {n}
      /\ shells'[n] = Shell(id) /\ \A m \in DOMAIN shells : shells'[m] = shells[m]
      /\ DOMAIN registered' = DOMAIN registered \cup {id} /\ registered'[id] = n
      /\ \A i \in DOMAIN registered : i # id => registered'[i] = registered[i]
      /\ handling' \in [Handlers -> CallRecords]
      /\ handling'[h] = [Free EXCEPT !.pc = "run", !.of = n]
      /\ \A g \in Handlers \ {h} : handling'[g] = handling[g]
      /\ registryMu' = Nobody
  BY AddedTypes
<1> HIDE DEF n, id
<1>2. \A m \in DOMAIN shells' : HoldsEnd(shells'[m])
  BY <1>1, ShellIsTail DEF RegistryTypes
<1>3. \A g \in Handlers : handling'[g].pc \in OnShell => handling'[g].of \in DOMAIN shells'
  BY <1>1 DEF RegistryTypes, Free
<1>4. \A i \in DOMAIN registered' : registered'[i] \in DOMAIN shells'
  BY <1>1 DEF RegistryTypes
<1> QED
  BY <1>1, <1>2, <1>3, <1>4 DEF RegistryTypes, HoldsEnd

LEMMA TypesKept ==
  ASSUME RegistryTypes, [RegistryNext]_registryVars
  PROVE  RegistryTypes'
<1>1. CASE \E h \in Handlers : StartShell(h) /\ ShellAdded(h)
  BY <1>1, AddedKeepsTypes
<1>2. CASE ShellsKept
  <2>1. ASSUME handling' \in [Handlers -> CallRecords],
               \A h \in Handlers : handling'[h].pc \in OnShell => handling'[h].of \in DOMAIN shells,
               registryMu' \in Handlers \cup {Nobody}, UNCHANGED registered \/ registered' = <<>>
        PROVE  RegistryTypes'
    <3>1. /\ shells' \in Seq(ShellRecords) /\ DOMAIN shells' = DOMAIN shells
          /\ \A n \in DOMAIN shells' : HoldsEnd(shells'[n])
      BY <1>2 DEF ShellsKept, Keeps
    <3>2. \A i \in DOMAIN registered' : registered'[i] \in DOMAIN shells'
      BY <2>1, <3>1 DEF RegistryTypes
    <3>3. \A h \in Handlers : handling'[h].pc \in OnShell => handling'[h].of \in DOMAIN shells'
      BY <2>1, <3>1
    <3> QED
      BY <2>1, <3>1, <3>2, <3>3 DEF RegistryTypes, HoldsEnd
  <2>2. ASSUME UNCHANGED <<handling, registryMu, registered>>
        PROVE  RegistryTypes'
    BY <2>1, <2>2 DEF RegistryTypes
  <2>3. ASSUME NEW h \in Handlers, Leaves(h), registryMu' \in {registryMu, Nobody},
               UNCHANGED registered \/ registered' = <<>>
        PROVE  RegistryTypes'
    <3>1. /\ handling' \in [Handlers -> CallRecords]
          /\ \A g \in Handlers : handling'[g].pc \in OnShell => handling'[g].of \in DOMAIN shells
      BY <2>3, LeavesTypes DEF RegistryTypes, Free, OnShell
    <3> QED
      BY <2>1, <2>3, <3>1 DEF RegistryTypes
  <2>4. ASSUME NEW h \in Handlers, NEW pc \in OnShell \cup {"closing"}, Then(h, pc),
               pc = "closing" \/ handling[h].pc \in OnShell, registryMu' \in {registryMu, h},
               UNCHANGED registered
        PROVE  RegistryTypes'
    <3>1. /\ handling' \in [Handlers -> CallRecords]
          /\ handling'[h].pc = pc /\ handling'[h].of = handling[h].of
          /\ \A g \in Handlers \ {h} : handling'[g] = handling[g]
      <4>1. /\ handling' \in [Handlers -> CallRecords]
            /\ handling'[h] = [handling[h] EXCEPT !.pc = pc]
            /\ \A g \in Handlers \ {h} : handling'[g] = handling[g]
        BY <2>4, ThenTypes
      <4>2. handling[h] \in CallRecords
        BY DEF RegistryTypes
      <4> QED
        BY <4>1, <4>2 DEF CallRecords
    <3>2. \A g \in Handlers : handling'[g].pc \in OnShell => handling'[g].of \in DOMAIN shells
      BY <2>4, <3>1 DEF RegistryTypes, OnShell
    <3> QED
      BY <2>1, <2>4, <3>1, <3>2 DEF RegistryTypes
  <2>5. ASSUME NEW h \in Handlers, Handle(h)
        PROVE  RegistryTypes'
    <3>1. PICK op \in {"run", "kill"}, id \in ShellIds \cup {NoShellId} \cup DOMAIN shells :
            \/ /\ id \in DOMAIN registered
               /\ Finds(h, op, registered[id]) /\ UNCHANGED registryMu
            \/ /\ handling' = [handling EXCEPT ![h] = [Free EXCEPT !.pc = "start", !.id = id]]
               /\ KeepsLock(h)
      BY <2>5 DEF Handle
    <3>2. UNCHANGED registered /\ DOMAIN shells \subseteq Nat
      BY <2>5 DEF Handle, RegistryTypes
    <3>3. CASE id \in DOMAIN registered /\ Finds(h, op, registered[id]) /\ UNCHANGED registryMu
      <4>1. registered[id] \in DOMAIN shells /\ registered[id] \in Nat
        BY <3>2, <3>3 DEF RegistryTypes
      <4>2. /\ handling' \in [Handlers -> CallRecords]
            /\ handling'[h].of = registered[id]
            /\ \A g \in Handlers \ {h} : handling'[g] = handling[g]
        <5>1. /\ handling' \in [Handlers -> CallRecords]
              /\ handling'[h] = [Free EXCEPT !.pc = op, !.of = registered[id]]
              /\ \A g \in Handlers \ {h} : handling'[g] = handling[g]
          BY <3>3, <4>1, FindsTypes
        <5> QED
          BY <5>1 DEF Free
      <4>3. \A g \in Handlers : handling'[g].pc \in OnShell => handling'[g].of \in DOMAIN shells
        BY <4>1, <4>2 DEF RegistryTypes
      <4> QED
        BY <2>1, <3>2, <3>3, <4>2, <4>3 DEF RegistryTypes
    <3>4. CASE /\ handling' = [handling EXCEPT ![h] = [Free EXCEPT !.pc = "start", !.id = id]]
               /\ KeepsLock(h)
      <4>1. [Free EXCEPT !.pc = "start", !.id = id] \in CallRecords
        <5>1. id \in Ids
          BY <3>2 DEF Ids, NoShellId
        <5> QED
          BY <5>1 DEF Free, CallRecords
      <4>2. /\ handling' \in [Handlers -> CallRecords]
            /\ handling'[h].pc = "start"
            /\ \A g \in Handlers \ {h} : handling'[g] = handling[g]
        BY <3>4, <4>1 DEF RegistryTypes, Free
      <4>3. \A g \in Handlers : handling'[g].pc \in OnShell => handling'[g].of \in DOMAIN shells
        BY <4>2 DEF RegistryTypes, OnShell
      <4> QED
        BY <2>1, <3>2, <3>4, <4>2, <4>3 DEF KeepsLock
    <3> QED
      BY <3>1, <3>3, <3>4
  <2>6. ASSUME NEW h \in Handlers, StartShell(h), ~ShellAdded(h)
        PROVE  RegistryTypes'
    BY <2>3, <2>6 DEF StartShell, ShellAdded
  <2>7. ASSUME NEW h \in Handlers, EnvRefused(h) \/ Returns(h) \/ KillsShell(h) \/ RegistryClosed(h)
        PROVE  RegistryTypes'
    BY <2>3, <2>7 DEF EnvRefused, Returns, KillsShell, RegistryClosed
  <2>8. ASSUME NEW h \in Handlers, RunsCommand(h)
        PROVE  RegistryTypes'
    <3>1. CASE Leaves(h)
      BY <2>3, <2>8, <3>1 DEF RunsCommand
    <3>2. CASE handling' = [handling EXCEPT ![h].pc = "running", ![h].start = shells[handling[h].of].total]
      <4>1. handling[h].of \in DOMAIN shells /\ shells[handling[h].of].total \in Nat
        <5>1. handling[h].of \in DOMAIN shells
          BY <2>8 DEF RunsCommand, Doing, RegistryTypes, OnShell
        <5>2. shells[handling[h].of] \in ShellRecords
          BY <5>1 DEF RegistryTypes
        <5> QED
          BY <5>1, <5>2 DEF ShellRecords
      <4>2. /\ handling' \in [Handlers -> CallRecords]
            /\ handling'[h].of = handling[h].of
            /\ \A g \in Handlers \ {h} : handling'[g] = handling[g]
        BY <3>2, <4>1 DEF RegistryTypes, CallRecords, OnShell
      <4>3. \A g \in Handlers : handling'[g].pc \in OnShell => handling'[g].of \in DOMAIN shells
        BY <4>1, <4>2 DEF RegistryTypes
      <4> QED
        BY <2>1, <2>8, <4>2, <4>3 DEF RegistryTypes, RunsCommand
    <3> QED
      BY <2>8, <3>1, <3>2 DEF RunsCommand
  <2>9. ASSUME NEW h \in Handlers, RunSnapshots(h) \/ RunAnswers(h) \/ ClosesRegistry(h)
        PROVE  RegistryTypes'
    BY <2>4, <2>9 DEF RunSnapshots, RunAnswers, ClosesRegistry, Doing, OnShell
  <2> QED
    BY <2>2, <2>5, <2>6, <2>7, <2>8, <2>9, <1>1
       DEF RegistryNext, registryVars, ClosesSession, ShellWrites, CommandDone, ShellEnds
<1> QED
  BY <1>1, <1>2, ShellSteps

-----------------------------------------------------------------------------
(* Whoever starts a shell holds the mutex, and its id is new all the while.  *)
NoShellIsLost ==
  /\ \A h \in Handlers : handling[h].pc \in {"start", "closing"} => registryMu = h
  /\ \A h \in Handlers : handling[h].pc = "start" => handling[h].id \notin DOMAIN registered
  /\ \A h \in Handlers : handling[h].id \in ShellIds \cup {NoShellId} \cup DOMAIN shells
  /\ DOMAIN registered \subseteq ShellIds \cup DOMAIN shells
  /\ ShellsAreReachable

LEMMA AddedIsFound ==
  ASSUME RegistryTypes, NoShellIsLost, NEW h \in Handlers, StartShell(h), ShellAdded(h)
  PROVE  NoShellIsLost'
<1> DEFINE n == Len(shells) + 1
           id == IF handling[h].id = NoShellId THEN n ELSE handling[h].id
<1>1. /\ n \in Nat /\ DOMAIN shells = 1 .. n - 1 /\ DOMAIN shells' = DOMAIN shells \cup {n}
      /\ shells'[n] = Shell(id) /\ \A m \in DOMAIN shells : shells'[m] = shells[m] /\ m # n
      /\ DOMAIN registered' = DOMAIN registered \cup {id} /\ registered'[id] = n
      /\ \A i \in DOMAIN registered : i # id => registered'[i] = registered[i]
      /\ handling'[h] = [Free EXCEPT !.pc = "run", !.of = n]
      /\ \A g \in Handlers \ {h} : handling'[g] = handling[g]
      /\ id \in Ids
  BY AddedTypes
<1>2. handling[h].pc = "start" /\ registryMu = h
  BY DEF StartShell, Doing, NoShellIsLost
<1>3. n \notin ShellIds \cup DOMAIN shells
  BY <1>1, ShellRegistryAssumption
<1>4. id \notin DOMAIN registered /\ id \in ShellIds \cup DOMAIN shells \cup {n}
  BY <1>2, <1>3 DEF NoShellIsLost
<1> HIDE DEF n, id
<1>5. Shell(id).id = id
  BY <1>1, ShellIsTail
<1>6. \A g \in Handlers : handling'[g].pc \notin {"start", "closing"}
  BY <1>1, <1>2 DEF NoShellIsLost, Free
<1>7. \A g \in Handlers : handling'[g].id \in ShellIds \cup {NoShellId} \cup DOMAIN shells'
  BY <1>1 DEF NoShellIsLost, Free
<1>8. DOMAIN registered' \subseteq ShellIds \cup DOMAIN shells'
  BY <1>1, <1>4 DEF NoShellIsLost
<1>9. ShellsAreReachable'
  <2>1. ASSUME NEW m \in DOMAIN shells', ~shells'[m].closed
        PROVE  shells'[m].id \in DOMAIN registered' /\ registered'[shells'[m].id] = m
    <3>1. CASE m = n
      BY <1>1, <1>5, <3>1
    <3>2. CASE m \in DOMAIN shells
      <4>1. shells[m].id \in DOMAIN registered /\ registered[shells[m].id] = m
        BY <1>1, <2>1, <3>2 DEF NoShellIsLost, ShellsAreReachable
      <4> QED
        BY <1>1, <1>4, <3>2, <4>1
    <3> QED
      BY <1>1, <3>1, <3>2
  <2> QED
    BY <2>1 DEF ShellsAreReachable
<1> QED
  BY <1>6, <1>7, <1>8, <1>9 DEF NoShellIsLost

LEMMA StillFound ==
  ASSUME RegistryTypes, NoShellIsLost, ShellsKept, UNCHANGED registered
  PROVE  ShellsAreReachable' /\ DOMAIN registered' \subseteq ShellIds \cup DOMAIN shells'
BY DEF NoShellIsLost, ShellsKept, Keeps, ShellsAreReachable

LEMMA NoShellIsLostKept ==
  ASSUME RegistryTypes, NoShellIsLost, [RegistryNext]_registryVars
  PROVE  NoShellIsLost'
<1>1. CASE \E h \in Handlers : StartShell(h) /\ ShellAdded(h)
  BY <1>1, AddedIsFound
<1>2. CASE ShellsKept
  <2>1. DOMAIN shells' = DOMAIN shells
    BY <1>2 DEF ShellsKept
  <2>2. ASSUME UNCHANGED <<handling, registryMu, registered>>
        PROVE  NoShellIsLost'
    BY <1>2, <2>1, <2>2, StillFound DEF NoShellIsLost
  <2>3. ASSUME NEW h \in Handlers, UNCHANGED <<registryMu, registered>>,
               handling'[h].pc \notin {"start", "closing"},
               handling'[h].id \in ShellIds \cup {NoShellId} \cup DOMAIN shells,
               \A g \in Handlers \ {h} : handling'[g] = handling[g]
        PROVE  NoShellIsLost'
    BY <1>2, <2>1, <2>3, StillFound DEF NoShellIsLost
  <2>4. ASSUME NEW h \in Handlers, UNCHANGED registered, registryMu = Nobody, registryMu' = h,
               handling'[h].pc = "start" => handling'[h].id \notin DOMAIN registered,
               handling'[h].id \in ShellIds \cup {NoShellId} \cup DOMAIN shells,
               \A g \in Handlers \ {h} : handling'[g] = handling[g]
        PROVE  NoShellIsLost'
    <3>1. \A g \in Handlers : handling[g].pc \notin {"start", "closing"}
      BY <2>4, ShellRegistryAssumption DEF NoShellIsLost
    <3> QED
      BY <1>2, <2>1, <2>4, <3>1, StillFound DEF NoShellIsLost
  <2>5. ASSUME NEW h \in Handlers, Handle(h)
        PROVE  NoShellIsLost'
    <3>1. PICK op \in {"run", "kill"}, id \in ShellIds \cup {NoShellId} \cup DOMAIN shells :
            \/ /\ Finds(h, op, registered[id]) /\ UNCHANGED registryMu
            \/ /\ id \notin DOMAIN registered
               /\ handling' = [handling EXCEPT ![h] = [Free EXCEPT !.pc = "start", !.id = id]]
               /\ KeepsLock(h)
      BY <2>5 DEF Handle
    <3>2. UNCHANGED registered /\ registryMu = Nobody
      BY <2>5 DEF Handle
    <3>3. CASE Finds(h, op, registered[id]) /\ UNCHANGED registryMu
      <4>1. /\ handling'[h].pc = op /\ handling'[h].id = NoShellId
            /\ \A g \in Handlers \ {h} : handling'[g] = handling[g]
        BY <3>3 DEF Finds, Free, RegistryTypes
      <4> QED
        BY <2>3, <3>2, <3>3, <4>1
    <3>4. CASE /\ id \notin DOMAIN registered
               /\ handling' = [handling EXCEPT ![h] = [Free EXCEPT !.pc = "start", !.id = id]]
               /\ KeepsLock(h)
      <4>1. /\ handling'[h].pc = "start" /\ handling'[h].id = id
            /\ \A g \in Handlers \ {h} : handling'[g] = handling[g]
        BY <3>4 DEF Free, RegistryTypes
      <4> QED
        BY <2>4, <3>2, <3>4, <4>1 DEF KeepsLock
    <3> QED
      BY <3>1, <3>3, <3>4
  <2>6. ASSUME NEW h \in Handlers, Leaves(h)
        PROVE  /\ handling'[h].pc = "free" /\ handling'[h].id = NoShellId
               /\ \A g \in Handlers \ {h} : handling'[g] = handling[g]
    BY <2>6, LeavesTypes DEF Free
  <2>7. ASSUME NEW h \in Handlers, StartShell(h), ~ShellAdded(h)
        PROVE  NoShellIsLost'
    <3>1. handling[h].pc = "start" /\ Leaves(h) /\ UNCHANGED registered /\ registryMu' = Nobody
      BY <2>7 DEF StartShell, ShellAdded, Doing
    <3>2. \A g \in Handlers \ {h} : handling[g].pc \notin {"start", "closing"}
      BY <3>1 DEF NoShellIsLost
    <3> QED
      BY <1>2, <2>1, <2>6, <3>1, <3>2, StillFound DEF NoShellIsLost
  <2>8. ASSUME NEW h \in Handlers, EnvRefused(h) \/ Returns(h) \/ KillsShell(h)
        PROVE  NoShellIsLost'
    <3>1. Leaves(h) /\ UNCHANGED <<registryMu, registered>>
      BY <2>8 DEF EnvRefused, Returns, KillsShell
    <3> QED
      BY <2>3, <2>6, <3>1
  <2>9. ASSUME NEW h \in Handlers, RunsCommand(h) \/ RunSnapshots(h) \/ RunAnswers(h)
        PROVE  NoShellIsLost'
    <3>1. handling[h] \in CallRecords /\ handling[h].id \in ShellIds \cup {NoShellId} \cup DOMAIN shells
      BY DEF RegistryTypes, NoShellIsLost
    <3>2. UNCHANGED <<registryMu, registered>>
      BY <2>9 DEF RunsCommand, RunSnapshots, RunAnswers
    <3>3. CASE Leaves(h)
      BY <2>3, <2>6, <3>2, <3>3
    <3>4. CASE ~Leaves(h)
      <4>1. /\ handling'[h].pc \in {"running", "flag", "answered"} /\ handling'[h].id = handling[h].id
            /\ \A g \in Handlers \ {h} : handling'[g] = handling[g]
        BY <2>9, <3>1, <3>4 DEF RunsCommand, RunSnapshots, RunAnswers, Then, RegistryTypes, CallRecords
      <4> QED
        BY <2>3, <3>1, <3>2, <4>1
    <3> QED
      BY <3>3, <3>4
  <2>10. ASSUME NEW h \in Handlers, ClosesRegistry(h)
         PROVE  NoShellIsLost'
    <3>1. handling[h] \in CallRecords /\ handling[h].id \in ShellIds \cup {NoShellId} \cup DOMAIN shells
      BY DEF RegistryTypes, NoShellIsLost
    <3>2. /\ handling'[h].pc = "closing" /\ handling'[h].id = handling[h].id
          /\ \A g \in Handlers \ {h} : handling'[g] = handling[g]
      BY <2>10, <3>1 DEF ClosesRegistry, Then, RegistryTypes, CallRecords
    <3> QED
      BY <2>4, <2>10, <3>1, <3>2 DEF ClosesRegistry
  <2>11. ASSUME NEW h \in Handlers, RegistryClosed(h)
         PROVE  NoShellIsLost'
    <3>1. /\ handling[h].pc = "closing" /\ Leaves(h) /\ registered' = <<>> /\ registryMu' = Nobody
          /\ UNCHANGED shells /\ StillOpen = {}
      BY <2>11 DEF RegistryClosed, Doing
    <3>2. \A g \in Handlers \ {h} : handling[g].pc \notin {"start", "closing"}
      BY <3>1 DEF NoShellIsLost
    <3>3. \A n \in DOMAIN shells : shells[n].closed
      <4>1. ASSUME NEW n \in DOMAIN shells, ~shells[n].closed
            PROVE  n \in StillOpen
        BY <4>1 DEF NoShellIsLost, ShellsAreReachable, StillOpen, Range
      <4> QED
        BY <3>1, <4>1
    <3>4. ShellsAreReachable'
      BY <3>1, <3>3 DEF ShellsAreReachable
    <3> QED
      BY <2>1, <2>6, <3>1, <3>2, <3>4 DEF NoShellIsLost
  <2> QED
    BY <1>1, <2>2, <2>5, <2>7, <2>8, <2>9, <2>10, <2>11
       DEF RegistryNext, registryVars, ClosesSession, ShellWrites, CommandDone, ShellEnds
<1> QED
  BY <1>1, <1>2, ShellSteps
-----------------------------------------------------------------------------
(* From the first state on.                                                *)
LEMMA RegistryStarts ==
  ASSUME RegistryInit
  PROVE  RegistryTypes /\ NoShellIsLost
<1>1. shells = <<>> /\ registered = <<>> /\ registryMu = Nobody
  BY DEF RegistryInit
<1>2. Free \in CallRecords /\ Free.pc = "free" /\ Free.id = NoShellId
  BY DEF Free, CallRecords, Ids, NoShellId
<1>3. handling \in [Handlers -> CallRecords] /\ \A h \in Handlers : handling[h] = Free
  BY <1>2 DEF RegistryInit
<1> QED
  BY <1>1, <1>2, <1>3 DEF RegistryTypes, NoShellIsLost, ShellsAreReachable, OnShell

(* The registry and its shells keep their types; every buffer holds the     *)
(* end of what was printed and knows whether that is all                    *)
(* (ringBuffer.WriteString).                                               *)
THEOREM RegistryTypeCorrect == RegistrySpec => []RegistryTypes
<1>1. RegistryInit => RegistryTypes
  BY RegistryStarts
<1>2. RegistryTypes /\ [RegistryNext]_registryVars => RegistryTypes'
  BY TypesKept
<1> QED
  BY <1>1, <1>2, PTL DEF RegistrySpec

(* No shell is lost: one that is not closed is found under its id.  That    *)
(* session keeps r.mu from the look-up to the entry of the shell it starts, *)
(* and Close until it has ended every entry, is what it rests on.           *)
THEOREM NoShellIsEverLost == RegistrySpec => []ShellsAreReachable
<1>1. RegistryInit => RegistryTypes /\ NoShellIsLost
  BY RegistryStarts
<1>2. RegistryTypes /\ NoShellIsLost /\ [RegistryNext]_registryVars => (RegistryTypes /\ NoShellIsLost)'
  BY TypesKept, NoShellIsLostKept
<1>3. NoShellIsLost => ShellsAreReachable
  BY DEF NoShellIsLost
<1> QED
  BY <1>1, <1>2, <1>3, PTL DEF RegistrySpec

-----------------------------------------------------------------------------
(* What a result still has to be told: that bytes are missing is known to   *)
(* the buffer before the flag is read, and to the result afterwards.        *)
Missing(r) == r.end - r.start - Len(r.output)

IsTail(r) ==
  /\ Missing(r) \in Nat
  /\ \A i \in 1 .. Len(r.output) : r.output[i] = r.start + Missing(r) + i
  /\ Missing(r) > 0 => Len(r.output) = MaxOutput

ResultIsTail(h) ==
  /\ IsTail(snapshot[h])
  /\ handling[h].pc \notin {"flag", "answered"} => snapshot[h] = NoSnapshot
  /\ handling[h].pc = "running" => handling[h].start <= shells[handling[h].of].total
  /\ handling[h].pc = "flag" /\ Missing(snapshot[h]) > 0 => shells[handling[h].of].truncated
  /\ handling[h].pc = "answered" /\ Missing(snapshot[h]) > 0 => snapshot[h].truncated

ResultsAreTails == snapshot \in [Handlers -> Snapshots] /\ \A h \in Handlers : ResultIsTail(h)

LEMMA NothingIsMissing == NoSnapshot \in Snapshots /\ IsTail(NoSnapshot)
  BY DEF NoSnapshot, Snapshots, IsTail, Missing

LEMMA ShellsGrow ==
  ASSUME RegistryTypes, [RegistryNext]_registryVars, NEW n \in DOMAIN shells
  PROVE  /\ shells[n].total \in Nat /\ shells'[n].total \in Nat
         /\ shells[n].total <= shells'[n].total /\ (shells[n].truncated => shells'[n].truncated)
<1>1. shells[n] \in ShellRecords
  BY DEF RegistryTypes
<1>2. CASE ShellsKept
  <2>1. shells'[n] \in ShellRecords /\ Keeps(shells[n], shells'[n])
    BY <1>2 DEF ShellsKept
  <2> QED
    BY <1>1, <2>1 DEF Keeps, ShellRecords
<1>3. CASE \E h \in Handlers : StartShell(h) /\ ShellAdded(h)
  <2>1. shells'[n] = shells[n]
    BY <1>3, AddedTypes
  <2> QED
    BY <1>1, <2>1 DEF ShellRecords
<1> QED
  BY <1>2, <1>3, ShellSteps

(* A caller that stands still, and one without a result.                    *)
LEMMA StandsStill ==
  ASSUME RegistryTypes, ResultsAreTails, [RegistryNext]_registryVars, NEW h \in Handlers,
         handling'[h] = handling[h], snapshot'[h] = snapshot[h]
  PROVE  ResultIsTail(h)'
<1>1. ResultIsTail(h) /\ handling[h] \in CallRecords
  BY DEF ResultsAreTails, RegistryTypes
<1>2. CASE handling[h].pc \in OnShell
  <2>1. handling[h].of \in DOMAIN shells
    BY <1>2 DEF RegistryTypes
  <2>2. /\ shells[handling[h].of].total <= shells'[handling[h].of].total
        /\ shells[handling[h].of].total \in Nat /\ shells'[handling[h].of].total \in Nat
        /\ shells[handling[h].of].truncated => shells'[handling[h].of].truncated
    BY <2>1, ShellsGrow
  <2>3. handling[h].start \in Nat
    BY <1>1 DEF CallRecords
  <2> QED
    BY <1>1, <2>2, <2>3 DEF ResultIsTail, IsTail, Missing
<1>3. CASE handling[h].pc \notin OnShell
  BY <1>1, <1>3 DEF ResultIsTail, IsTail, Missing, OnShell
<1> QED
  BY <1>2, <1>3

LEMMA HasNoResult ==
  ASSUME NEW h \in Handlers, snapshot'[h] = NoSnapshot,
         handling'[h].pc \notin {"running", "flag", "answered"}
  PROVE  ResultIsTail(h)'
<1>1. IsTail(snapshot'[h])
  BY NothingIsMissing
<1> QED
  BY <1>1 DEF ResultIsTail, IsTail, Missing

(* run's reading of the buffer, and then of its flag.                       *)
LEMMA SnapshotIsTail ==
  ASSUME RegistryTypes, ResultsAreTails, NEW h \in Handlers, RunSnapshots(h)
  PROVE  snapshot' \in [Handlers -> Snapshots] /\ ResultIsTail(h)'
<1>1. PICK n \in DOMAIN shells, start \in Nat : n = handling[h].of /\ start = handling[h].start
  BY DEF RunSnapshots, Doing, RegistryTypes, CallRecords, OnShell
<1>2. PICK s \in ShellRecords : s = shells[n] /\ HoldsEnd(s) /\ start <= s.total
  <2>1. shells[n] \in ShellRecords /\ HoldsEnd(shells[n])
    BY DEF RegistryTypes
  <2>2. start <= shells[n].total
    BY <1>1 DEF ResultsAreTails, ResultIsTail, RunSnapshots, Doing
  <2> QED
    BY <2>1, <2>2
<1>3. PICK output \in Seq(Nat) :
        /\ output = StringFrom(s, start) /\ s.total - start - Len(output) \in Nat
        /\ \A i \in 1 .. Len(output) : output[i] = start + (s.total - start - Len(output)) + i
        /\ s.total - start - Len(output) > 0 => Len(output) = MaxOutput /\ s.truncated
  BY <1>2, StringFromIsTail
<1> DEFINE r == [start |-> start, end |-> s.total, output |-> output, truncated |-> FALSE]
<1>4. r \in Snapshots /\ IsTail(r) /\ (Missing(r) > 0 => s.truncated)
  BY <1>3 DEF Snapshots, IsTail, Missing, ShellRecords
<1>5. snapshot' = [snapshot EXCEPT ![h] = r] /\ UNCHANGED shells /\ Then(h, "flag")
  BY <1>1, <1>2, <1>3 DEF RunSnapshots
<1> HIDE DEF r
<1>6. snapshot' \in [Handlers -> Snapshots] /\ snapshot'[h] = r
  BY <1>4, <1>5 DEF ResultsAreTails
<1>7. handling'[h].pc = "flag" /\ handling'[h].of = n
  <2>1. handling'[h] = [handling[h] EXCEPT !.pc = "flag"] /\ handling[h] \in CallRecords
    BY <1>5, ThenTypes DEF OnShell, RegistryTypes
  <2> QED
    BY <1>1, <2>1 DEF CallRecords
<1> QED
  BY <1>2, <1>4, <1>5, <1>6, <1>7 DEF ResultIsTail, IsTail, Missing

LEMMA AnswerIsTail ==
  ASSUME RegistryTypes, ResultsAreTails, NEW h \in Handlers, RunAnswers(h)
  PROVE  snapshot' \in [Handlers -> Snapshots] /\ ResultIsTail(h)'
<1>1. PICK r \in Snapshots, flag \in BOOLEAN :
        /\ r = snapshot[h] /\ flag = shells[handling[h].of].truncated
        /\ IsTail(r) /\ (Missing(r) > 0 => flag)
  <2>1. handling[h].of \in DOMAIN shells
    BY DEF RunAnswers, Doing, RegistryTypes, OnShell
  <2>2. shells[handling[h].of].truncated \in BOOLEAN
    <3>1. shells[handling[h].of] \in ShellRecords
      BY <2>1 DEF RegistryTypes
    <3> QED
      BY <3>1 DEF ShellRecords
  <2> QED
    BY <2>2 DEF ResultsAreTails, ResultIsTail, RunAnswers, Doing
<1> DEFINE told == [r EXCEPT !.truncated = flag]
<1>2. told \in Snapshots /\ IsTail(told) /\ (Missing(told) > 0 => told.truncated)
  BY <1>1 DEF Snapshots, IsTail, Missing
<1>3. snapshot' = [snapshot EXCEPT ![h] = told] /\ Then(h, "answered")
  BY <1>1 DEF RunAnswers, ResultsAreTails
<1> HIDE DEF told
<1>4. snapshot' \in [Handlers -> Snapshots] /\ snapshot'[h] = told
  BY <1>2, <1>3 DEF ResultsAreTails
<1>5. handling'[h].pc = "answered"
  <2>1. handling'[h] = [handling[h] EXCEPT !.pc = "answered"] /\ handling[h] \in CallRecords
    BY <1>3, ThenTypes DEF OnShell, RegistryTypes
  <2> QED
    BY <2>1 DEF CallRecords
<1> QED
  BY <1>2, <1>4, <1>5 DEF ResultIsTail, IsTail, Missing

LEMMA RunningFromOffset ==
  ASSUME RegistryTypes, ResultsAreTails, NEW h \in Handlers, RunsCommand(h), ~Leaves(h)
  PROVE  ResultIsTail(h)'
<1>1. PICK n \in DOMAIN shells : n = handling[h].of
  BY DEF RunsCommand, Doing, RegistryTypes, OnShell
<1>2. /\ handling' = [handling EXCEPT ![h].pc = "running", ![h].start = shells[n].total]
      /\ shells' = [shells EXCEPT ![n].busy = TRUE] /\ UNCHANGED snapshot
  BY <1>1 DEF RunsCommand
<1>3. shells[n] \in ShellRecords /\ handling[h] \in CallRecords
  BY DEF RegistryTypes
<1>4. shells'[n].total = shells[n].total /\ shells[n].total \in Nat
  BY <1>2, <1>3 DEF ShellRecords
<1>5. /\ handling'[h].pc = "running" /\ handling'[h].start = shells[n].total
      /\ handling'[h].of = n
  BY <1>1, <1>2, <1>3 DEF RegistryTypes, CallRecords
<1>6. snapshot'[h] = NoSnapshot
  BY <1>2 DEF ResultsAreTails, ResultIsTail, RunsCommand, Doing
<1> QED
  BY <1>4, <1>5, <1>6, NothingIsMissing DEF ResultIsTail, IsTail, Missing

LEMMA ResultsAreTailsKept ==
  ASSUME RegistryTypes, ResultsAreTails, [RegistryNext]_registryVars
  PROVE  ResultsAreTails'
<1>1. ASSUME NEW h \in Handlers, snapshot' \in [Handlers -> Snapshots], ResultIsTail(h)',
             \A g \in Handlers \ {h} : handling'[g] = handling[g] /\ snapshot'[g] = snapshot[g]
      PROVE  ResultsAreTails'
  <2>1. \A g \in Handlers \ {h} : ResultIsTail(g)'
    BY <1>1, StandsStill
  <2> QED
    BY <1>1, <2>1 DEF ResultsAreTails
<1>2. CASE UNCHANGED <<handling, snapshot>>
  <2>1. \A h \in Handlers : ResultIsTail(h)'
    BY <1>2, StandsStill
  <2> QED
    BY <1>2, <2>1 DEF ResultsAreTails
<1>3. ASSUME NEW h \in Handlers, UNCHANGED snapshot, handling[h].pc \notin {"flag", "answered"},
             handling'[h].pc \notin {"running", "flag", "answered"},
             \A g \in Handlers \ {h} : handling'[g] = handling[g]
      PROVE  ResultsAreTails'
  <2>1. snapshot'[h] = NoSnapshot
    BY <1>3 DEF ResultsAreTails, ResultIsTail
  <2> QED
    BY <1>1, <1>3, <2>1, HasNoResult DEF ResultsAreTails
<1>4. ASSUME NEW h \in Handlers, Leaves(h)
      PROVE  /\ handling'[h].pc \notin {"running", "flag", "answered"}
             /\ \A g \in Handlers \ {h} : handling'[g] = handling[g]
  BY <1>4, LeavesTypes DEF Free
<1>5. ASSUME NEW h \in Handlers, Handle(h)
      PROVE  ResultsAreTails'
  <2>1. /\ handling'[h].pc \in {"run", "kill", "start"}
        /\ \A g \in Handlers \ {h} : handling'[g] = handling[g]
    BY <1>5 DEF Handle, Finds, Free, RegistryTypes
  <2> QED
    BY <1>3, <1>5, <2>1 DEF Handle, Doing
<1>6. ASSUME NEW h \in Handlers, StartShell(h)
      PROVE  ResultsAreTails'
  <2>1. CASE Leaves(h)
    BY <1>3, <1>4, <1>6, <2>1 DEF StartShell, Doing
  <2>2. CASE ShellAdded(h)
    <3>1. handling'[h].pc = "run" /\ \A g \in Handlers \ {h} : handling'[g] = handling[g]
      BY <1>6, <2>2, AddedTypes DEF Free
    <3> QED
      BY <1>3, <1>6, <3>1 DEF StartShell, Doing
  <2> QED
    BY <1>6, <2>1, <2>2 DEF StartShell, ShellAdded
<1>7. ASSUME NEW h \in Handlers, EnvRefused(h) \/ KillsShell(h) \/ RegistryClosed(h)
      PROVE  ResultsAreTails'
  BY <1>3, <1>4, <1>7 DEF EnvRefused, KillsShell, RegistryClosed, Doing
<1>8. ASSUME NEW h \in Handlers, ClosesRegistry(h)
      PROVE  ResultsAreTails'
  <2>1. handling'[h].pc = "closing" /\ \A g \in Handlers \ {h} : handling'[g] = handling[g]
    BY <1>8 DEF ClosesRegistry, Then, RegistryTypes, CallRecords
  <2> QED
    BY <1>3, <1>8, <2>1 DEF ClosesRegistry, Doing
<1>9. ASSUME NEW h \in Handlers, RunsCommand(h)
      PROVE  ResultsAreTails'
  <2>1. CASE Leaves(h)
    BY <1>3, <1>4, <1>9, <2>1 DEF RunsCommand, Doing
  <2>2. CASE ~Leaves(h)
    <3>1. UNCHANGED snapshot /\ \A g \in Handlers \ {h} : handling'[g] = handling[g]
      BY <1>9, <2>2 DEF RunsCommand, RegistryTypes
    <3> QED
      BY <1>1, <1>9, <2>2, <3>1, RunningFromOffset DEF ResultsAreTails
  <2> QED
    BY <2>1, <2>2
<1>10. ASSUME NEW h \in Handlers, RunSnapshots(h) \/ RunAnswers(h)
       PROVE  ResultsAreTails'
  <2>1. \A g \in Handlers \ {h} : handling'[g] = handling[g] /\ snapshot'[g] = snapshot[g]
    BY <1>10 DEF RunSnapshots, RunAnswers, Then, RegistryTypes, ResultsAreTails
  <2> QED
    BY <1>1, <1>10, <2>1, SnapshotIsTail, AnswerIsTail
<1>11. ASSUME NEW h \in Handlers, Returns(h)
       PROVE  ResultsAreTails'
  <2>1. /\ snapshot' \in [Handlers -> Snapshots] /\ snapshot'[h] = NoSnapshot
        /\ \A g \in Handlers \ {h} : snapshot'[g] = snapshot[g]
    BY <1>11, NothingIsMissing DEF Returns, ResultsAreTails
  <2>2. Leaves(h)
    BY <1>11 DEF Returns
  <2> QED
    BY <1>1, <1>4, <2>1, <2>2, HasNoResult
<1> QED
  BY <1>2, <1>5, <1>6, <1>7, <1>8, <1>9, <1>10, <1>11
     DEF RegistryNext, registryVars, ClosesSession, ShellWrites, CommandDone, ShellEnds

(* What a command is reported to have printed is the end of what was        *)
(* printed since it started, and "truncated" tells whether that is all,     *)
(* though run reads the buffer and its flag one after the other.            *)
THEOREM ResultsTellTheEnd == RegistrySpec => []OutputIsTail
<1>1. RegistryInit => RegistryTypes /\ ResultsAreTails
  <2>1. ASSUME RegistryInit
        PROVE  ResultsAreTails
    <3>1. \A h \in Handlers : snapshot[h] = NoSnapshot /\ handling[h].pc = "free"
      BY <2>1 DEF RegistryInit, Free
    <3>2. snapshot \in [Handlers -> Snapshots]
      BY <2>1, NothingIsMissing DEF RegistryInit
    <3> QED
      BY <3>1, <3>2, NothingIsMissing DEF ResultsAreTails, ResultIsTail
  <2> QED
    BY <2>1, RegistryStarts
<1>2. RegistryTypes /\ ResultsAreTails /\ [RegistryNext]_registryVars => (RegistryTypes /\ ResultsAreTails)'
  BY TypesKept, ResultsAreTailsKept
<1>3. ResultsAreTails => OutputIsTail
  <2>1. ASSUME ResultsAreTails, NEW h \in Handlers
        PROVE  LET s == snapshot[h]
                   missing == s.end - s.start - Len(s.output)
               IN  /\ s.output = [i \in 1 .. Len(s.output) |-> s.start + missing + i]
                   /\ missing > 0 => Len(s.output) = MaxOutput
                   /\ missing > 0 => Doing(h, "flag") \/ s.truncated
    <3>1. PICK s \in Snapshots, output \in Seq(Nat) :
            /\ s = snapshot[h] /\ output = s.output /\ IsTail(s)
            /\ (Missing(s) > 0 => Doing(h, "flag") \/ s.truncated)
      <4>1. snapshot[h] \in Snapshots /\ ResultIsTail(h)
        BY <2>1 DEF ResultsAreTails
      <4>2. ~(Missing(NoSnapshot) > 0)
        BY DEF Missing, NoSnapshot
      <4> QED
        BY <4>1, <4>2 DEF ResultIsTail, Snapshots, Doing
    <3>2. output = [i \in 1 .. Len(output) |-> s.start + Missing(s) + i]
      <4>1. \A i \in 1 .. Len(output) : output[i] = s.start + Missing(s) + i
        BY <3>1 DEF IsTail
      <4> QED
        BY <4>1
    <3> QED
      BY <3>1, <3>2 DEF IsTail, Missing
  <2> QED
    BY <2>1 DEF OutputIsTail
<1> QED
  BY <1>1, <1>2, <1>3, PTL DEF RegistrySpec

-----------------------------------------------------------------------------
(* The variables keep their types: counters and times are naturals, and the *)
(* history is one of admissions (RateLimiter's fields, tool_middleware.go). *)
THEOREM LimiterTypes == LimiterSpec => []LimiterTypeOK
<1>1. LimiterInit => LimiterTypeOK
  BY DEF LimiterInit, LimiterTypeOK
<1>2. LimiterTypeOK /\ [LimiterNext]_limiterVars => LimiterTypeOK'
  <2> SUFFICES ASSUME LimiterTypeOK, [LimiterNext]_limiterVars
               PROVE  LimiterTypeOK'
    OBVIOUS
  <2> USE RateLimiterAssumption DEF LimiterTypeOK
  <2>1. CASE Tick
    BY <2>1 DEF Tick
  <2>2. ASSUME NEW c \in Callers, ReadClock(c)
        PROVE  LimiterTypeOK'
    BY <2>2 DEF ReadClock
  <2>3. ASSUME NEW c \in Callers, Admit(c)
        PROVE  LimiterTypeOK'
    <3>1. [read |-> now[c], at |-> clock] \in Admission
      BY DEF Admission
    <3>2. window' \in Nat /\ count' \in Nat /\ clock' = clock
      BY <2>3 DEF Admit, WindowAt, CountAt
    <3>3. now' \in [Callers -> Nat] /\ admitted' \in Seq(Admission)
      BY <2>3, <3>1 DEF Admit
    <3> QED
      BY <3>2, <3>3
  <2>4. ASSUME NEW c \in Callers, Reject(c)
        PROVE  LimiterTypeOK'
    <3>1. window' \in Nat /\ count' \in Nat /\ clock' = clock /\ admitted' = admitted
      BY <2>4 DEF Reject, WindowAt, CountAt
    <3>2. now' \in [Callers -> Nat]
      BY <2>4 DEF Reject
    <3> QED
      BY <3>1, <3>2
  <2>5. CASE UNCHANGED limiterVars
    BY <2>5 DEF limiterVars
  <2> QED
    BY <2>1, <2>2, <2>3, <2>4, <2>5 DEF LimiterNext
<1> QED
  BY <1>1, <1>2, PTL DEF LimiterSpec

-----------------------------------------------------------------------------
(* The history is indexed by naturals, and each call of it has read a time  *)
(* (what now holds for admit to append).                                    *)
LEMMA ReadsAreTimes ==
  ASSUME LimiterTypeOK
  PROVE  /\ Len(admitted) \in Nat
         /\ \A i \in 1 .. Len(admitted) : admitted[i].read \in Nat
<1>1. Len(admitted) \in Nat
  BY DEF LimiterTypeOK
<1>2. ASSUME NEW i \in 1 .. Len(admitted)
      PROVE  admitted[i].read \in Nat
  <2>1. admitted[i] \in Admission
    BY DEF LimiterTypeOK
  <2> QED
    BY <2>1 DEF Admission
<1> QED
  BY <1>1, <1>2

(* Replacing a window that is over keeps the distances: its calls become    *)
(* calls of the window before, and those of the window before older ones.  *)
LEMMA WindowRolls ==
  ASSUME LimiterTypeOK, LimiterInv, NEW t \in Nat, t # 0, t <= clock
  PROVE  /\ WindowAt(t) \in Nat /\ CountAt(t) \in Nat
         /\ WindowAt(t) # 0 /\ WindowAt(t) <= clock /\ t <= WindowAt(t) + Minute
         /\ CountAt(t) <= PerMinute /\ CountAt(t) <= Len(admitted)
         /\ \A i \in 1 .. Len(admitted) : admitted[i].read <= WindowAt(t) + Minute
         /\ \A i \in 1 .. Len(admitted) :
              i + CountAt(t) <= Len(admitted) => admitted[i].read <= WindowAt(t)
         /\ \A i \in 1 .. Len(admitted) :
              i + CountAt(t) + PerMinute <= Len(admitted) =>
                admitted[i].read + Minute <= WindowAt(t)
<1> USE RateLimiterAssumption DEF LimiterTypeOK
<1>0. /\ Len(admitted) \in Nat
      /\ \A i \in 1 .. Len(admitted) : admitted[i].read \in Nat
  BY ReadsAreTimes
<1>1. CASE window = 0
  <2>1. Len(admitted) = 0 /\ WindowAt(t) = t /\ CountAt(t) = 0
    BY <1>1 DEF LimiterInv, WindowAt, CountAt, WindowOver
  <2> QED
    BY <1>0, <2>1
<1>2. CASE window # 0 /\ t >= window + Minute
  <2>1. WindowAt(t) = t /\ CountAt(t) = 0
    BY <1>2 DEF WindowAt, CountAt, WindowOver
  <2>2. \A i \in 1 .. Len(admitted) : admitted[i].read <= t
    BY <1>0, <1>2 DEF LimiterInv
  <2>3. \A i \in 1 .. Len(admitted) :
          i + PerMinute <= Len(admitted) => admitted[i].read <= window
    BY <1>0 DEF LimiterInv
  <2>4. \A i \in 1 .. Len(admitted) :
          i + PerMinute <= Len(admitted) => admitted[i].read + Minute <= t
    BY <1>0, <1>2, <2>3
  <2> QED
    BY <1>0, <1>2, <2>1, <2>2, <2>4
<1>3. CASE window # 0 /\ ~(t >= window + Minute)
  <2>1. WindowAt(t) = window /\ CountAt(t) = count
    BY <1>3 DEF WindowAt, CountAt, WindowOver
  <2>2. t <= window + Minute
    BY <1>3
  <2> QED
    BY <1>0, <1>3, <2>1, <2>2 DEF LimiterInv
<1> QED
  BY <1>1, <1>2, <1>3

(* The invariant: how far back a call's window is bounds the time it read   *)
(* (admit, tool_middleware.go); the step that adds a call finds the call    *)
(* 2 * PerMinute before it in an older window than the one before its own.  *)
THEOREM LimiterInvariant == LimiterSpec => []LimiterInv
<1> USE RateLimiterAssumption
<1>1. LimiterInit => LimiterInv
  BY DEF LimiterInit, LimiterInv, AtMostTwoWindowsAMinute
<1>2. LimiterTypeOK /\ LimiterInv /\ [LimiterNext]_limiterVars => LimiterInv'
  <2> SUFFICES ASSUME LimiterTypeOK, LimiterInv, [LimiterNext]_limiterVars
               PROVE  LimiterInv'
    OBVIOUS
  <2>0. /\ Len(admitted) \in Nat
        /\ \A i \in 1 .. Len(admitted) : admitted[i].read \in Nat
    BY ReadsAreTimes
  <2>1. CASE Tick
    BY <2>1 DEF Tick, LimiterInv, LimiterTypeOK, AtMostTwoWindowsAMinute
  <2>2. ASSUME NEW c \in Callers, ReadClock(c)
        PROVE  LimiterInv'
    BY <2>2 DEF ReadClock, LimiterInv, LimiterTypeOK, AtMostTwoWindowsAMinute
  <2>3. ASSUME NEW c \in Callers, Admit(c)
        PROVE  LimiterInv'
    <3> DEFINE t == now[c]
               n == Len(admitted)
    <3>1. t \in Nat /\ t # 0 /\ t <= clock
      BY <2>3 DEF Admit, LimiterTypeOK, LimiterInv
    <3>2. /\ window' = WindowAt(t) /\ count' = CountAt(t) + 1 /\ clock' = clock
          /\ CountAt(t) < PerMinute
          /\ admitted' = Append(admitted, [read |-> t, at |-> clock])
          /\ now' = [now EXCEPT ![c] = 0]
      BY <2>3, <3>1, WindowRolls DEF Admit, Full
    <3>3. /\ Len(admitted') = n + 1
          /\ \A i \in 1 .. n : admitted'[i] = admitted[i]
          /\ admitted'[n + 1] = [read |-> t, at |-> clock]
      BY <3>2 DEF LimiterTypeOK
    <3> HIDE DEF t, n
    <3>4. n \in Nat /\ n = Len(admitted)
      BY <2>0 DEF n
    <3>5. /\ window' <= clock' /\ count' <= PerMinute /\ count' <= Len(admitted')
          /\ window' # 0
      BY <2>0, <3>1, <3>2, <3>3, <3>4, WindowRolls
    <3>6. \A d \in Callers : now'[d] <= clock'
      BY <3>2 DEF LimiterInv, LimiterTypeOK
    <3>7. \A i \in 1 .. n + 1 : admitted'[i].read <= window' + Minute
      BY <2>0, <3>1, <3>2, <3>3, <3>4, WindowRolls
    <3>8. \A i \in 1 .. n + 1 : i + count' <= n + 1 => admitted'[i].read <= window'
      BY <2>0, <3>1, <3>2, <3>3, <3>4, WindowRolls
    <3>9. \A i \in 1 .. n + 1 :
            i + count' + PerMinute <= n + 1 => admitted'[i].read + Minute <= window'
      BY <2>0, <3>1, <3>2, <3>3, <3>4, WindowRolls
    <3>10. AtMostTwoWindowsAMinute'
      <4> SUFFICES ASSUME NEW i \in 1 .. n + 1, i + 2 * PerMinute <= n + 1
                   PROVE  admitted'[i + 2 * PerMinute].at >= admitted'[i].read + Minute
        <5>1. DOMAIN admitted' = 1 .. n + 1
          BY <3>2, <3>3 DEF LimiterTypeOK
        <5> QED
          BY <3>3, <5>1 DEF AtMostTwoWindowsAMinute
      <4>0. /\ count' \in Nat /\ count' <= PerMinute /\ PerMinute \in Nat /\ PerMinute > 0
            /\ 2 * PerMinute = PerMinute + PerMinute /\ i \in Nat
        BY <3>1, <3>2, <3>4, <3>5, WindowRolls
      <4>1. CASE i + 2 * PerMinute = n + 1
        <5>1. i + count' + PerMinute <= n + 1
          BY ONLY <3>4, <4>0, <4>1
        <5>2. admitted'[i].read + Minute <= window'
          BY <3>9, <5>1
        <5>3. i \in 1 .. n
          BY ONLY <3>4, <4>0, <4>1
        <5>4. admitted'[i].read \in Nat
          BY <2>0, <3>3, <3>4, <5>3
        <5>5. window' \in Nat /\ clock' \in Nat
          BY <3>1, <3>2, WindowRolls DEF LimiterTypeOK
        <5>6. admitted'[i + 2 * PerMinute].at = clock'
          BY <3>2, <3>3, <4>1
        <5> QED
          BY <3>5, <5>2, <5>4, <5>5, <5>6
      <4>2. CASE i + 2 * PerMinute # n + 1
        <5>1. i \in 1 .. n /\ i + 2 * PerMinute \in 1 .. n
          BY ONLY <3>4, <4>0, <4>2, i + 2 * PerMinute <= n + 1, i \in 1 .. n + 1
        <5>2. i \in DOMAIN admitted /\ i + 2 * PerMinute <= Len(admitted)
          BY <3>4, <5>1 DEF LimiterTypeOK
        <5>3. admitted[i + 2 * PerMinute].at >= admitted[i].read + Minute
          BY <5>2 DEF LimiterInv, AtMostTwoWindowsAMinute
        <5> QED
          BY <3>3, <5>1, <5>3
      <4> QED
        BY <4>1, <4>2
    <3> QED
      BY <3>3, <3>5, <3>6, <3>7, <3>8, <3>9, <3>10 DEF LimiterInv
  <2>4. ASSUME NEW c \in Callers, Reject(c)
        PROVE  LimiterInv'
    <3>1. CASE PerMinute = 0
      BY <2>4, <3>1 DEF Reject, LimiterInv, LimiterTypeOK, AtMostTwoWindowsAMinute
    <3>2. CASE PerMinute # 0
      <4>1. now[c] \in Nat /\ now[c] # 0 /\ now[c] <= clock
        BY <2>4 DEF Reject, LimiterTypeOK, LimiterInv
      <4>2. /\ window' = WindowAt(now[c]) /\ count' = CountAt(now[c])
            /\ clock' = clock /\ admitted' = admitted /\ now' = [now EXCEPT ![c] = 0]
        BY <2>4, <3>2 DEF Reject
      <4>3. \A d \in Callers : now'[d] <= clock'
        BY <4>2 DEF LimiterInv, LimiterTypeOK
      <4>4. AtMostTwoWindowsAMinute'
        BY <4>2 DEF LimiterInv, AtMostTwoWindowsAMinute
      <4> QED
        BY <2>0, <4>1, <4>2, <4>3, <4>4, WindowRolls DEF LimiterInv
    <3> QED
      BY <3>1, <3>2
  <2>5. CASE UNCHANGED limiterVars
    BY <2>5 DEF limiterVars, LimiterInv, AtMostTwoWindowsAMinute
  <2> QED
    BY <2>1, <2>2, <2>3, <2>4, <2>5 DEF LimiterNext
<1> QED
  BY <1>1, <1>2, LimiterTypes, PTL DEF LimiterSpec

(* Of 2 * PerMinute + 1 calls let by in a row, a minute lies between the    *)
(* clock reading of the first and the admission of the last (RateLimiter).  *)
THEOREM WindowBound == LimiterSpec => []AtMostTwoWindowsAMinute
<1>1. LimiterInv => AtMostTwoWindowsAMinute
  BY DEF LimiterInv
<1> QED
  BY <1>1, LimiterInvariant, PTL

-----------------------------------------------------------------------------
(* The steps of a file tool under StaleReadGuard. *)
Pcs == {"idle", "read", "write", "edit", "edit text", "truncate", "content", "record"}

Calls == [Sessions -> [pc : Pcs, disturbed : BOOLEAN]]

WorkspaceTypeOK ==
  /\ file \in Nat /\ versions \in Nat /\ requireRead \in BOOLEAN
  /\ hash \in [Sessions -> Nat]
  /\ call \in Calls
  /\ seen \in [Sessions -> SUBSET Nat]
  /\ raced \in [Sessions -> BOOLEAN]

(* The last hash is of a content the session has seen, or was recorded in a *)
(* call that others disturbed.                                             *)
HashIsSeen == \A s \in Sessions : hash[s] # Absent => hash[s] \in seen[s] \/ raced[s]

(* An undisturbed call records a content the session has seen, ... *)
RecordIsSeen ==
  \A s \in Sessions :
    InCall(s, "record") /\ ~call[s].disturbed => file \in seen[s] \/ file = Absent

(* ... and what it has checked is still so when it truncates. *)
CheckHolds ==
  \A s \in Sessions :
    (InCall(s, "edit text") \/ InCall(s, "truncate")) /\ ~call[s].disturbed => Checked(s)

WorkspaceInv == HashIsSeen /\ RecordIsSeen /\ CheckHolds

-----------------------------------------------------------------------------
(* Of the steps of a session, what becomes of its call and of the others'. *)
LEMMA CallSteps ==
  ASSUME call \in Calls, NEW s \in Sessions,
         \/ \E tool \in {"read", "write", "edit"} : StartTool(s, tool)
         \/ ReadTheFile(s) \/ CheckFile(s) \/ EditReads(s) \/ RecordHash(s) \/ ToolStops(s)
  PROVE  /\ call' \in Calls
         /\ \A u \in Sessions \ {s} : call'[u] = call[u]
         /\ call'[s].pc = "idle" \/ call'[s].disturbed = call[s].disturbed
<1>1. \/ \E pc \in Pcs : call' = [call EXCEPT ![s].pc = pc]
      \/ call' = [call EXCEPT ![s] = NoToolCall]
  <2>1. CASE \E tool \in {"read", "write", "edit"} : StartTool(s, tool)
    <3>1. PICK tool \in {"read", "write", "edit"} : StartTool(s, tool)
      BY <2>1
    <3>2. tool \in Pcs
      BY DEF Pcs
    <3> QED
      BY <3>1, <3>2 DEF StartTool, Go
  <2>2. CASE ReadTheFile(s)
    <3>1. call' = [call EXCEPT ![s].pc = "record"] \/ call' = [call EXCEPT ![s] = NoToolCall]
      BY <2>2, Zenon DEF ReadTheFile, Go, Leave
    <3> QED
      BY <3>1 DEF Pcs
  <2>3. CASE CheckFile(s) \/ EditReads(s)
    <3>1. \/ call' = [call EXCEPT ![s].pc = "truncate"] \/ call' = [call EXCEPT ![s].pc = "edit text"]
          \/ call' = [call EXCEPT ![s] = NoToolCall]
      BY <2>3, Zenon DEF CheckFile, EditReads, Go, Leave
    <3> QED
      BY <3>1 DEF Pcs
  <2>4. CASE RecordHash(s) \/ ToolStops(s)
    BY <2>4, Zenon DEF RecordHash, ToolStops, Leave
  <2> QED
    BY <2>1, <2>2, <2>3, <2>4
<1>2. ASSUME NEW pc \in Pcs, call' = [call EXCEPT ![s].pc = pc]
      PROVE  /\ call' \in Calls /\ call'[s].disturbed = call[s].disturbed
             /\ \A u \in Sessions \ {s} : call'[u] = call[u]
  BY <1>2 DEF Calls
<1>3. ASSUME call' = [call EXCEPT ![s] = NoToolCall]
      PROVE  /\ call' \in Calls /\ call'[s].pc = "idle"
             /\ \A u \in Sessions \ {s} : call'[u] = call[u]
  BY <1>3 DEF Calls, NoToolCall, Pcs
<1> QED
  BY <1>1, <1>2, <1>3, Zenon

(* A write of session s, or of none of them, that disturbs the others. *)
LEMMA WriteSteps ==
  ASSUME call \in Calls, NEW s \in Sessions, NEW pc \in Pcs,
         call' = DisturbedBy(s, [call EXCEPT ![s].pc = pc])
  PROVE  /\ call' \in Calls
         /\ call'[s].pc = pc /\ call'[s].disturbed = call[s].disturbed
         /\ \A u \in Sessions \ {s} :
              /\ call'[u].pc = call[u].pc
              /\ call[u].pc # "idle" => call'[u].disturbed
<1> DEFINE next == [call EXCEPT ![s].pc = pc]
<1>1. /\ next \in Calls /\ next[s].pc = pc /\ next[s].disturbed = call[s].disturbed
      /\ \A u \in Sessions \ {s} : next[u] = call[u]
  BY DEF Calls
<1>2. call' = [u \in Sessions |-> IF u = s \/ call[u].pc = "idle" THEN next[u]
                                  ELSE [next[u] EXCEPT !.disturbed = TRUE]]
  BY DEF DisturbedBy, InCall
<1> HIDE DEF next
<1>3. ASSUME NEW u \in Sessions
      PROVE  /\ call'[u] \in [pc : Pcs, disturbed : BOOLEAN]
             /\ call'[u].pc = next[u].pc
             /\ u # s /\ call[u].pc # "idle" => call'[u].disturbed
  <2>1. next[u] \in [pc : Pcs, disturbed : BOOLEAN]
    BY <1>1 DEF Calls
  <2>2. CASE u = s \/ call[u].pc = "idle"
    <3>1. call'[u] = next[u]
      BY <1>2, <2>2
    <3> QED
      BY <2>1, <2>2, <3>1
  <2>3. CASE ~(u = s \/ call[u].pc = "idle")
    <3>1. call'[u] = [next[u] EXCEPT !.disturbed = TRUE]
      BY <1>2, <2>3
    <3> QED
      BY <2>1, <3>1
  <2> QED
    BY <2>2, <2>3
<1>4. call' \in Calls
  <2>1. \A u \in Sessions : call'[u] \in [pc : Pcs, disturbed : BOOLEAN]
    BY <1>3
  <2> QED
    BY <1>2, <2>1 DEF Calls
<1>5. call'[s] = next[s]
  BY <1>2
<1> QED
  BY <1>1, <1>3, <1>4, <1>5

(* Where Go and Leave take a call. *)
LEMMA GoLeave ==
  ASSUME call \in Calls, NEW s \in Sessions
  PROVE  /\ \A pc \in Pcs : Go(s, pc) => call'[s].pc = pc
         /\ Leave(s) => call'[s].pc = "idle"
BY DEF Go, Leave, NoToolCall, Calls

LEMMA OutsideSteps ==
  ASSUME call \in Calls, call' = DisturbedBy(NoSession, call)
  PROVE  /\ call' \in Calls
         /\ \A u \in Sessions :
              /\ call'[u].pc = call[u].pc
              /\ call[u].pc # "idle" => call'[u].disturbed
BY WorkspaceAssumption DEF DisturbedBy, InCall, Calls

-----------------------------------------------------------------------------
(* The file is a version, and a call is at one of its steps: every tool     *)
(* call and every program outside keeps the variables of their types.       *)
THEOREM WorkspaceTypes == WorkspaceSpec => []WorkspaceTypeOK
<1>1. WorkspaceInit => WorkspaceTypeOK
  BY DEF WorkspaceInit, WorkspaceTypeOK, Calls, NoToolCall, Pcs, Absent, FirstVersion
<1>2. WorkspaceTypeOK /\ [WorkspaceNext]_workspaceVars => WorkspaceTypeOK'
  <2> SUFFICES ASSUME WorkspaceTypeOK, [WorkspaceNext]_workspaceVars
               PROVE  WorkspaceTypeOK'
    OBVIOUS
  <2> USE DEF WorkspaceTypeOK, Absent, Empty
  <2>1. ASSUME NEW s \in Sessions,
               \/ \E tool \in {"read", "write", "edit"} : StartTool(s, tool)
               \/ CheckFile(s) \/ EditReads(s) \/ ToolStops(s)
        PROVE  WorkspaceTypeOK'
    <3>1. call' \in Calls
      BY <2>1, CallSteps
    <3> QED
      BY <2>1, <3>1 DEF StartTool, CheckFile, EditReads, ToolStops
  <2>2. ASSUME NEW s \in Sessions, ReadTheFile(s)
        PROVE  WorkspaceTypeOK'
    <3>1. call' \in Calls
      BY <2>2, CallSteps
    <3>2. seen' = seen \/ seen' = [seen EXCEPT ![s] = @ \cup {file}]
      BY <2>2, Zenon DEF ReadTheFile
    <3> QED
      BY <2>2, <3>1, <3>2 DEF ReadTheFile
  <2>3. ASSUME NEW s \in Sessions, RecordHash(s)
        PROVE  WorkspaceTypeOK'
    <3>1. call' \in Calls
      BY <2>3, CallSteps
    <3>2. \/ UNCHANGED <<hash, raced>>
          \/ /\ hash' = [hash EXCEPT ![s] = file]
             /\ raced' = [raced EXCEPT ![s] = call[s].disturbed]
      BY <2>3, Zenon DEF RecordHash
    <3>3. call[s].disturbed \in BOOLEAN
      BY DEF Calls
    <3>4. raced' \in [Sessions -> BOOLEAN]
      BY <3>2, <3>3
    <3>5. hash' \in [Sessions -> Nat]
      BY <3>2
    <3> QED
      BY <2>3, <3>1, <3>4, <3>5 DEF RecordHash
  <2>4. ASSUME NEW s \in Sessions, TruncateFile(s)
        PROVE  WorkspaceTypeOK'
    <3>1. CASE Leave(s)
      <4>1. call' \in Calls
        BY <3>1 DEF Leave, Calls, NoToolCall, Pcs
      <4>2. file' \in Nat
        BY <2>4 DEF TruncateFile
      <4> QED
        BY <2>4, <4>1, <4>2 DEF TruncateFile
    <3>2. CASE call' = DisturbedBy(s, [call EXCEPT ![s].pc = "content"])
      <4>1. "content" \in Pcs
        BY DEF Pcs
      <4>2. call' \in Calls
        BY <3>2, <4>1, WriteSteps
      <4>3. file' \in Nat
        BY <2>4 DEF TruncateFile
      <4> QED
        BY <2>4, <4>2, <4>3 DEF TruncateFile
    <3> QED
      BY <2>4, <3>1, <3>2, Zenon DEF TruncateFile
  <2>5. ASSUME NEW s \in Sessions, WriteContent(s)
        PROVE  WorkspaceTypeOK'
    <3>1. "record" \in Pcs
      BY DEF Pcs
    <3>2. call' \in Calls
      BY <2>5, <3>1, WriteSteps DEF WriteContent
    <3> QED
      BY <2>5, <3>2 DEF WriteContent
  <2>6. CASE OutsideWrites \/ OutsideRemoves
    BY <2>6, OutsideSteps DEF OutsideWrites, OutsideRemoves
  <2>7. CASE UNCHANGED workspaceVars
    BY <2>7 DEF workspaceVars
  <2> QED
    BY <2>1, <2>2, <2>3, <2>4, <2>5, <2>6, <2>7 DEF WorkspaceNext
<1> QED
  BY <1>1, <1>2, PTL DEF WorkspaceSpec

-----------------------------------------------------------------------------
LEMMA WorkspaceInvariant == WorkspaceSpec => []WorkspaceInv
<1>1. WorkspaceInit => WorkspaceInv
  <2> SUFFICES ASSUME WorkspaceInit
               PROVE  WorkspaceInv
    OBVIOUS
  <2>1. \A s \in Sessions : call[s].pc = "idle" /\ hash[s] = Absent
    BY DEF WorkspaceInit, NoToolCall
  <2> QED
    BY <2>1 DEF WorkspaceInv, HashIsSeen, RecordIsSeen, CheckHolds, InCall
<1>2. WorkspaceTypeOK /\ WorkspaceInv /\ [WorkspaceNext]_workspaceVars => WorkspaceInv'
  <2> SUFFICES ASSUME WorkspaceTypeOK, WorkspaceInv, [WorkspaceNext]_workspaceVars
               PROVE  WorkspaceInv'
    OBVIOUS
  <2> USE DEF WorkspaceTypeOK, WorkspaceInv, HashIsSeen, RecordIsSeen, CheckHolds,
              Checked, InCall, Absent, Empty
  <2>1. ASSUME NEW s \in Sessions,
               \/ \E tool \in {"read", "write", "edit"} : StartTool(s, tool)
               \/ ToolStops(s)
        PROVE  WorkspaceInv'
    <3>1. /\ call' \in Calls /\ \A u \in Sessions \ {s} : call'[u] = call[u]
          /\ UNCHANGED <<file, requireRead, hash, seen, raced>>
      BY <2>1, CallSteps DEF StartTool, ToolStops
    <3>2. call'[s].pc \in {"read", "write", "edit", "idle"}
      <4>1. (\E tool \in {"read", "write", "edit"} : Go(s, tool)) \/ Leave(s)
        BY <2>1, Zenon DEF StartTool, ToolStops
      <4> QED
        BY <4>1, GoLeave DEF Pcs
    <3> QED
      BY <3>1, <3>2
  <2>2. ASSUME NEW s \in Sessions, ReadTheFile(s)
        PROVE  WorkspaceInv'
    <3>1. /\ \A u \in Sessions \ {s} : call'[u] = call[u]
          /\ UNCHANGED <<file, requireRead, hash, raced>>
          /\ \A u \in Sessions : seen[u] \subseteq seen'[u]
      BY <2>2, CallSteps DEF ReadTheFile
    <3>2. call'[s].pc = "idle" \/ (call'[s].pc = "record" /\ file \in seen'[s])
      <4>1. \/ Leave(s)
            \/ Go(s, "record") /\ seen' = [seen EXCEPT ![s] = @ \cup {file}]
        BY <2>2, Zenon DEF ReadTheFile
      <4>2. Go(s, "record") => call'[s].pc = "record"
        BY GoLeave DEF Pcs
      <4>3. Leave(s) => call'[s].pc = "idle"
        BY GoLeave
      <4> QED
        BY <4>1, <4>2, <4>3
    <3> QED
      BY <3>1, <3>2
  <2>3. ASSUME NEW s \in Sessions, CheckFile(s)
        PROVE  WorkspaceInv'
    <3>1. /\ \A u \in Sessions \ {s} : call'[u] = call[u]
          /\ UNCHANGED <<file, requireRead, hash, seen, raced>>
      BY <2>3, CallSteps DEF CheckFile
    <3>2. call'[s].pc = "idle" \/ (call'[s].pc \in {"truncate", "edit text"} /\ Checked(s))
      <4>1. Leave(s) \/ (Checked(s) /\ (Go(s, "truncate") \/ Go(s, "edit text")))
        <5> HIDE DEF Checked
        <5> QED
          BY <2>3, Zenon DEF CheckFile
      <4>2. /\ Go(s, "truncate") => call'[s].pc = "truncate"
            /\ Go(s, "edit text") => call'[s].pc = "edit text"
        BY GoLeave DEF Pcs
      <4>3. Leave(s) => call'[s].pc = "idle"
        BY GoLeave
      <4> HIDE DEF Checked
      <4> QED
        BY <4>1, <4>2, <4>3
    <3> QED
      BY <3>1, <3>2
  <2>4. ASSUME NEW s \in Sessions, EditReads(s)
        PROVE  WorkspaceInv'
    <3>1. /\ \A u \in Sessions \ {s} : call'[u] = call[u]
          /\ UNCHANGED <<file, requireRead, hash, seen, raced>>
          /\ call'[s].pc = "idle" \/ call'[s].disturbed = call[s].disturbed
      BY <2>4, CallSteps DEF EditReads
    <3>2. call[s].pc = "edit text" /\ (call'[s].pc = "idle" \/ call'[s].pc = "truncate")
      <4>1. InCall(s, "edit text") /\ (Leave(s) \/ Go(s, "truncate"))
        BY <2>4, Zenon DEF EditReads
      <4>2. Go(s, "truncate") => call'[s].pc = "truncate"
        BY GoLeave DEF Pcs
      <4>3. Leave(s) => call'[s].pc = "idle"
        BY GoLeave
      <4> QED
        BY <4>1, <4>2, <4>3
    <3> QED
      BY <3>1, <3>2
  <2>5. ASSUME NEW s \in Sessions, RecordHash(s)
        PROVE  WorkspaceInv'
    <3>1. /\ \A u \in Sessions \ {s} : call'[u] = call[u]
          /\ UNCHANGED <<file, requireRead, seen>> /\ call[s].pc = "record"
      BY <2>5, CallSteps DEF RecordHash
    <3>2. call'[s].pc = "idle"
      BY <2>5 DEF RecordHash, Leave, NoToolCall, Calls
    <3>3. \A u \in Sessions \ {s} : hash'[u] = hash[u] /\ raced'[u] = raced[u]
      BY <2>5 DEF RecordHash
    <3>4. \/ hash'[s] = hash[s] /\ raced'[s] = raced[s]
          \/ file # 0 /\ hash'[s] = file /\ raced'[s] = call[s].disturbed
      BY <2>5 DEF RecordHash
    <3>5. hash'[s] # 0 => hash'[s] \in seen[s] \/ raced'[s]
      BY <3>1, <3>4
    <3> QED
      BY <3>1, <3>2, <3>3, <3>5
  <2>6. ASSUME NEW s \in Sessions, TruncateFile(s)
        PROVE  WorkspaceInv'
    <3>1. UNCHANGED <<requireRead, hash, seen, raced>>
      BY <2>6 DEF TruncateFile
    <3>2. CASE Leave(s) /\ UNCHANGED file
      <4>1. call'[s].pc = "idle" /\ \A u \in Sessions \ {s} : call'[u] = call[u]
        BY <3>2 DEF Leave, NoToolCall, Calls
      <4> QED
        BY <3>1, <3>2, <4>1
    <3>3. CASE call' = DisturbedBy(s, [call EXCEPT ![s].pc = "content"])
      <4>1. /\ call'[s].pc = "content"
            /\ \A u \in Sessions \ {s} :
                 call'[u].pc = call[u].pc /\ (call[u].pc # "idle" => call'[u].disturbed)
        BY <3>3, WriteSteps DEF Pcs
      <4> QED
        BY <3>1, <4>1
    <3> QED
      BY <2>6, <3>2, <3>3, Zenon DEF TruncateFile
  <2>7. ASSUME NEW s \in Sessions, WriteContent(s)
        PROVE  WorkspaceInv'
    <3>1. /\ call'[s].pc = "record"
          /\ \A u \in Sessions \ {s} :
               call'[u].pc = call[u].pc /\ (call[u].pc # "idle" => call'[u].disturbed)
      BY <2>7, WriteSteps DEF WriteContent, Pcs
    <3>2. /\ UNCHANGED <<requireRead, hash, raced>>
          /\ \A u \in Sessions : seen[u] \subseteq seen'[u]
          /\ file' = 0 \/ file' \in seen'[s]
      BY <2>7 DEF WriteContent
    <3> QED
      BY <3>1, <3>2
  <2>8. CASE OutsideWrites \/ OutsideRemoves
    <3>1. /\ \A u \in Sessions :
               call'[u].pc = call[u].pc /\ (call[u].pc # "idle" => call'[u].disturbed)
          /\ UNCHANGED <<requireRead, hash, seen, raced>>
      BY <2>8, OutsideSteps DEF OutsideWrites, OutsideRemoves
    <3> QED
      BY <3>1
  <2>9. CASE UNCHANGED workspaceVars
    BY <2>9 DEF workspaceVars
  <2> QED
    BY <2>1, <2>2, <2>3, <2>4, <2>5, <2>6, <2>7, <2>8, <2>9 DEF WorkspaceNext
<1> QED
  BY <1>1, <1>2, WorkspaceTypes, PTL DEF WorkspaceSpec

(* No truncation by a guarded session destroys what it has not seen, except *)
(* in a call, or after one, that others disturbed (StaleReadGuard.check and *)
(* recordFileHash).                                                        *)
THEOREM NothingUnseenTruncated == WorkspaceSpec => []NothingUnseenIsLost
<1>1. WorkspaceTypeOK /\ WorkspaceInv => NothingUnseenIsLost
  BY DEF WorkspaceInv, HashIsSeen, CheckHolds, Checked, NothingUnseenIsLost
<1> QED
  BY <1>1, WorkspaceTypes, WorkspaceInvariant, PTL
=============================================================================
