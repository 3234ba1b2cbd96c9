---------------------------- MODULE Observation ----------------------------
(***************************************************************************)
(* The observation bus of each session and the cost trackers on it         *)
(* (observation.go).  A session emits from the goroutine that appends to   *)
(* its log; one tracker may be on the buses of several sessions, and be    *)
(* unsubscribed from any goroutine.  The messages spend a token each.      *)
(***************************************************************************)
EXTENDS Naturals, Sequences, FiniteSets

CONSTANTS Buses,         \* Session.Observation of each session
          Trackers,      \* CostTrackers
          Threshold,     \* CostTracker.threshold, 0 for none
          MaxEmissions   \* bound: messages emitted on one bus

ASSUME ObservationAssumption == Threshold \in Nat /\ MaxEmissions \in Nat

VARIABLES subscribers,  \* per bus: Observation.subscribers
          toCall,       \* per bus: what is left of Emit's copy of them
          ringing,      \* per bus: the total onThreshold of the first of them
                        \* is being called with, 0 when it is not
          spent,        \* per tracker: its tokens
          fired,        \* per tracker: thresholdFired
          emitted,      \* per bus: the number of its last message
          joined,       \* history, per bus: trackers ever subscribed
          gone,         \* history, per bus: trackers unsubscribed again
          owed,         \* history, per tracker: messages emitted between the two
          counted,      \* history, per tracker: messages it has counted
          rang          \* history, per tracker: totals onThreshold was told

observationVars == <<subscribers, toCall, ringing, spent, fired, emitted,
                     joined, gone, owed, counted, rang>>

ObservationInit ==
  /\ subscribers = [b \in Buses |-> <<>>] /\ toCall = [b \in Buses |-> <<>>]
  /\ ringing = [b \in Buses |-> 0] /\ emitted = [b \in Buses |-> 0]
  /\ joined = [b \in Buses |-> {}] /\ gone = [b \in Buses |-> {}]
  /\ spent = [t \in Trackers |-> 0] /\ fired = [t \in Trackers |-> FALSE]
  /\ owed = [t \in Trackers |-> {}] /\ counted = [t \in Trackers |-> {}]
  /\ rang = [t \in Trackers |-> <<>>]

-----------------------------------------------------------------------------
(* NewCostTracker, or a host that puts a tracker on one more bus. *)
Subscribe(b, t) ==
  /\ t \notin joined[b]
  /\ subscribers' = [subscribers EXCEPT ![b] = Append(@, t)]
  /\ joined' = [joined EXCEPT ![b] = @ \cup {t}]
  /\ UNCHANGED <<toCall, ringing, spent, fired, emitted, gone, owed, counted, rang>>

(* Subscribers are compared by code, which is one for all trackers: the     *)
(* first of them is taken off, whichever was meant.                        *)
Unsubscribe(b, t) ==
  /\ t \in joined[b] \ gone[b]
  /\ subscribers' = [subscribers EXCEPT ![b] = IF @ = <<>> THEN @ ELSE Tail(@)]
  /\ gone' = [gone EXCEPT ![b] = @ \cup {t}]
  /\ UNCHANGED <<toCall, ringing, spent, fired, emitted, joined, owed, counted, rang>>

Emit(b) ==
  /\ toCall[b] = <<>> /\ emitted[b] < MaxEmissions
  /\ emitted' = [emitted EXCEPT ![b] = @ + 1]
  /\ toCall' = [toCall EXCEPT ![b] = subscribers[b]]
  /\ owed' = [t \in Trackers |->
                IF t \in joined[b] \ gone[b] THEN owed[t] \cup {<<b, emitted'[b]>>} ELSE owed[t]]
  /\ UNCHANGED <<subscribers, ringing, spent, fired, joined, gone, counted, rang>>

(* CostTracker.Call up to the unlock.  FiresAgain, the mutant, forgets that *)
(* it has.                                                                 *)
FiresAgain(t) == Threshold > 0 /\ spent[t] + 1 >= Threshold
Fires(t) == Threshold > 0 /\ ~fired[t] /\ spent[t] + 1 >= Threshold

Count(b, t) ==
  /\ toCall[b] # <<>> /\ t = Head(toCall[b]) /\ ringing[b] = 0
  /\ spent' = [spent EXCEPT ![t] = @ + 1]
  /\ counted' = [counted EXCEPT ![t] = @ \cup {<<b, emitted[b]>>}]
  /\ IF Fires(t)
     THEN /\ fired' = [fired EXCEPT ![t] = TRUE]
          /\ ringing' = [ringing EXCEPT ![b] = spent[t] + 1]
          /\ UNCHANGED toCall
     ELSE /\ toCall' = [toCall EXCEPT ![b] = Tail(@)]
          /\ UNCHANGED <<fired, ringing>>
  /\ UNCHANGED <<subscribers, emitted, joined, gone, owed, rang>>

(* onThreshold, without the lock.  Emit recovers when it panics. *)
Ring(b, t) ==
  /\ toCall[b] # <<>> /\ t = Head(toCall[b]) /\ ringing[b] # 0
  /\ rang' = [rang EXCEPT ![t] = Append(@, ringing[b])]
  /\ ringing' = [ringing EXCEPT ![b] = 0]
  /\ toCall' = [toCall EXCEPT ![b] = Tail(@)]
  /\ UNCHANGED <<subscribers, spent, fired, emitted, joined, gone, owed, counted>>

ObservationNext ==
  \E b \in Buses :
    \/ Emit(b)
    \/ \E t \in Trackers : Subscribe(b, t) \/ Unsubscribe(b, t) \/ Count(b, t) \/ Ring(b, t)

ObservationSpec == ObservationInit /\ [][ObservationNext]_observationVars

-----------------------------------------------------------------------------
(* The alarm of a tracker rings once, at a total that is over the           *)
(* threshold, however many sessions it counts at a time; and when all is    *)
(* quiet it has rung if the messages it was subscribed for are enough,      *)
(* unless some other tracker was unsubscribed, which may have taken this    *)
(* one off the bus.                                                        *)
Quiet == \A b \in Buses : toCall[b] = <<>>
LeftAlone(t) == \A b \in Buses : gone[b] \subseteq {t}

AlarmRingsOnce ==
  \A t \in Trackers :
    /\ Len(rang[t]) <= 1
    /\ \A i \in DOMAIN rang[t] : rang[t][i] >= Threshold
    /\ Threshold > 0 /\ Quiet /\ LeftAlone(t) /\ Cardinality(owed[t]) >= Threshold =>
         rang[t] # <<>>
=============================================================================
