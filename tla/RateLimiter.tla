---------------------------- MODULE RateLimiter ----------------------------
(***************************************************************************)
(* RateLimiter (tool_middleware.go): a window of a minute in which at most *)
(* PerMinute calls of a tool are let by.  A call reads the clock before it *)
(* gets the mutex, so the times that admit sees may go back.               *)
(***************************************************************************)
EXTENDS Naturals, Sequences

CONSTANTS PerMinute,  \* RateLimiter.PerMinute
          Minute,     \* the ticks of the clock in a minute
          Callers,    \* goroutines that call the tool
          MaxClock    \* bound: the time the model ends

ASSUME RateLimiterAssumption ==
  PerMinute \in Nat /\ Minute \in Nat \ {0} /\ MaxClock \in Nat

VARIABLES clock,     \* the monotonic clock, never 0
          window,    \* RateLimiter.window, 0 for the zero time
          count,     \* RateLimiter.count
          now,       \* per caller: the time it has read, 0 when it is in no call
          admitted   \* history: of each call let by, the time it read and the
                     \* time it was let by

limiterVars == <<clock, window, count, now, admitted>>

Admission == [read : Nat, at : Nat]

LimiterInit ==
  /\ clock = 1 /\ window = 0 /\ count = 0
  /\ now = [c \in Callers |-> 0]
  /\ admitted = <<>>

Tick ==
  /\ clock < MaxClock /\ clock' = clock + 1
  /\ UNCHANGED <<window, count, now, admitted>>

(* Wrap: admit(time.Now()). *)
ReadClock(c) ==
  /\ now[c] = 0
  /\ now' = [now EXCEPT ![c] = clock]
  /\ UNCHANGED <<clock, window, count, admitted>>

WindowOver(t) == window = 0 \/ t >= window + Minute

(* What admit goes by, once a window that is over has been replaced.        *)
(* FullAtOneMore, the mutant, has the limit off by one.                    *)
WindowAt(t) == IF WindowOver(t) THEN t ELSE window
CountAt(t) == IF WindowOver(t) THEN 0 ELSE count

FullAtOneMore(n) == n > PerMinute
Full(n) == n >= PerMinute

Admit(c) ==
  /\ now[c] # 0
  /\ PerMinute > 0 /\ ~Full(CountAt(now[c]))
  /\ window' = WindowAt(now[c])
  /\ count' = CountAt(now[c]) + 1
  /\ admitted' = Append(admitted, [read |-> now[c], at |-> clock])
  /\ now' = [now EXCEPT ![c] = 0]
  /\ UNCHANGED clock

Reject(c) ==
  /\ now[c] # 0
  /\ PerMinute = 0 \/ Full(CountAt(now[c]))
  /\ window' = IF PerMinute = 0 THEN window ELSE WindowAt(now[c])
  /\ count' = IF PerMinute = 0 THEN count ELSE CountAt(now[c])
  /\ now' = [now EXCEPT ![c] = 0]
  /\ UNCHANGED <<clock, admitted>>

LimiterNext == Tick \/ \E c \in Callers : ReadClock(c) \/ Admit(c) \/ Reject(c)

LimiterSpec == LimiterInit /\ [][LimiterNext]_limiterVars

-----------------------------------------------------------------------------
(* What a fixed window promises over any stretch of time: of 2 * PerMinute  *)
(* + 1 calls let by one after the other, the first read the clock at least  *)
(* a minute before the last was let by, however long calls hang between     *)
(* their reading of the clock and the mutex.                               *)
AtMostTwoWindowsAMinute ==
  \A i \in DOMAIN admitted :
    i + 2 * PerMinute <= Len(admitted) =>
      admitted[i + 2 * PerMinute].at >= admitted[i].read + Minute

(* Why, for the proof: a call is of the window, of the one before it, or of *)
(* an older one, by its distance from the last.                            *)
LimiterTypeOK ==
  /\ clock \in Nat \ {0} /\ window \in Nat /\ count \in Nat
  /\ now \in [Callers -> Nat]
  /\ admitted \in Seq(Admission)

LimiterInv ==
  /\ window <= clock /\ count <= PerMinute /\ count <= Len(admitted)
  /\ \A c \in Callers : now[c] <= clock
  /\ window = 0 => admitted = <<>>
  /\ \A i \in 1 .. Len(admitted) : admitted[i].read <= window + Minute
  /\ \A i \in 1 .. Len(admitted) : i + count <= Len(admitted) => admitted[i].read <= window
  /\ \A i \in 1 .. Len(admitted) :
       i + count + PerMinute <= Len(admitted) => admitted[i].read + Minute <= window
  /\ AtMostTwoWindowsAMinute
=============================================================================
