------------------------- MODULE BashSessionProofs -------------------------
(***************************************************************************)
(* Of a shell session, for any number of callers, commands and lines: the  *)
(* shell has one command at a time, what is awaited gets done, and what a  *)
(* command printed is in its result.                                       *)
(***************************************************************************)
EXTENDS BashSession, FiniteSetTheorems, FunctionTheorems, SequenceTheorems, TLAPS

Printed == [of : Commands, sentinel : BOOLEAN]

In(seq) == {seq[i] : i \in 1 .. Len(seq)}

(* The types, by variable. *)
Exits == {"", "own", "shell"}
CommandRecords == [start : [Streams -> Nat], sentinels : SUBSET Streams, exit : Exits,
                   closes : Nat]
CommandTypes == command \in [Commands -> CommandRecords]
CallTypes == call \in [Callers -> [pc : {"idle", "blocked", "running"}, of : 0 .. MaxCommands]]
KillerTypes == killer \in [pc : {"idle", "waiting", "forced"}, of : 0 .. MaxCommands]
PipeTypes == pipe \in [Streams -> Seq(Printed)]
ShellTypes == shell \in [up : BOOLEAN, frames : Seq(Commands), running : 0 .. MaxCommands]
LockTypes == current \in 0 .. MaxCommands /\ count \in 0 .. MaxCommands

BufferTypes == buffer \in [Streams -> Seq(Commands)]
FlagTypes == closed \in BOOLEAN /\ waited \in BOOLEAN /\ ended \in BOOLEAN
PrintedTypes == printed \in [Commands -> [Streams -> 0 .. MaxLines]]
Results == [status : {"", "running", "completed", "killed"}, exit : Exits,
            output : [Streams -> Seq(Commands)]]
ResultTypes == result \in [Commands -> Results]

(* All types but that a command is completed at most once. *)
BashTypeOK ==
  /\ LockTypes /\ CommandTypes /\ CallTypes /\ KillerTypes /\ PipeTypes /\ ShellTypes
  /\ BufferTypes /\ FlagTypes /\ PrintedTypes /\ ResultTypes

(* Commands are numbered as they start, and each is completed once, when it *)
(* stops being the current one.                                            *)
CompletedOnce ==
  /\ current <= count
  /\ \A n \in Commands : command[n].closes = IF n <= count /\ n # current THEN 1 ELSE 0

(* Whoever waits, and whatever is printed, is of a command that was started. *)
OfStarted ==
  /\ \A c \in Callers : call[c].of <= count
  /\ killer.of <= count
  /\ \A s \in Streams : \A m \in In(pipe[s]) : m.of <= count

(* The shell holds the current command or none; a shell that is gone holds   *)
(* none, ...                                                               *)
ShellHoldsCurrent ==
  /\ shell.running \in {0, current}
  /\ \/ shell.frames = <<>>
     \/ shell.frames = <<current>> /\ current # 0 /\ shell.running = 0
  /\ ~shell.up => shell.frames = <<>> /\ shell.running = 0

(* ... and while it holds it, the sentinels of the command are not printed. *)
Held == shell.running # 0 \/ shell.frames # <<>>

SentinelsComeLast ==
  Held =>
    \A s \in Streams : \A m \in In(pipe[s]) : m.sentinel => m.of # current

BashInv == CompletedOnce /\ OfStarted /\ ShellHoldsCurrent /\ SentinelsComeLast

-----------------------------------------------------------------------------
LEMMA TailFacts ==
  ASSUME NEW S, NEW seq \in Seq(S), seq # <<>>
  PROVE  /\ Tail(seq) \in Seq(S) /\ Head(seq) \in In(seq) /\ Head(seq) \in S
         /\ In(Tail(seq)) \subseteq In(seq)
<1>1. /\ Len(seq) \in Nat \ {0} /\ Len(Tail(seq)) = Len(seq) - 1
      /\ Tail(seq) \in Seq(S) /\ Head(seq) = seq[1]
      /\ \A i \in 1 .. Len(seq) : seq[i] \in S
      /\ \A i \in 1 .. Len(Tail(seq)) : Tail(seq)[i] = seq[i + 1]
  OBVIOUS
<1>2. \A i \in 1 .. Len(Tail(seq)) : i + 1 \in 1 .. Len(seq)
  BY <1>1
<1> QED
  BY <1>1, <1>2 DEF In

LEMMA AppendFacts ==
  ASSUME NEW S, NEW seq \in Seq(S), NEW e \in S
  PROVE  Append(seq, e) \in Seq(S) /\ In(Append(seq, e)) \subseteq In(seq) \cup {e}
<1>1. /\ Len(seq) \in Nat /\ Len(Append(seq, e)) = Len(seq) + 1
      /\ Append(seq, e) \in Seq(S) /\ Append(seq, e)[Len(seq) + 1] = e
      /\ \A i \in 1 .. Len(seq) : Append(seq, e)[i] = seq[i]
  OBVIOUS
<1>2. \A i \in 1 .. Len(seq) + 1 : i \in 1 .. Len(seq) \/ i = Len(seq) + 1
  BY <1>1
<1> QED
  BY <1>1, <1>2 DEF In

LEMMA SubSeqFacts ==
  ASSUME NEW S, NEW seq \in Seq(S), NEW k \in 0 .. Len(seq)
  PROVE  SubSeq(seq, 1, k) \in Seq(S) /\ In(SubSeq(seq, 1, k)) \subseteq In(seq)
<1>1. /\ SubSeq(seq, 1, k) \in Seq(S) /\ Len(SubSeq(seq, 1, k)) = k
      /\ \A i \in 1 .. k : SubSeq(seq, 1, k)[i] = seq[i] /\ i \in 1 .. Len(seq)
  OBVIOUS
<1> QED
  BY <1>1 DEF In

-----------------------------------------------------------------------------
(* What the readers, waitShell and the shell do to the pipes.              *)
LEMMA PipeSteps ==
  ASSUME PipeTypes, ShellTypes
  PROVE  /\ \A s \in Streams : ReadLine(s) \/ ReadSentinel(s) =>
              /\ PipeTypes' /\ \A u \in Streams : In(pipe'[u]) \subseteq In(pipe[u])
              /\ Head(pipe[s]) \in Printed /\ Head(pipe[s]) \in In(pipe[s])
         /\ WaitShell => PipeTypes' /\ \A u \in Streams : In(pipe'[u]) \subseteq In(pipe[u])
         /\ \A s \in Streams : ShellPrints(s) =>
              PipeTypes' /\ \A u \in Streams : In(pipe'[u]) \subseteq In(pipe[u]) \cup {Line(shell.running)}
         /\ CommandEnds =>
              PipeTypes' /\ \A u \in Streams : In(pipe'[u]) \subseteq In(pipe[u]) \cup {Sentinel(shell.running)}
<1> USE DEF PipeTypes, ShellTypes
<1>1. ASSUME NEW s \in Streams, ReadLine(s) \/ ReadSentinel(s)
      PROVE  /\ PipeTypes' /\ \A u \in Streams : In(pipe'[u]) \subseteq In(pipe[u])
             /\ Head(pipe[s]) \in Printed /\ Head(pipe[s]) \in In(pipe[s])
  <2>1. pipe[s] # <<>> /\ pipe' = [pipe EXCEPT ![s] = Tail(@)]
    BY <1>1, Zenon DEF ReadLine, ReadSentinel
  <2>2. /\ Tail(pipe[s]) \in Seq(Printed) /\ In(Tail(pipe[s])) \subseteq In(pipe[s])
        /\ Head(pipe[s]) \in Printed /\ Head(pipe[s]) \in In(pipe[s])
    BY <2>1, TailFacts
  <2> QED
    BY <2>1, <2>2
<1>2. ASSUME WaitShell
      PROVE  PipeTypes' /\ \A u \in Streams : In(pipe'[u]) \subseteq In(pipe[u])
  <2>1. PICK out \in 0 .. Len(pipe["stdout"]), err \in 0 .. Len(pipe["stderr"]) :
          pipe' = [stdout |-> SubSeq(pipe["stdout"], 1, out),
                   stderr |-> SubSeq(pipe["stderr"], 1, err)]
    BY <1>2 DEF WaitShell
  <2>2. pipe["stdout"] \in Seq(Printed) /\ pipe["stderr"] \in Seq(Printed)
    BY DEF Streams
  <2>3. /\ SubSeq(pipe["stdout"], 1, out) \in Seq(Printed)
        /\ In(SubSeq(pipe["stdout"], 1, out)) \subseteq In(pipe["stdout"])
    BY <2>2, SubSeqFacts
  <2>4. /\ SubSeq(pipe["stderr"], 1, err) \in Seq(Printed)
        /\ In(SubSeq(pipe["stderr"], 1, err)) \subseteq In(pipe["stderr"])
    BY <2>2, SubSeqFacts
  <2>5. DOMAIN pipe' = Streams
    BY <2>1 DEF Streams
  <2>6. pipe'["stdout"] = SubSeq(pipe["stdout"], 1, out) /\ pipe'["stderr"] = SubSeq(pipe["stderr"], 1, err)
    BY <2>1
  <2>7. pipe' \in [Streams -> Seq(Printed)]
    <3>1. pipe' = [s \in Streams |-> pipe'[s]]
      BY <2>1, <2>5 DEF Streams
    <3>2. \A s \in Streams : pipe'[s] \in Seq(Printed)
      BY <2>3, <2>4, <2>6 DEF Streams
    <3> QED
      BY <3>1, <3>2
  <2> QED
    BY <2>3, <2>4, <2>6, <2>7 DEF Streams
<1>3. ASSUME NEW s \in Streams, ShellPrints(s)
      PROVE  PipeTypes' /\ \A u \in Streams : In(pipe'[u]) \subseteq In(pipe[u]) \cup {Line(shell.running)}
  <2>1. Line(shell.running) \in Printed
    BY <1>3, BashSessionAssumption DEF ShellPrints, Line, Printed, Commands
  <2>2. pipe' = [pipe EXCEPT ![s] = Append(@, Line(shell.running))]
    BY <1>3, Zenon DEF ShellPrints
  <2>3. /\ Append(pipe[s], Line(shell.running)) \in Seq(Printed)
        /\ In(Append(pipe[s], Line(shell.running))) \subseteq In(pipe[s]) \cup {Line(shell.running)}
    BY <2>1, AppendFacts
  <2> QED
    BY <2>2, <2>3
<1>4. ASSUME CommandEnds
      PROVE  PipeTypes' /\ \A u \in Streams : In(pipe'[u]) \subseteq In(pipe[u]) \cup {Sentinel(shell.running)}
  <2>1. Sentinel(shell.running) \in Printed
    BY <1>4, BashSessionAssumption DEF CommandEnds, Sentinel, Printed, Commands
  <2>2. pipe' = [s \in Streams |-> Append(pipe[s], Sentinel(shell.running))]
    BY <1>4, Zenon DEF CommandEnds
  <2>3. \A s \in Streams :
          /\ Append(pipe[s], Sentinel(shell.running)) \in Seq(Printed)
          /\ In(Append(pipe[s], Sentinel(shell.running))) \subseteq In(pipe[s]) \cup {Sentinel(shell.running)}
    BY <2>1, AppendFacts
  <2> QED
    BY <2>2, <2>3
<1> QED
  BY <1>1, <1>2, <1>3, <1>4, Zenon

-----------------------------------------------------------------------------
(* What is left alone keeps its type, and the shapes of change that several *)
(* actions share.                                                          *)
LEMMA Kept ==
  ASSUME BashTypeOK
  PROVE  /\ UNCHANGED <<current, count>> => LockTypes'
         /\ UNCHANGED command => CommandTypes'
         /\ UNCHANGED call => CallTypes'
         /\ UNCHANGED killer => KillerTypes'
         /\ UNCHANGED pipe => PipeTypes'
         /\ UNCHANGED shell => ShellTypes'
         /\ UNCHANGED buffer => BufferTypes'
         /\ UNCHANGED <<closed, waited, ended>> => FlagTypes'
         /\ UNCHANGED printed => PrintedTypes'
         /\ UNCHANGED result => ResultTypes'
BY DEF BashTypeOK, LockTypes, CommandTypes, CallTypes, KillerTypes, PipeTypes, ShellTypes,
       BufferTypes, FlagTypes, PrintedTypes, ResultTypes

LEMMA Shapes ==
  ASSUME BashTypeOK
  PROVE  /\ \A c \in Callers : call' = [call EXCEPT ![c] = Idle] => CallTypes'
         /\ killer' = Idle => KillerTypes'
         /\ shell' = Down => ShellTypes'
         /\ current' = 0 /\ UNCHANGED count => LockTypes'
<1>1. \A c \in Callers : call' = [call EXCEPT ![c] = Idle] => CallTypes'
  BY BashSessionAssumption DEF BashTypeOK, CallTypes, Idle
<1>2. killer' = Idle => KillerTypes'
  BY BashSessionAssumption DEF KillerTypes, Idle
<1>3. shell' = Down => ShellTypes'
  BY BashSessionAssumption DEF ShellTypes, Down
<1>4. current' = 0 /\ UNCHANGED count => LockTypes'
  BY BashSessionAssumption DEF BashTypeOK, LockTypes
<1> QED
  BY <1>1, <1>2, <1>3, <1>4

LEMMA Close_Types ==
  ASSUME BashTypeOK, NEW n, NEW code \in Exits, Close_(n, code)
  PROVE  CommandTypes'
<1> DEFINE k == command[n].closes + 1
<1>1. command' = [command EXCEPT ![n] = [command[n] EXCEPT !.closes = k, !.exit = code]]
  BY Zenon DEF Close_
<1>2. command \in [Commands -> CommandRecords]
  BY DEF BashTypeOK, CommandTypes
<1>3. CASE n \in Commands
  <2>1. command[n] \in CommandRecords
    BY <1>2, <1>3
  <2>2. k \in Nat
    <3>1. command[n].closes \in Nat
      BY <2>1 DEF CommandRecords
    <3> QED
      BY <3>1
  <2> HIDE DEF k
  <2>3. [command[n] EXCEPT !.closes = k, !.exit = code] \in CommandRecords
    BY <2>1, <2>2 DEF CommandRecords
  <2> QED
    BY <1>1, <1>2, <1>3, <2>3 DEF CommandTypes
<1>4. CASE n \notin Commands
  <2>1. command' = command
    BY <1>1, <1>2, <1>4
  <2> QED
    BY <1>2, <2>1 DEF CommandTypes
<1> QED
  BY <1>3, <1>4

(* Whatever goroutines, readers and the shell do, the session's commands,   *)
(* callers, pipes, buffers and results keep their types.                    *)
LEMMA BashTypes == Spec => []BashTypeOK
<1> USE BashSessionAssumption
<1>1. Init => BashTypeOK
  <2> SUFFICES ASSUME Init
               PROVE  BashTypeOK
    OBVIOUS
  <2>1. NotStarted \in CommandRecords
    BY DEF NotStarted, CommandRecords, Exits
  <2>2. NoResult \in Results
    BY DEF NoResult, Results, Exits
  <2>3. Idle \in [pc : {"idle", "blocked", "running"}, of : 0 .. MaxCommands]
    BY DEF Idle
  <2>4. Idle \in [pc : {"idle", "waiting", "forced"}, of : 0 .. MaxCommands]
    BY DEF Idle
  <2>5. CommandTypes /\ CallTypes /\ KillerTypes /\ ResultTypes
    BY <2>1, <2>2, <2>3, <2>4 DEF Init, CommandTypes, CallTypes, KillerTypes, ResultTypes
  <2>6. LockTypes /\ FlagTypes
    <3>1. FlagTypes
      BY Zenon DEF Init, FlagTypes
    <3>2. LockTypes
      BY DEF Init, LockTypes
    <3> QED
      BY <3>1, <3>2
  <2>7. PipeTypes /\ BufferTypes
    BY DEF Init, PipeTypes, BufferTypes
  <2>8. ShellTypes
    BY DEF Init, ShellTypes
  <2>9. PrintedTypes
    <3>1. 0 \in 0 .. MaxLines
      OBVIOUS
    <3> QED
      BY <3>1 DEF Init, PrintedTypes
  <2> QED
    BY <2>5, <2>6, <2>7, <2>8, <2>9 DEF BashTypeOK
<1>2. BashTypeOK /\ [Next]_vars => BashTypeOK'
  <2> SUFFICES ASSUME BashTypeOK, [Next]_vars
               PROVE  BashTypeOK'
    OBVIOUS
  <2> USE DEF lockVars, outputVars
  <2>0. /\ LockTypes /\ CommandTypes /\ CallTypes /\ KillerTypes /\ PipeTypes /\ ShellTypes
        /\ BufferTypes /\ FlagTypes /\ PrintedTypes /\ ResultTypes
    BY DEF BashTypeOK
  <2>1. ASSUME NEW c \in Callers, RunBlocks(c)
        PROVE  BashTypeOK'
    <3>1. CallTypes'
      BY <2>0, <2>1 DEF RunBlocks, CallTypes, LockTypes
    <3> QED
      BY <2>1, <3>1, Kept DEF RunBlocks, BashTypeOK
  <2>2. ASSUME NEW c \in Callers, RunFindsClosed(c)
        PROVE  BashTypeOK'
    BY <2>2, Kept, Shapes DEF RunFindsClosed, BashTypeOK
  <2>3. ASSUME NEW c \in Callers, RunStarts(c)
        PROVE  BashTypeOK'
    <3>1. count' \in Commands /\ count' = current' /\ LockTypes'
      BY <2>0, <2>3 DEF RunStarts, Commands, LockTypes
    <3>2. CommandTypes'
      <4>1. [s \in Streams |-> Len(buffer[s])] \in [Streams -> Nat]
        BY <2>0 DEF BufferTypes
      <4>2. command' = [command EXCEPT ![count'].start = [s \in Streams |-> Len(buffer[s])]]
        BY <2>3, Zenon DEF RunStarts
      <4> QED
        BY <2>0, <4>1, <4>2, <3>1 DEF CommandTypes, CommandRecords
    <3>3. CallTypes'
      BY <2>0, <2>3, <3>1 DEF RunStarts, Commands, CallTypes
    <3>4. ShellTypes'
      <4>1. shell' = [shell EXCEPT !.frames = Append(@, count')]
        BY <2>3, Zenon DEF RunStarts
      <4>2. Append(shell.frames, count') \in Seq(Commands)
        BY <2>0, <3>1 DEF ShellTypes
      <4> QED
        BY <2>0, <4>1, <4>2 DEF ShellTypes
    <3>5. UNCHANGED <<closed, killer, outputVars, waited, ended, result>>
      BY <2>3, Zenon DEF RunStarts
    <3> QED
      BY <3>1, <3>2, <3>3, <3>4, <3>5, Kept DEF BashTypeOK
  <2>4. ASSUME NEW c \in Callers, RunIsRefused(c)
        PROVE  BashTypeOK'
    <3>1. count' \in Commands /\ LockTypes'
      <4>1. count < MaxCommands /\ count' = count + 1 /\ current' = current
        BY <2>4, Zenon DEF RunIsRefused
      <4> QED
        BY <2>0, <4>1 DEF Commands, LockTypes
    <3>2. CommandTypes'
      <4>1. Close_(count', "") /\ "" \in Exits
        BY <2>4, Zenon DEF RunIsRefused, Exits
      <4> QED
        BY <4>1, Close_Types, Zenon
    <3>3. ResultTypes'
      <4>1. result' = [result EXCEPT ![count'].status = "killed"]
        BY <2>4, Zenon DEF RunIsRefused
      <4> QED
        BY <2>0, <4>1 DEF ResultTypes, Results
    <3>4. UNCHANGED <<closed, killer, outputVars, shell, waited, ended>> /\ call' = [call EXCEPT ![c] = Idle]
      BY <2>4, Zenon DEF RunIsRefused
    <3> QED
      BY <3>1, <3>2, <3>3, <3>4, Kept, Shapes DEF BashTypeOK
  <2>5. ASSUME NEW c \in Callers, RunTimesOut(c)
        PROVE  BashTypeOK'
    <3>1. ResultTypes'
      BY <2>0, <2>5 DEF RunTimesOut, ResultTypes, Results
    <3> QED
      BY <2>5, <3>1, Kept, Shapes DEF RunTimesOut, BashTypeOK
  <2>6. ASSUME NEW c \in Callers, RunReturns(c)
        PROVE  BashTypeOK'
    <3> DEFINE n == call[c].of
    <3>1. result' = [result EXCEPT ![n] =
            [status |-> "completed", exit |-> command[n].exit, output |-> Snapshot(n)]]
      BY <2>6, Zenon DEF RunReturns
    <3>2. ASSUME n \in Commands
          PROVE  [status |-> "completed", exit |-> command[n].exit, output |-> Snapshot(n)] \in Results
      <4>1. command[n].start \in [Streams -> Nat] /\ command[n].exit \in Exits
        BY <2>0, <3>2 DEF CommandTypes, CommandRecords
      <4>2. ASSUME NEW s \in Streams
            PROVE  SubSeq(buffer[s], command[n].start[s] + 1, Len(buffer[s])) \in Seq(Commands)
        <5>1. buffer[s] \in Seq(Commands) /\ command[n].start[s] \in Nat
          BY <2>0, <4>1 DEF BufferTypes
        <5> QED
          BY <5>1
      <4>3. Snapshot(n) \in [Streams -> Seq(Commands)]
        BY <4>2 DEF Snapshot
      <4> QED
        BY <4>1, <4>3 DEF Results
    <3>3. ResultTypes'
      <4> HIDE DEF n
      <4>1. CASE n \in Commands
        BY <2>0, <3>1, <3>2, <4>1 DEF ResultTypes
      <4>2. CASE n \notin Commands
        BY <2>0, <3>1, <4>2 DEF ResultTypes
      <4> QED
        BY <4>1, <4>2
    <3>4. UNCHANGED <<lockVars, killer, outputVars, shell, waited, ended>> /\ call' = [call EXCEPT ![c] = Idle]
      BY <2>6, Zenon DEF RunReturns
    <3> QED
      BY <3>3, <3>4, Kept, Shapes DEF BashTypeOK
  <2>7. CASE Kill
    <3>1. KillerTypes'
      BY <2>0, <2>7 DEF Kill, KillerTypes, LockTypes
    <3> QED
      BY <2>7, <3>1, Kept DEF Kill, BashTypeOK
  <2>8. CASE KillForces
    <3>1. KillerTypes'
      BY <2>0, <2>8 DEF KillForces, KillerTypes
    <3> QED
      BY <2>8, <3>1, Kept, Shapes DEF KillForces, BashTypeOK
  <2>9. CASE KillReturns
    <3>1. FlagTypes'
      BY <2>0, <2>9 DEF KillReturns, FlagTypes
    <3> QED
      BY <2>9, <3>1, Kept, Shapes DEF KillReturns, BashTypeOK
  <2>10. CASE Close
    <3>1. FlagTypes'
      BY <2>0, <2>10 DEF Close, FlagTypes
    <3> QED
      BY <2>10, <3>1, Kept, Shapes DEF Close, BashTypeOK
  <2>11. ASSUME NEW s \in Streams, ReadLine(s) \/ ReadSentinel(s)
         PROVE  BashTypeOK'
    <3>1. PipeTypes' /\ Head(pipe[s]) \in Printed
      BY <2>0, <2>11, PipeSteps
    <3>2. BufferTypes'
      <4>1. buffer' = buffer \/ buffer' = [buffer EXCEPT ![s] = Append(@, Head(pipe[s]).of)]
        BY <2>11, Zenon DEF ReadLine, ReadSentinel
      <4>2. buffer[s] \in Seq(Commands) /\ Head(pipe[s]).of \in Commands
        BY <2>0, <3>1 DEF BufferTypes, Printed
      <4>3. Append(buffer[s], Head(pipe[s]).of) \in Seq(Commands)
        BY <4>2
      <4> QED
        BY <2>0, <4>1, <4>3 DEF BufferTypes
    <3>3. CommandTypes'
      <4>1. \/ command' = command
            \/ Close_(current, "own")
            \/ command' = [command EXCEPT ![current].sentinels = @ \cup {s}]
        BY <2>11, Zenon DEF ReadLine, ReadSentinel, Complete
      <4>2. ASSUME command' = [command EXCEPT ![current].sentinels = @ \cup {s}]
            PROVE  CommandTypes'
        BY <2>0, <4>2 DEF CommandTypes, CommandRecords
      <4> QED
        <5>1. "own" \in Exits
          BY DEF Exits
        <5> QED
          BY <4>1, <4>2, <5>1, Close_Types, Kept, Zenon
    <3>4. (current' = current \/ current' = 0) /\ UNCHANGED <<closed, count, call, killer, shell, waited, ended, printed, result>>
      BY <2>11, Zenon DEF ReadLine, ReadSentinel, Complete
    <3>5. LockTypes'
      BY <3>4, Kept, Shapes
    <3> QED
      BY <3>1, <3>2, <3>3, <3>4, <3>5, Kept DEF BashTypeOK
  <2>12. ASSUME NEW s \in Streams, ShellPrints(s)
         PROVE  BashTypeOK'
    <3>1. PipeTypes'
      BY <2>0, <2>12, PipeSteps
    <3>2. PrintedTypes'
      <4> DEFINE r == shell.running
      <4>1. r \in Commands
        BY <2>0, <2>12 DEF ShellPrints, Commands, ShellTypes
      <4>2. printed[r] \in [Streams -> 0 .. MaxLines]
        BY <2>0, <4>1 DEF PrintedTypes
      <4>3. printed[r]["stdout"] + printed[r]["stderr"] < MaxLines
        BY <2>12 DEF ShellPrints
      <4>4. printed' = [printed EXCEPT ![r][s] = @ + 1]
        BY <2>12, Zenon DEF ShellPrints
      <4> HIDE DEF r
      <4>5. printed[r][s] + 1 \in 0 .. MaxLines
        BY <4>2, <4>3, BashSessionAssumption DEF Streams
      <4>6. [printed[r] EXCEPT ![s] = @ + 1] \in [Streams -> 0 .. MaxLines]
        BY <4>2, <4>5
      <4> QED
        BY <2>0, <4>1, <4>4, <4>6 DEF PrintedTypes
    <3> QED
      BY <2>12, <3>1, <3>2, Kept DEF ShellPrints, BashTypeOK
  <2>13. CASE WaitShell
    <3>1. PipeTypes'
      BY <2>0, <2>13, PipeSteps
    <3>2. (Close_(current, "shell") /\ current' = 0) \/ UNCHANGED <<command, current>>
      BY <2>13, Zenon DEF WaitShell, Reaped
    <3>3. UNCHANGED <<count, call, killer, buffer, shell, ended, printed, result>> /\ waited' = TRUE /\ closed' = TRUE
      BY <2>13, Zenon DEF WaitShell
    <3>4. CommandTypes' /\ LockTypes'
      <4>1. "shell" \in Exits
        BY DEF Exits
      <4>2. CommandTypes'
        BY <3>2, <4>1, Close_Types, Kept, Zenon
      <4> QED
        BY <3>2, <3>3, <4>2, Kept, Shapes
    <3>5. FlagTypes'
      BY <2>0, <3>3 DEF FlagTypes
    <3> QED
      BY <3>1, <3>3, <3>4, <3>5, Kept DEF BashTypeOK
  <2>14. CASE ShellReads
    <3>1. shell.frames # <<>> /\ shell' = [shell EXCEPT !.running = Head(shell.frames), !.frames = Tail(@)]
      BY <2>14, Zenon DEF ShellReads
    <3>2. Head(shell.frames) \in Commands /\ Tail(shell.frames) \in Seq(Commands)
      BY <2>0, <3>1 DEF ShellTypes
    <3>3. ShellTypes'
      <4>1. Head(shell.frames) \in 0 .. MaxCommands
        BY <3>2 DEF Commands
      <4>2. shell' = [shell EXCEPT !.frames = Tail(shell.frames), !.running = Head(shell.frames)]
        BY <3>1
      <4> QED
        BY <2>0, <3>2, <4>1, <4>2 DEF ShellTypes
    <3> QED
      BY <2>14, <3>3, Kept DEF ShellReads, BashTypeOK
  <2>15. CASE CommandEnds
    <3>1. PipeTypes'
      BY <2>0, <2>15, PipeSteps
    <3>2. ShellTypes'
      BY <2>0, <2>15, BashSessionAssumption DEF CommandEnds, ShellTypes
    <3> QED
      BY <2>15, <3>1, <3>2, Kept DEF CommandEnds, BashTypeOK
  <2>16. CASE ShellExits
    BY <2>16, Kept, Shapes DEF ShellExits, BashTypeOK
  <2>17. CASE UNCHANGED vars
    BY <2>17, Kept DEF vars, BashTypeOK
  <2> QED
    BY <2>1, <2>2, <2>3, <2>4, <2>5, <2>6, <2>7, <2>8, <2>9, <2>10, <2>11, <2>12, <2>13,
       <2>14, <2>15, <2>16, <2>17 DEF Next, Run
<1> QED
  BY <1>1, <1>2, PTL DEF Spec
-----------------------------------------------------------------------------
(* What an action does to the number of times commands are completed.      *)
LEMMA Completions ==
  ASSUME BashTypeOK
  PROVE  /\ \A n \in Commands : \A e : Close_(n, e) =>
              \A m \in Commands :
                command'[m].closes = IF m = n THEN command[m].closes + 1 ELSE command[m].closes
         /\ \A n, x : command' = [command EXCEPT ![n].start = x] =>
              \A m \in Commands : command'[m].closes = command[m].closes
         /\ \A n, x : command' = [command EXCEPT ![n].sentinels = x] =>
              \A m \in Commands : command'[m].closes = command[m].closes
<1>1. /\ command \in [Commands -> CommandRecords]
      /\ \A n \in Commands : command[n].closes \in Nat
  BY DEF BashTypeOK, CommandTypes, CommandRecords
<1>2. ASSUME NEW n \in Commands, NEW e, Close_(n, e), NEW m \in Commands
      PROVE  command'[m].closes = IF m = n THEN command[m].closes + 1 ELSE command[m].closes
  BY <1>1, <1>2 DEF Close_, CommandRecords
<1>3. ASSUME NEW n, NEW x, command' = [command EXCEPT ![n].start = x], NEW m \in Commands
      PROVE  command'[m].closes = command[m].closes
  BY <1>1, <1>3 DEF CommandRecords
<1>4. ASSUME NEW n, NEW x, command' = [command EXCEPT ![n].sentinels = x], NEW m \in Commands
      PROVE  command'[m].closes = command[m].closes
  BY <1>1, <1>4 DEF CommandRecords
<1> QED
  BY <1>2, <1>3, <1>4, Zenon

LEMMA PipeNumbers ==
  ASSUME BashTypeOK, BashInv
  PROVE  \A s \in Streams : \A m \in In(pipe[s]) : m.of \in Nat /\ m.of <= count
<1> SUFFICES ASSUME NEW s \in Streams, NEW m \in In(pipe[s])
             PROVE  m.of \in Nat /\ m.of <= count
  OBVIOUS
<1>1. pipe[s] \in Seq(Printed)
  BY DEF BashTypeOK, PipeTypes
<1>2. m \in Printed
  BY <1>1 DEF In
<1>3. m.of \in Nat
  BY <1>2, BashSessionAssumption DEF Printed, Commands
<1> QED
  BY <1>3 DEF BashInv, OfStarted

(* Only the callers, or kill, have moved. *)
LEMMA OnlyWaiting ==
  ASSUME BashTypeOK, BashInv, UNCHANGED <<current, command, count, pipe, shell>>,
         \/ call' = call
         \/ \E c \in Callers, x \in [pc : {"idle", "blocked", "running"}, of : 0 .. count] :
              call' = [call EXCEPT ![c] = x],
         killer' = killer \/ killer'.of <= count
  PROVE  BashInv'
<1>1. CompletedOnce' /\ ShellHoldsCurrent' /\ SentinelsComeLast'
  BY DEF BashInv, CompletedOnce, ShellHoldsCurrent, SentinelsComeLast, Held
<1>2. \A c \in Callers : call'[c].of <= count
  <2>1. CASE call' = call
    BY <2>1 DEF BashInv, OfStarted
  <2>2. ASSUME NEW c \in Callers, NEW x \in [pc : {"idle", "blocked", "running"}, of : 0 .. count],
               call' = [call EXCEPT ![c] = x]
        PROVE  \A d \in Callers : call'[d].of <= count
    <3>1. x.of <= count /\ \A d \in Callers : call[d].of <= count
      BY DEF BashInv, OfStarted
    <3>2. \A d \in Callers : call'[d] = IF d = c THEN x ELSE call[d]
      BY <2>2 DEF BashTypeOK, CallTypes
    <3> QED
      BY <3>1, <3>2
  <2> QED
    BY <2>1, <2>2
<1>3. OfStarted'
  BY <1>2 DEF BashInv, OfStarted
<1> QED
  BY <1>1, <1>3 DEF BashInv

(* The shell is gone. *)
LEMMA GoesDown ==
  ASSUME BashTypeOK, BashInv, shell' = Down,
         UNCHANGED <<current, command, count, pipe, call>>, killer'.of = killer.of
  PROVE  BashInv'
<1>1. CompletedOnce' /\ OfStarted'
  BY DEF BashInv, CompletedOnce, OfStarted
<1>2. ShellHoldsCurrent' /\ SentinelsComeLast'
  BY DEF Down, ShellHoldsCurrent, SentinelsComeLast, Held
<1> QED
  BY <1>1, <1>2 DEF BashInv

(* The current command is completed and nothing is in the shell. *)
LEMMA CurrentCompleted ==
  ASSUME BashTypeOK, BashInv, current # 0, ~Held, NEW e, Close_(current, e), current' = 0,
         UNCHANGED <<count, shell, call, killer>>,
         \A u \in Streams : In(pipe'[u]) \subseteq In(pipe[u])
  PROVE  BashInv'
<1>1. current \in Commands /\ count \in Nat /\ current <= count
  BY BashSessionAssumption DEF BashTypeOK, LockTypes, Commands, BashInv, CompletedOnce
<1>2. CompletedOnce'
  <2>1. \A m \in Commands :
          command'[m].closes = IF m = current THEN command[m].closes + 1 ELSE command[m].closes
    BY <1>1, Completions
  <2>2. ASSUME NEW m \in Commands
        PROVE  command'[m].closes = IF m <= count' /\ m # current' THEN 1 ELSE 0
    <3>1. command[m].closes = IF m <= count /\ m # current THEN 1 ELSE 0
      BY DEF BashInv, CompletedOnce
    <3>2. m \in Nat /\ m # 0
      BY BashSessionAssumption DEF Commands
    <3> QED
      BY <1>1, <2>1, <3>1, <3>2
  <2> QED
    BY <1>1, <2>2 DEF CompletedOnce
<1>3. OfStarted'
  BY DEF BashInv, OfStarted
<1>4. ShellHoldsCurrent' /\ SentinelsComeLast'
  BY DEF BashInv, ShellHoldsCurrent, SentinelsComeLast, Held
<1> QED
  BY <1>2, <1>3, <1>4 DEF BashInv

(* The invariant: every command that was started and is not the current one *)
(* has been completed, once; the shell holds the current one or none; and   *)
(* its sentinels come when the shell has let it go.                        *)
LEMMA BashInvariant == Spec => []BashInv
<1>1. Init => BashInv
  <2> SUFFICES ASSUME Init
               PROVE  BashInv
    OBVIOUS
  <2>1. CompletedOnce
    <3>1. \A n \in Commands : command[n].closes = 0
      BY DEF Init, NotStarted
    <3>2. current = 0 /\ count = 0
      BY DEF Init
    <3>3. \A n \in Commands : n \in Nat /\ ~(n <= 0)
      BY BashSessionAssumption DEF Commands
    <3> QED
      BY <3>1, <3>2, <3>3 DEF CompletedOnce
  <2>2. OfStarted
    <3>1. \A s \in Streams : In(pipe[s]) = {}
      BY DEF Init, In
    <3> QED
      BY <3>1 DEF Init, Idle, OfStarted
  <2>3. ShellHoldsCurrent /\ SentinelsComeLast
    BY DEF Init, ShellHoldsCurrent, SentinelsComeLast, Held
  <2> QED
    BY <2>1, <2>2, <2>3 DEF BashInv
<1>2. BashTypeOK /\ BashInv /\ [Next]_vars => BashInv'
  <2> SUFFICES ASSUME BashTypeOK, BashInv, [Next]_vars
               PROVE  BashInv'
    OBVIOUS
  <2> USE DEF lockVars, outputVars
  <2>0. /\ LockTypes /\ CallTypes /\ KillerTypes /\ PipeTypes /\ ShellTypes
        /\ CompletedOnce /\ OfStarted /\ ShellHoldsCurrent /\ SentinelsComeLast
        /\ current \in Nat /\ count \in Nat /\ current <= count
    BY BashSessionAssumption DEF BashTypeOK, BashInv, LockTypes, CompletedOnce
  <2>a. Idle \in [pc : {"idle", "blocked", "running"}, of : 0 .. count] /\ Idle.of <= count
    BY <2>0 DEF Idle
  <2>1. ASSUME NEW c \in Callers, RunBlocks(c)
        PROVE  BashInv'
    <3>1. [pc |-> "blocked", of |-> current] \in [pc : {"idle", "blocked", "running"}, of : 0 .. count]
      BY <2>0
    <3>2. /\ call' = [call EXCEPT ![c] = [pc |-> "blocked", of |-> current]]
          /\ UNCHANGED <<current, command, count, pipe, shell, killer>>
      BY <2>1, Zenon DEF RunBlocks
    <3> QED
      BY <3>1, <3>2, OnlyWaiting
  <2>2. ASSUME NEW c \in Callers, RunFindsClosed(c) \/ RunTimesOut(c) \/ RunReturns(c)
        PROVE  BashInv'
    <3>1. call' = [call EXCEPT ![c] = Idle] /\ UNCHANGED <<current, command, count, pipe, shell, killer>>
      BY <2>2, Zenon DEF RunFindsClosed, RunTimesOut, RunReturns
    <3> QED
      BY <2>a, <3>1, OnlyWaiting
  <2>3. ASSUME NEW c \in Callers, RunStarts(c)
        PROVE  BashInv'
    <3>1. /\ current = 0 /\ shell.up /\ count' = count + 1 /\ current' = count' /\ count < MaxCommands
          /\ command' = [command EXCEPT ![count'].start = [s \in Streams |-> Len(buffer[s])]]
          /\ shell' = [shell EXCEPT !.frames = Append(@, count')]
          /\ call' = [call EXCEPT ![c] = [pc |-> "running", of |-> count']]
          /\ UNCHANGED <<killer, pipe>>
      BY <2>3, Zenon DEF RunStarts
    <3>2. count' \in Nat /\ count' # 0 /\ count' > count
      BY <2>0, <3>1
    <3>3. CompletedOnce'
      <4>1. \A m \in Commands : command'[m].closes = command[m].closes
        BY <3>1, Completions
      <4>2. ASSUME NEW m \in Commands
            PROVE  command'[m].closes = IF m <= count' /\ m # current' THEN 1 ELSE 0
        <5>1. m \in Nat /\ m # 0
          BY BashSessionAssumption DEF Commands
        <5>2. command[m].closes = IF m <= count /\ m # current THEN 1 ELSE 0
          BY <2>0 DEF CompletedOnce
        <5> QED
          BY <2>0, <3>1, <4>1, <5>1, <5>2
      <4> QED
        BY <3>1, <3>2, <4>2 DEF CompletedOnce
    <3>4. OfStarted'
      <4>1. \A d \in Callers : call'[d].of <= count'
        BY <2>0, <3>1, <3>2 DEF OfStarted, CallTypes
      <4>2. killer'.of <= count'
        BY <2>0, <3>1, <3>2 DEF OfStarted, KillerTypes
      <4>3. \A s \in Streams : \A m \in In(pipe'[s]) : m.of <= count'
        <5>1. \A s \in Streams : \A m \in In(pipe[s]) : m.of \in Nat /\ m.of <= count
          BY PipeNumbers
        <5> QED
          BY <2>0, <3>1, <3>2, <5>1
      <4> QED
        BY <4>1, <4>2, <4>3 DEF OfStarted
    <3>5. ShellHoldsCurrent'
      <4>1. shell.frames = <<>> /\ shell.running = 0
        BY <2>0, <3>1 DEF ShellHoldsCurrent
      <4>2. shell'.frames = <<count'>> /\ shell'.running = 0 /\ shell'.up
        BY <2>0, <3>1, <4>1 DEF ShellTypes
      <4> QED
        BY <3>1, <3>2, <4>2 DEF ShellHoldsCurrent
    <3>6. SentinelsComeLast'
      <4>1. \A s \in Streams : \A m \in In(pipe'[s]) : m.of # current'
        <5>1. \A s \in Streams : \A m \in In(pipe[s]) : m.of \in Nat /\ m.of <= count
          BY PipeNumbers
        <5> QED
          BY <2>0, <3>1, <3>2, <5>1
      <4> QED
        BY <4>1 DEF SentinelsComeLast
    <3> QED
      BY <3>3, <3>4, <3>5, <3>6 DEF BashInv
  <2>4. ASSUME NEW c \in Callers, RunIsRefused(c)
        PROVE  BashInv'
    <3>1. /\ current = 0 /\ current' = current /\ count' = count + 1 /\ count < MaxCommands
          /\ Close_(count', "")
          /\ call' = [call EXCEPT ![c] = Idle]
          /\ UNCHANGED <<killer, pipe, shell>>
      BY <2>4, Zenon DEF RunIsRefused
    <3>2. count' \in Commands /\ count' > count
      <4>1. count' = count + 1 /\ count < MaxCommands
        BY <3>1, Zenon
      <4> QED
        BY <2>0, <4>1, BashSessionAssumption DEF Commands
    <3>3. CompletedOnce'
      <4>1. \A m \in Commands :
              command'[m].closes = IF m = count' THEN command[m].closes + 1 ELSE command[m].closes
        BY <3>1, <3>2, Completions, Zenon
      <4> HIDE DEF Close_
      <4>2. current = 0 /\ current' = 0 /\ count' = count + 1
        BY <3>1, Zenon
      <4>3. ASSUME NEW m \in Commands
            PROVE  command'[m].closes = IF m <= count' /\ m # current' THEN 1 ELSE 0
        <5>1. m \in Nat /\ m # 0
          BY BashSessionAssumption DEF Commands
        <5>2. command[m].closes = IF m <= count /\ m # current THEN 1 ELSE 0
          BY <2>0 DEF CompletedOnce
        <5> QED
          BY <2>0, <4>1, <4>2, <5>1, <5>2
      <4> QED
        BY <2>0, <4>2, <4>3 DEF CompletedOnce
    <3>4. OfStarted'
      <4>0. call' = [call EXCEPT ![c] = Idle] /\ UNCHANGED <<killer, pipe>> /\ count' = count + 1
        BY <3>1, Zenon
      <4>1. \A d \in Callers : call'[d].of <= count'
        BY <2>0, <4>0 DEF OfStarted, CallTypes, Idle
      <4>2. killer'.of <= count'
        BY <2>0, <4>0 DEF OfStarted, KillerTypes
      <4>3. \A s \in Streams : \A m \in In(pipe'[s]) : m.of <= count'
        <5>1. \A s \in Streams : \A m \in In(pipe[s]) : m.of \in Nat /\ m.of <= count
          BY PipeNumbers
        <5> QED
          BY <2>0, <4>0, <5>1
      <4> QED
        BY <4>1, <4>2, <4>3 DEF OfStarted
    <3>5. ShellHoldsCurrent' /\ SentinelsComeLast'
      <4>1. UNCHANGED <<current, pipe, shell>>
        BY <3>1, Zenon
      <4> QED
        BY <2>0, <4>1 DEF ShellHoldsCurrent, SentinelsComeLast, Held
    <3> QED
      BY <3>3, <3>4, <3>5 DEF BashInv
  <2>5. CASE Kill
    <3>1. UNCHANGED <<current, command, count, pipe, shell, call>> /\ killer'.of <= count
      BY <2>0, <2>5 DEF Kill
    <3> QED
      BY <3>1, OnlyWaiting
  <2>6. CASE KillForces
    <3>1. killer'.of = killer.of
      BY <2>0, <2>6 DEF KillForces, KillerTypes
    <3>2. shell' = Down /\ UNCHANGED <<current, command, count, pipe, call>>
      BY <2>6, Zenon DEF KillForces
    <3> QED
      BY <3>1, <3>2, GoesDown
  <2>7. CASE KillReturns
    <3>1. UNCHANGED <<current, command, count, pipe, shell, call>> /\ killer' = Idle
      BY <2>7, Zenon DEF KillReturns
    <3> QED
      BY <2>a, <3>1, OnlyWaiting
  <2>8. CASE Close \/ ShellExits
    <3>1. shell' = Down /\ UNCHANGED <<current, command, count, pipe, call, killer>>
      BY <2>8, Zenon DEF Close, ShellExits
    <3> QED
      BY <3>1, GoesDown
  <2>9. ASSUME NEW s \in Streams, ReadLine(s) \/ ReadSentinel(s)
        PROVE  BashInv'
    <3>1. /\ \A u \in Streams : In(pipe'[u]) \subseteq In(pipe[u])
          /\ Head(pipe[s]) \in Printed /\ Head(pipe[s]) \in In(pipe[s])
      BY <2>0, <2>9, PipeSteps
    <3>2. UNCHANGED <<count, call, killer, shell>>
      BY <2>9, Zenon DEF ReadLine, ReadSentinel
    <3>3. CASE UNCHANGED current /\ \A m \in Commands : command'[m].closes = command[m].closes
      <4>1. CompletedOnce'
        BY <2>0, <3>2, <3>3 DEF CompletedOnce
      <4>2. OfStarted'
        BY <2>0, <3>1, <3>2 DEF OfStarted
      <4>3. ShellHoldsCurrent' /\ SentinelsComeLast'
        BY <2>0, <3>1, <3>2, <3>3 DEF ShellHoldsCurrent, SentinelsComeLast, Held
      <4> QED
        BY <4>1, <4>2, <4>3 DEF BashInv
    <3>4. CASE Head(pipe[s]).sentinel /\ current = Head(pipe[s]).of /\ Complete
      <4>1. current # 0
        BY <3>1, <3>4, BashSessionAssumption DEF Printed, Commands
      <4>2. ~Held
        BY <2>0, <3>1, <3>4 DEF SentinelsComeLast
      <4>3. Close_(current, "own") /\ current' = 0
        BY <3>4, Zenon DEF Complete
      <4> QED
        BY <3>1, <3>2, <4>1, <4>2, <4>3, CurrentCompleted
    <3>5. \/ UNCHANGED <<command, current>>
          \/ UNCHANGED current /\ command' = [command EXCEPT ![current].sentinels = @ \cup {s}]
          \/ Head(pipe[s]).sentinel /\ current = Head(pipe[s]).of /\ Complete
      BY <2>9, Zenon DEF ReadLine, ReadSentinel
    <3>6. command' = [command EXCEPT ![current].sentinels = @ \cup {s}] =>
            \A m \in Commands : command'[m].closes = command[m].closes
      BY Completions
    <3> QED
      BY <3>3, <3>4, <3>5, <3>6
  <2>10. ASSUME NEW s \in Streams, ShellPrints(s)
         PROVE  BashInv'
    <3>1. \A u \in Streams : In(pipe'[u]) \subseteq In(pipe[u]) \cup {Line(shell.running)}
      BY <2>0, <2>10, PipeSteps
    <3>2. UNCHANGED <<current, command, count, call, killer, shell>> /\ shell.running # 0
      BY <2>10, Zenon DEF ShellPrints
    <3>3. Line(shell.running).of <= count /\ ~Line(shell.running).sentinel
      BY <2>0, <3>2 DEF Line, ShellHoldsCurrent
    <3>4. OfStarted'
      BY <2>0, <3>1, <3>2, <3>3 DEF OfStarted
    <3>5. CompletedOnce' /\ ShellHoldsCurrent'
      BY <2>0, <3>2 DEF CompletedOnce, ShellHoldsCurrent
    <3>6. SentinelsComeLast'
      BY <2>0, <3>1, <3>2, <3>3 DEF SentinelsComeLast, Held
    <3> QED
      BY <3>4, <3>5, <3>6 DEF BashInv
  <2>11. CASE WaitShell
    <3>1. \A u \in Streams : In(pipe'[u]) \subseteq In(pipe[u])
      BY <2>0, <2>11, PipeSteps
    <3>2. ~shell.up /\ UNCHANGED <<count, call, killer, shell>>
      BY <2>11, Zenon DEF WaitShell
    <3>3. ~Held
      BY <2>0, <3>2 DEF ShellHoldsCurrent, Held
    <3>4. CASE current # 0 /\ Close_(current, "shell") /\ current' = 0
      BY <3>1, <3>2, <3>3, <3>4, CurrentCompleted
    <3>5. CASE UNCHANGED <<command, current>>
      <4>1. CompletedOnce' /\ OfStarted'
        BY <2>0, <3>1, <3>2, <3>5 DEF CompletedOnce, OfStarted
      <4>2. ShellHoldsCurrent' /\ SentinelsComeLast'
        BY <2>0, <3>2, <3>3, <3>5 DEF ShellHoldsCurrent, SentinelsComeLast, Held
      <4> QED
        BY <4>1, <4>2 DEF BashInv
    <3> QED
      BY <2>11, <3>4, <3>5, Zenon DEF WaitShell, Reaped
  <2>12. CASE ShellReads
    <3>1. /\ shell.up /\ shell.frames # <<>>
          /\ shell' = [shell EXCEPT !.running = Head(shell.frames), !.frames = Tail(@)]
          /\ UNCHANGED <<current, command, count, call, killer, pipe>>
      BY <2>12, Zenon DEF ShellReads
    <3>2. shell.frames = <<current>> /\ current # 0
      BY <2>0, <3>1 DEF ShellHoldsCurrent
    <3>3. Head(shell.frames) = current /\ Tail(shell.frames) = <<>>
      BY <3>2
    <3>4. shell'.running = current /\ shell'.frames = <<>> /\ shell'.up
      BY <2>0, <3>1, <3>3 DEF ShellTypes
    <3>5. CompletedOnce' /\ OfStarted'
      BY <2>0, <3>1 DEF CompletedOnce, OfStarted
    <3>6. ShellHoldsCurrent'
      BY <3>1, <3>4 DEF ShellHoldsCurrent
    <3>7. SentinelsComeLast'
      BY <2>0, <3>1 DEF SentinelsComeLast, Held
    <3> QED
      BY <3>5, <3>6, <3>7 DEF BashInv
  <2>13. CASE CommandEnds
    <3>1. \A u \in Streams : In(pipe'[u]) \subseteq In(pipe[u]) \cup {Sentinel(shell.running)}
      BY <2>0, <2>13, PipeSteps
    <3>2. /\ shell.running # 0 /\ shell' = [shell EXCEPT !.running = 0]
          /\ UNCHANGED <<current, command, count, call, killer>>
      BY <2>13, Zenon DEF CommandEnds
    <3>3. Sentinel(shell.running).of <= count
      BY <2>0, <3>2 DEF Sentinel, ShellHoldsCurrent
    <3>4. shell'.running = 0 /\ shell'.frames = <<>>
      BY <2>0, <3>2 DEF ShellTypes, ShellHoldsCurrent
    <3>5. CompletedOnce'
      BY <2>0, <3>2 DEF CompletedOnce
    <3>6. OfStarted'
      BY <2>0, <3>1, <3>2, <3>3 DEF OfStarted
    <3>7. ShellHoldsCurrent' /\ SentinelsComeLast'
      BY <3>4 DEF ShellHoldsCurrent, SentinelsComeLast, Held
    <3> QED
      BY <3>5, <3>6, <3>7 DEF BashInv
  <2>14. CASE UNCHANGED vars
    BY <2>0, <2>14 DEF vars, BashInv, CompletedOnce, OfStarted, ShellHoldsCurrent, SentinelsComeLast, Held
  <2> QED
    BY <2>1, <2>2, <2>3, <2>4, <2>5, <2>6, <2>7, <2>8, <2>9, <2>10, <2>11, <2>12, <2>13, <2>14
       DEF Next, Run
<1> QED
  BY <1>1, <1>2, BashTypes, PTL DEF Spec

-----------------------------------------------------------------------------
(* Every value of the session is of its type at all times, and no done      *)
(* channel is closed twice, which would panic: the two readers, waitShell   *)
(* and a refused write never complete the same command.                    *)
THEOREM TypeCorrect == Spec => []TypeOK
<1>1. BashTypeOK /\ BashInv => TypeOK
  <2> SUFFICES ASSUME BashTypeOK, BashInv
               PROVE  TypeOK
    OBVIOUS
  <2>1. \A n \in Commands : command[n].closes \in 0 .. 1
    BY DEF BashInv, CompletedOnce
  <2>2. command \in [Commands -> [start : [Streams -> Nat], sentinels : SUBSET Streams,
                                  exit : Exits, closes : 0 .. 1]]
    BY <2>1 DEF BashTypeOK, CommandTypes, CommandRecords
  <2>3. \A s \in Streams : buffer[s] \in Seq(Commands) /\ pipe[s] \in Seq(Printed)
    BY DEF BashTypeOK, BufferTypes, PipeTypes
  <2> QED
    BY <2>2, <2>3, Zenon DEF TypeOK, BashTypeOK, LockTypes, CallTypes, KillerTypes, ShellTypes,
       FlagTypes, PrintedTypes, ResultTypes, Results, Exits, Printed
<1> QED
  BY <1>1, BashTypes, BashInvariant, PTL

(* run (bash_session.go): however callers time out, wait and retry, and     *)
(* whatever kill, close and the end of the shell do meanwhile, the shell    *)
(* never has two commands and the one it has is the session's current one. *)
THEOREM OneAtATime == Spec => []OneCommandAtATime
<1>1. BashTypeOK /\ BashInv => OneCommandAtATime
  <2> SUFFICES ASSUME BashTypeOK, BashInv
               PROVE  OneCommandAtATime
    OBVIOUS
  <2>1. shell.frames = <<>> \/ shell.frames = <<current>>
    BY DEF BashInv, ShellHoldsCurrent
  <2>2. Len(shell.frames) <= 1 /\ \A i \in DOMAIN shell.frames : shell.frames[i] = current
    <3> DEFINE f == shell.frames
    <3>1. CASE f = <<>>
      BY <3>1
    <3>2. CASE f = <<current>>
      BY <3>2
    <3> QED
      BY <2>1, <3>1, <3>2
  <2>3. \A n \in Commands : n = shell.running => n = current
    BY BashSessionAssumption DEF BashInv, ShellHoldsCurrent, Commands
  <2> QED
    BY <2>2, <2>3 DEF OneCommandAtATime
<1> QED
  BY <1>1, BashTypes, BashInvariant, PTL

(* What run and kill wait for is done or is the current command, which the  *)
(* readers or waitShell will complete, once: nobody waits on a done channel *)
(* that everyone else has forgotten.                                       *)
THEOREM NobodyLeftWaiting == Spec => []AwaitedGetsDone
<1>1. BashTypeOK /\ BashInv => AwaitedGetsDone
  <2> SUFFICES ASSUME BashTypeOK, BashInv
               PROVE  AwaitedGetsDone
    OBVIOUS
  <2>1. \A n \in Commands : command[n].closes = IF n <= count /\ n # current THEN 1 ELSE 0
    BY DEF BashInv, CompletedOnce
  <2>2. \A n \in {call[c].of : c \in Callers} \cup {killer.of} :
          n \in 0 .. MaxCommands /\ n <= count
    BY DEF BashTypeOK, BashInv, CallTypes, KillerTypes, OfStarted
  <2>3. ASSUME NEW n \in 0 .. MaxCommands, n <= count, n # 0, n # current
        PROVE  Done(n)
    <3>1. n \in Commands
      BY <2>3, BashSessionAssumption DEF Commands
    <3> QED
      BY <2>1, <2>3, <3>1 DEF Done
  <2> QED
    BY <2>1, <2>2, <2>3 DEF AwaitedGetsDone
<1> QED
  BY <1>1, BashTypes, BashInvariant, PTL

-----------------------------------------------------------------------------
(* How often something is in a sequence, and what the steps of a pipe and a *)
(* buffer do to it.                                                        *)
At(x, seq) == {i \in DOMAIN seq : seq[i] = x}
Times(x, seq) == Cardinality(At(x, seq))

LEMMA AtIsFinite ==
  ASSUME NEW S, NEW seq \in Seq(S), NEW x
  PROVE  IsFiniteSet(At(x, seq)) /\ Times(x, seq) \in Nat /\ At(x, seq) \subseteq 1 .. Len(seq)
<1>1. DOMAIN seq = 1 .. Len(seq) /\ 1 \in Int /\ Len(seq) \in Int
  OBVIOUS
<1>2. IsFiniteSet(1 .. Len(seq))
  BY <1>1, FS_Interval
<1>3. At(x, seq) \in SUBSET (1 .. Len(seq))
  BY <1>1 DEF At
<1>4. IsFiniteSet(At(x, seq))
  BY <1>2, <1>3, FS_Subset
<1> QED
  BY <1>3, <1>4, FS_CardinalityType DEF Times

LEMMA TimesOfNone ==
  ASSUME NEW S, NEW seq \in Seq(S), NEW x, x \notin In(seq)
  PROVE  Times(x, seq) = 0
<1>1. At(x, seq) = {}
  BY DEF At, In
<1> QED
  BY <1>1, FS_EmptySet DEF Times

LEMMA TimesAppend ==
  ASSUME NEW S, NEW seq \in Seq(S), NEW e \in S, NEW x
  PROVE  Times(x, Append(seq, e)) = IF e = x THEN Times(x, seq) + 1 ELSE Times(x, seq)
<1>1. /\ Len(seq) \in Nat /\ DOMAIN seq = 1 .. Len(seq)
      /\ DOMAIN Append(seq, e) = 1 .. Len(seq) + 1
      /\ Append(seq, e)[Len(seq) + 1] = e
      /\ \A i \in 1 .. Len(seq) : Append(seq, e)[i] = seq[i]
  OBVIOUS
<1>2. 1 .. Len(seq) + 1 = (1 .. Len(seq)) \cup {Len(seq) + 1} /\ Len(seq) + 1 \notin 1 .. Len(seq)
  BY <1>1
<1>3. Len(seq) + 1 \notin At(x, seq)
  BY <1>1, <1>2 DEF At
<1>4. CASE e = x
  <2>1. At(x, Append(seq, e)) = At(x, seq) \cup {Len(seq) + 1}
    BY <1>1, <1>2, <1>4 DEF At
  <2> QED
    BY <1>3, <1>4, <2>1, AtIsFinite, FS_AddElement DEF Times
<1>5. CASE e # x
  <2>1. At(x, Append(seq, e)) = At(x, seq)
    BY <1>1, <1>2, <1>5 DEF At
  <2> QED
    BY <1>5, <2>1 DEF Times
<1> QED
  BY <1>4, <1>5

LEMMA TimesTail ==
  ASSUME NEW S, NEW seq \in Seq(S), seq # <<>>, NEW x
  PROVE  Times(x, seq) = IF Head(seq) = x THEN Times(x, Tail(seq)) + 1 ELSE Times(x, Tail(seq))
<1> DEFINE rest == Tail(seq)
           shift == [i \in At(x, rest) |-> i + 1]
           later == At(x, seq) \ {1}
<1>1. /\ Len(seq) \in Nat \ {0} /\ Len(rest) = Len(seq) - 1 /\ rest \in Seq(S)
      /\ DOMAIN seq = 1 .. Len(seq) /\ DOMAIN rest = 1 .. Len(rest) /\ Head(seq) = seq[1]
      /\ \A i \in 1 .. Len(rest) : rest[i] = seq[i + 1]
  OBVIOUS
<1> HIDE DEF rest
<1>2. \A i \in At(x, rest) : i \in Nat /\ i + 1 \in later
  BY <1>1 DEF At
<1>3. \A j \in later : j - 1 \in At(x, rest) /\ (j - 1) + 1 = j
  <2> SUFFICES ASSUME NEW j \in later
               PROVE  j - 1 \in At(x, rest) /\ (j - 1) + 1 = j
    OBVIOUS
  <2>1. j \in 1 .. Len(seq) /\ j # 1 /\ seq[j] = x
    BY <1>1 DEF At
  <2>2. j - 1 \in 1 .. Len(rest) /\ (j - 1) + 1 = j
    BY <1>1, <2>1
  <2>3. rest[j - 1] = x
    BY <1>1, <2>1, <2>2
  <2> QED
    BY <1>1, <2>2, <2>3 DEF At
<1>4. shift \in Bijection(At(x, rest), later)
  <2>1. shift \in [At(x, rest) -> later]
    BY <1>2
  <2>2. \A i, k \in At(x, rest) : shift[i] = shift[k] => i = k
    BY <1>2
  <2>3. \A j \in later : \E i \in At(x, rest) : shift[i] = j
    BY <1>3
  <2> QED
    BY <2>1, <2>2, <2>3, Fun_IsBij
<1>5. IsFiniteSet(At(x, rest)) /\ Times(x, rest) \in Nat
  BY <1>1, AtIsFinite
<1>6. IsFiniteSet(later) /\ Cardinality(later) = Times(x, rest)
  BY <1>4, <1>5, FS_Bijection DEF ExistsBijection, Times
<1>7. 1 \in At(x, seq) <=> Head(seq) = x
  BY <1>1 DEF At
<1>8. CASE Head(seq) = x
  <2>1. At(x, seq) = later \cup {1} /\ 1 \notin later
    BY <1>7, <1>8
  <2>2. Cardinality(later \cup {1}) = Cardinality(later) + 1
    BY <1>6, <2>1, FS_AddElement
  <2> QED
    BY <1>6, <1>8, <2>1, <2>2 DEF Times, rest
<1>9. CASE Head(seq) # x
  <2>1. At(x, seq) = later
    BY <1>7, <1>9
  <2> QED
    BY <1>6, <1>9, <2>1 DEF Times, rest
<1> QED
  BY <1>8, <1>9

LEMMA SubSeqAppend ==
  ASSUME NEW S, NEW seq \in Seq(S), NEW e \in S, NEW k \in Nat, k <= Len(seq)
  PROVE  /\ SubSeq(seq, k + 1, Len(seq)) \in Seq(S)
         /\ SubSeq(Append(seq, e), k + 1, Len(Append(seq, e))) = Append(SubSeq(seq, k + 1, Len(seq)), e)
<1> DEFINE long  == SubSeq(Append(seq, e), k + 1, Len(seq) + 1)
           short == SubSeq(seq, k + 1, Len(seq))
<1>1. /\ Append(seq, e) \in Seq(S) /\ Len(seq) \in Nat /\ Len(Append(seq, e)) = Len(seq) + 1
      /\ Append(seq, e)[Len(seq) + 1] = e
      /\ \A i \in 1 .. Len(seq) : Append(seq, e)[i] = seq[i]
  OBVIOUS
<1>2. /\ long \in Seq(S) /\ Len(long) = Len(seq) + 1 - k
      /\ \A i \in 1 .. Len(seq) + 1 - k : long[i] = Append(seq, e)[k + i]
  BY <1>1
<1>3. /\ short \in Seq(S) /\ Len(short) = Len(seq) - k
      /\ \A i \in 1 .. Len(seq) - k : short[i] = seq[k + i]
  BY <1>1
<1> HIDE DEF long, short
<1>4. /\ Append(short, e) \in Seq(S) /\ Len(Append(short, e)) = Len(seq) + 1 - k
      /\ Append(short, e)[Len(seq) + 1 - k] = e
      /\ \A i \in 1 .. Len(seq) - k : Append(short, e)[i] = short[i]
  <2>1. Len(short) + 1 = Len(seq) + 1 - k
    BY <1>1, <1>3
  <2> QED
    BY <1>3, <2>1
<1>5. ASSUME NEW i \in 1 .. Len(seq) + 1 - k
      PROVE  long[i] = Append(short, e)[i]
  <2>1. CASE i = Len(seq) + 1 - k
    <3>1. k + i = Len(seq) + 1
      BY <1>1, <2>1
    <3> QED
      BY <1>1, <1>2, <1>4, <2>1, <3>1
  <2>2. CASE i # Len(seq) + 1 - k
    <3>1. i \in 1 .. Len(seq) - k /\ k + i \in 1 .. Len(seq)
      BY <1>1, <2>2
    <3> QED
      BY <1>1, <1>2, <1>3, <1>4, <3>1
  <2> QED
    BY <2>1, <2>2
<1>6. long = Append(short, e)
  BY <1>2, <1>4, <1>5, SeqEqual
<1> QED
  BY <1>1, <1>3, <1>6 DEF long, short

-----------------------------------------------------------------------------
(* In a pipe, nothing of a command comes after its sentinel.               *)
InOrder(seq) ==
  \A i, j \in 1 .. Len(seq) : i < j /\ seq[i].sentinel => seq[j].of # seq[i].of

LEMMA OrderOfTail ==
  ASSUME NEW S, NEW seq \in Seq(S), seq # <<>>, InOrder(seq)
  PROVE  /\ InOrder(Tail(seq))
         /\ Head(seq).sentinel => \A m \in In(Tail(seq)) : m.of # Head(seq).of
<1>1. /\ Len(seq) \in Nat \ {0} /\ Len(Tail(seq)) = Len(seq) - 1
      /\ Head(seq) = seq[1] /\ \A i \in 1 .. Len(Tail(seq)) : Tail(seq)[i] = seq[i + 1]
  OBVIOUS
<1>2. \A i \in 1 .. Len(Tail(seq)) : i + 1 \in 1 .. Len(seq) /\ 1 < i + 1
  BY <1>1
<1>3. \A i, j \in 1 .. Len(Tail(seq)) : i < j => i + 1 < j + 1
  BY <1>1
<1>4. InOrder(Tail(seq))
  BY <1>1, <1>2, <1>3 DEF InOrder
<1>5. 1 \in 1 .. Len(seq)
  BY <1>1
<1>6. Head(seq).sentinel => \A m \in In(Tail(seq)) : m.of # Head(seq).of
  BY <1>1, <1>2, <1>5 DEF InOrder, In
<1> QED
  BY <1>4, <1>6

LEMMA OrderOfPrefix ==
  ASSUME NEW S, NEW seq \in Seq(S), NEW k \in 0 .. Len(seq), InOrder(seq)
  PROVE  InOrder(SubSeq(seq, 1, k))
<1>1. /\ Len(SubSeq(seq, 1, k)) = k
      /\ \A i \in 1 .. k : SubSeq(seq, 1, k)[i] = seq[i] /\ i \in 1 .. Len(seq)
  OBVIOUS
<1> QED
  BY <1>1 DEF InOrder

LEMMA OrderOfAppend ==
  ASSUME NEW S, NEW seq \in Seq(S), NEW e \in S, InOrder(seq),
         \A m \in In(seq) : m.sentinel => m.of # e.of
  PROVE  InOrder(Append(seq, e))
<1>1. /\ Len(seq) \in Nat /\ Len(Append(seq, e)) = Len(seq) + 1
      /\ Append(seq, e)[Len(seq) + 1] = e
      /\ \A i \in 1 .. Len(seq) : Append(seq, e)[i] = seq[i]
  OBVIOUS
<1>2. ASSUME NEW i \in 1 .. Len(seq) + 1, NEW j \in 1 .. Len(seq) + 1, i < j,
             Append(seq, e)[i].sentinel
      PROVE  Append(seq, e)[j].of # Append(seq, e)[i].of
  <2>1. i \in 1 .. Len(seq) /\ seq[i] \in In(seq) /\ Append(seq, e)[i] = seq[i]
    <3>1. i \in 1 .. Len(seq)
      BY <1>1, <1>2
    <3> QED
      BY <1>1, <3>1 DEF In
  <2>2. CASE j = Len(seq) + 1
    BY <1>1, <1>2, <2>1, <2>2
  <2>3. CASE j # Len(seq) + 1
    <3>1. j \in 1 .. Len(seq)
      BY <1>1, <1>2, <2>3
    <3> QED
      BY <1>1, <1>2, <2>1, <3>1 DEF InOrder
  <2> QED
    BY <2>2, <2>3
<1> QED
  BY <1>1, <1>2 DEF InOrder

-----------------------------------------------------------------------------
(* What snapshot would show of stream s now, and the commands whose output  *)
(* is all somewhere: the current one, and those that their sentinels ended. *)
Shown(n, s) == SubSeq(buffer[s], command[n].start[s] + 1, Len(buffer[s]))
Whole(n) == n = current \/ command[n].exit = "own"

StartsBehind ==
  \A n \in Commands : \A s \in Streams : command[n].start[s] <= Len(buffer[s])

(* A command that is not done has no exit code, and one that was not started *)
(* has no sentinels and no output.                                         *)
Fresh ==
  /\ \A n \in Commands : command[n].closes = 0 => command[n].exit = ""
  /\ \A n \in Commands : n > count =>
       command[n].sentinels = {} /\ \A s \in Streams : printed[n][s] = 0

NothingFollows == \A s \in Streams : InOrder(pipe[s])

(* A sentinel that was read was the last of its command in that pipe. *)
SentinelRead ==
  /\ current # 0 =>
       \A s \in command[current].sentinels : \A m \in In(pipe[s]) : m.of # current
  /\ Held => command[current].sentinels = {}

ReadToTheEnd ==
  \A n \in Commands : command[n].exit = "own" =>
    \A s \in Streams : \A m \in In(pipe[s]) : m.of # n

NoLineLost ==
  \A n \in Commands : Whole(n) =>
    \A s \in Streams : Times(n, Shown(n, s)) + Times(Line(n), pipe[s]) = printed[n][s]

ResultIsWhole ==
  \A n \in Commands : result[n].status = "completed" /\ result[n].exit = "own" =>
    /\ command[n].exit = "own"
    /\ \A s \in Streams : Times(n, result[n].output[s]) = printed[n][s]

OutputInv == /\ StartsBehind /\ Fresh /\ NothingFollows /\ SentinelRead /\ ReadToTheEnd
             /\ NoLineLost /\ ResultIsWhole

LEMMA Numbers ==
  ASSUME BashTypeOK, BashInv, OutputInv
  PROVE  /\ current \in Nat /\ count \in Nat /\ current <= count
         /\ \A n \in Commands : n \in Nat /\ n # 0
         /\ current # 0 => /\ current \in Commands
                           /\ command[current].closes = 0 /\ command[current].exit = ""
         /\ \A n \in Commands : command[n].exit = "own" => n # current /\ n <= count
         /\ Held => current # 0
         /\ shell.running # 0 => shell.running = current /\ Held
<1>1. current \in 0 .. MaxCommands /\ count \in 0 .. MaxCommands /\ current <= count
  BY DEF BashTypeOK, LockTypes, BashInv, CompletedOnce
<1>2. \A n \in Commands : n \in Nat /\ n # 0
  BY BashSessionAssumption DEF Commands
<1>3. current # 0 => current \in Commands
  BY <1>1, BashSessionAssumption DEF Commands
<1>4. \A n \in Commands : /\ command[n].closes = IF n <= count /\ n # current THEN 1 ELSE 0
                          /\ command[n].closes = 0 => command[n].exit = ""
  BY DEF BashInv, CompletedOnce, OutputInv, Fresh
<1>5. Held => current # 0
  BY DEF Held, BashInv, ShellHoldsCurrent
<1>6. shell.running # 0 => shell.running = current /\ Held
  BY DEF Held, BashInv, ShellHoldsCurrent
<1>7. ASSUME NEW n \in Commands, command[n].exit = "own"
      PROVE  n # current /\ n <= count
  <2>1. command[n].closes # 0
    BY <1>4, <1>7
  <2> QED
    BY <1>4, <2>1
<1>8. current # 0 => command[current].closes = 0 /\ command[current].exit = ""
  BY <1>3, <1>4
<1>9. current \in Nat /\ count \in Nat
  BY <1>1, BashSessionAssumption
<1> QED
  BY <1>1, <1>2, <1>3, <1>5, <1>6, <1>7, <1>8, <1>9

(* What the actions do to the fields of the commands. *)
LEMMA Records ==
  ASSUME BashTypeOK, NEW n \in Commands
  PROVE  /\ \A e : Close_(n, e) =>
              \A m \in Commands : /\ command'[m].exit = IF m = n THEN e ELSE command[m].exit
                                  /\ command'[m].start = command[m].start
                                  /\ command'[m].sentinels = command[m].sentinels
         /\ \A x : command' = [command EXCEPT ![n].start = x] =>
              \A m \in Commands : /\ command'[m].start = IF m = n THEN x ELSE command[m].start
                                  /\ command'[m].exit = command[m].exit
                                  /\ command'[m].sentinels = command[m].sentinels
         /\ \A s : command' = [command EXCEPT ![n].sentinels = @ \cup {s}] =>
              \A m \in Commands : /\ command'[m].exit = command[m].exit
                                  /\ command'[m].start = command[m].start
                                  /\ command'[m].sentinels =
                                       IF m = n THEN command[m].sentinels \cup {s}
                                                ELSE command[m].sentinels
<1>1. command \in [Commands -> CommandRecords]
  BY DEF BashTypeOK, CommandTypes
<1>2. ASSUME NEW e, Close_(n, e), NEW m \in Commands
      PROVE  /\ command'[m].exit = IF m = n THEN e ELSE command[m].exit
             /\ command'[m].start = command[m].start
             /\ command'[m].sentinels = command[m].sentinels
  BY <1>1, <1>2 DEF Close_, CommandRecords
<1>3. ASSUME NEW x, command' = [command EXCEPT ![n].start = x], NEW m \in Commands
      PROVE  /\ command'[m].start = IF m = n THEN x ELSE command[m].start
             /\ command'[m].exit = command[m].exit
             /\ command'[m].sentinels = command[m].sentinels
  BY <1>1, <1>3 DEF CommandRecords
<1>4. ASSUME NEW s, command' = [command EXCEPT ![n].sentinels = @ \cup {s}], NEW m \in Commands
      PROVE  /\ command'[m].exit = command[m].exit
             /\ command'[m].start = command[m].start
             /\ command'[m].sentinels = IF m = n THEN command[m].sentinels \cup {s}
                                                 ELSE command[m].sentinels
  BY <1>1, <1>4 DEF CommandRecords
<1> QED
  BY <1>2, <1>3, <1>4

(* A result that is whole stays so while its command's count does. *)
LEMMA ResultsStayWhole ==
  ASSUME BashTypeOK, BashInv, OutputInv,
         \A n \in Commands : command[n].exit = "own" =>
           command'[n].exit = "own" /\ \A s \in Streams : printed'[n][s] = printed[n][s],
         \A n \in Commands : result'[n].status = "completed" => result'[n] = result[n]
  PROVE  ResultIsWhole'
<1>1. ASSUME NEW n \in Commands, result'[n].status = "completed", result'[n].exit = "own"
      PROVE  /\ command'[n].exit = "own"
             /\ \A s \in Streams : Times(n, result'[n].output[s]) = printed'[n][s]
  <2>1. result'[n] = result[n]
    BY <1>1
  <2>2. command[n].exit = "own" /\ \A s \in Streams : Times(n, result[n].output[s]) = printed[n][s]
    BY <1>1, <2>1 DEF OutputInv, ResultIsWhole
  <2> QED
    BY <2>1, <2>2
<1> QED
  BY <1>1 DEF ResultIsWhole, Times, At

(* Nothing of the output has moved. *)
LEMMA OutputUntouched ==
  ASSUME OutputInv, UNCHANGED <<current, count, command, pipe, buffer, printed>>, Held' => Held,
         ResultIsWhole'
  PROVE  OutputInv'
<1>1. StartsBehind' /\ Fresh' /\ ReadToTheEnd'
  <2>1. StartsBehind'
    BY DEF OutputInv, StartsBehind
  <2>2. Fresh'
    BY DEF OutputInv, Fresh
  <2>3. ReadToTheEnd'
    BY DEF OutputInv, ReadToTheEnd, In
  <2> QED
    BY <2>1, <2>2, <2>3
<1>2. NothingFollows'
  BY DEF OutputInv, NothingFollows, InOrder
<1>3. SentinelRead'
  <2> HIDE DEF Held
  <2> QED
    BY DEF OutputInv, SentinelRead, In
<1>4. NoLineLost'
  BY DEF OutputInv, NoLineLost, Whole, Shown, Times, At, Line
<1> QED
  BY <1>1, <1>2, <1>3, <1>4 DEF OutputInv

(* A command starts: nothing of it is anywhere yet. *)
LEMMA StartIsWhole ==
  ASSUME BashTypeOK, BashInv, OutputInv, NEW c \in Callers, RunStarts(c)
  PROVE  OutputInv'
<1> USE DEF outputVars
<1>1. /\ current = 0 /\ count < MaxCommands /\ count' = count + 1 /\ current' = count'
      /\ command' = [command EXCEPT ![count'].start = [s \in Streams |-> Len(buffer[s])]]
      /\ UNCHANGED <<pipe, buffer, printed, result>>
  BY Zenon DEF RunStarts
<1>2. /\ current \in Nat /\ count \in Nat /\ \A n \in Commands : n \in Nat /\ n # 0
      /\ \A n \in Commands : command[n].exit = "own" => n <= count
  BY Numbers
<1>3. count' \in Commands /\ count' > count
  BY <1>1, <1>2, BashSessionAssumption DEF Commands
<1>4. \A m \in Commands :
        /\ command'[m].start = IF m = count' THEN [s \in Streams |-> Len(buffer[s])] ELSE command[m].start
        /\ command'[m].exit = command[m].exit /\ command'[m].sentinels = command[m].sentinels
        /\ command'[m].closes = command[m].closes
  <2>1. command' = [command EXCEPT ![count'].start = [s \in Streams |-> Len(buffer[s])]]
    BY <1>1
  <2>2. \A m \in Commands : command'[m].closes = command[m].closes
    BY <2>1, Completions
  <2>3. \A x : command' = [command EXCEPT ![count'].start = x] =>
          \A m \in Commands : /\ command'[m].start = IF m = count' THEN x ELSE command[m].start
                              /\ command'[m].exit = command[m].exit
                              /\ command'[m].sentinels = command[m].sentinels
    BY <1>3, Records
  <2> QED
    BY <2>1, <2>2, <2>3
<1>5. StartsBehind'
  BY <1>1, <1>4 DEF OutputInv, StartsBehind, BashTypeOK, BufferTypes
<1>6. Fresh'
  <2>1. \A n \in Commands : n > count' => n > count
    BY <1>1, <1>2
  <2> QED
    BY <1>1, <1>4, <2>1 DEF OutputInv, Fresh
<1>7. NothingFollows' /\ ReadToTheEnd'
  <2>1. NothingFollows'
    BY <1>1 DEF OutputInv, NothingFollows, InOrder
  <2>2. ReadToTheEnd'
    BY <1>1, <1>4 DEF OutputInv, ReadToTheEnd, In
  <2> QED
    BY <2>1, <2>2
<1>8. command'[count'].sentinels = {} /\ \A s \in Streams : printed[count'][s] = 0
  BY <1>3, <1>4 DEF OutputInv, Fresh
<1>9. SentinelRead'
  BY <1>1, <1>8 DEF SentinelRead
<1>10. ASSUME NEW n \in Commands, Whole(n)', NEW s \in Streams
       PROVE  Times(n, Shown(n, s)') + Times(Line(n), pipe'[s]) = printed'[n][s]
  <2>0. buffer[s] \in Seq(Commands) /\ pipe[s] \in Seq(Printed)
    BY DEF BashTypeOK, BufferTypes, PipeTypes
  <2>1. CASE n = count'
    <3>1. Shown(n, s)' = SubSeq(buffer[s], Len(buffer[s]) + 1, Len(buffer[s]))
      <4>1. command'[n].start = [u \in Streams |-> Len(buffer[u])]
        BY <1>4, <2>1
      <4>2. command'[n].start[s] = Len(buffer[s]) /\ buffer' = buffer
        BY <1>1, <4>1
      <4> QED
        BY <4>2 DEF Shown
    <3>2. SubSeq(buffer[s], Len(buffer[s]) + 1, Len(buffer[s])) = <<>>
      BY <2>0
    <3>3. Times(n, Shown(n, s)') = 0
      <4>1. <<>> \in Seq(Commands) /\ n \notin In(<<>>)
        BY DEF In
      <4> QED
        BY <3>1, <3>2, <4>1, TimesOfNone
    <3>4. Line(n) \notin In(pipe[s])
      <4>1. \A m \in In(pipe[s]) : m.of \in Nat /\ m.of <= count
        BY PipeNumbers
      <4>2. Line(n).of = n
        BY DEF Line
      <4> QED
        BY <1>2, <1>3, <2>1, <4>1, <4>2
    <3>5. Times(Line(n), pipe[s]) = 0
      BY <2>0, <3>4, TimesOfNone
    <3> QED
      BY <1>1, <1>8, <2>1, <3>3, <3>5
  <2>2. CASE n # count'
    <3>1. Whole(n)
      BY <1>1, <1>4, <1>10, <2>2 DEF Whole
    <3>2. Shown(n, s)' = Shown(n, s)
      BY <1>1, <1>4, <2>2 DEF Shown
    <3> QED
      BY <1>1, <3>1, <3>2 DEF OutputInv, NoLineLost
  <2> QED
    BY <2>1, <2>2
<1>11. NoLineLost'
  BY <1>10 DEF NoLineLost, Times, At, Line
<1>12. ResultIsWhole'
  BY <1>1, <1>4, ResultsStayWhole
<1> QED
  BY <1>5, <1>6, <1>7, <1>9, <1>11, <1>12 DEF OutputInv

(* A refused command is done without a word. *)
LEMMA RefusalIsWhole ==
  ASSUME BashTypeOK, BashInv, OutputInv, NEW c \in Callers, RunIsRefused(c)
  PROVE  OutputInv'
<1> USE DEF outputVars
<1>1. /\ current = 0 /\ count < MaxCommands /\ count' = count + 1 /\ current' = current
      /\ Close_(count', "") /\ result' = [result EXCEPT ![count'].status = "killed"]
      /\ UNCHANGED <<pipe, buffer, printed, shell>>
  BY Zenon DEF RunIsRefused
<1> HIDE DEF Close_
<1>a. current = 0 /\ current' = 0 /\ count < MaxCommands /\ count' = count + 1
  BY <1>1, Zenon
<1>b. UNCHANGED <<pipe, buffer, printed, shell>> /\ result' = [result EXCEPT ![count'].status = "killed"]
  BY <1>1, Zenon
<1>2. /\ current \in Nat /\ count \in Nat /\ \A n \in Commands : n \in Nat /\ n # 0
      /\ \A n \in Commands : command[n].exit = "own" => n <= count
  BY Numbers
<1>3. count' \in Commands /\ count' > count
  BY <1>a, <1>2, BashSessionAssumption DEF Commands
<1>4. \A m \in Commands :
        /\ command'[m].exit = IF m = count' THEN "" ELSE command[m].exit
        /\ command'[m].start = command[m].start /\ command'[m].sentinels = command[m].sentinels
  <2>1. Close_(count', "")
    BY <1>1, Zenon
  <2>2. \A e : Close_(count', e) =>
          \A m \in Commands : /\ command'[m].exit = IF m = count' THEN e ELSE command[m].exit
                              /\ command'[m].start = command[m].start
                              /\ command'[m].sentinels = command[m].sentinels
    BY <1>3, Records, Zenon
  <2> QED
    BY <2>1, <2>2, Zenon
<1>5. StartsBehind'
  BY <1>b, <1>4 DEF OutputInv, StartsBehind
<1>6. Fresh'
  <2>1. \A m \in Commands : m # count' => command'[m].closes = command[m].closes
    BY <1>1, <1>3, Completions, Zenon
  <2>2. \A n \in Commands : n > count' => n > count
    BY <1>a, <1>2
  <2> QED
    BY <1>b, <1>4, <2>1, <2>2 DEF OutputInv, Fresh
<1>7. NothingFollows'
  BY <1>b DEF OutputInv, NothingFollows, InOrder
<1>8. ReadToTheEnd'
  BY <1>b, <1>4 DEF OutputInv, ReadToTheEnd, In
<1>9. SentinelRead'
  <2>1. current' = 0 /\ ~Held'
    BY <1>a, <1>b, Numbers DEF Held
  <2> QED
    BY <2>1 DEF SentinelRead
<1>10. ASSUME NEW n \in Commands, Whole(n)', NEW s \in Streams
       PROVE  Times(n, Shown(n, s)') + Times(Line(n), pipe'[s]) = printed'[n][s]
  <2>1. Whole(n)
    BY <1>a, <1>2, <1>4, <1>10 DEF Whole
  <2>2. Shown(n, s)' = Shown(n, s)
    BY <1>b, <1>4 DEF Shown
  <2> QED
    BY <1>b, <2>1, <2>2 DEF OutputInv, NoLineLost
<1>11. NoLineLost'
  BY <1>10 DEF NoLineLost, Times, At, Line
<1>12. ResultIsWhole'
  <2>1. \A n \in Commands : command[n].exit = "own" =>
          command'[n].exit = "own" /\ \A s \in Streams : printed'[n][s] = printed[n][s]
    <3>1. \A n \in Commands : command[n].exit = "own" => n # count'
      BY <1>a, <1>2
    <3> QED
      BY <1>b, <1>4, <3>1
  <2>2. \A n \in Commands : result'[n].status = "completed" => result'[n] = result[n]
    BY <1>b DEF BashTypeOK, ResultTypes, Results
  <2> QED
    BY <2>1, <2>2, ResultsStayWhole
<1> QED
  BY <1>5, <1>6, <1>7, <1>8, <1>9, <1>11, <1>12 DEF OutputInv

(* A reader takes the head of its pipe, ... *)
LEMMA Taking ==
  ASSUME BashTypeOK, OutputInv, NEW s \in Streams, pipe[s] # <<>>,
         pipe' = [pipe EXCEPT ![s] = Tail(@)]
  PROVE  /\ NothingFollows'
         /\ Head(pipe[s]) \in Printed /\ Head(pipe[s]) \in In(pipe[s])
         /\ \A u \in Streams : In(pipe'[u]) \subseteq In(pipe[u])
         /\ Head(pipe[s]).sentinel => \A m \in In(pipe'[s]) : m.of # Head(pipe[s]).of
         /\ \A x : \A u \in Streams :
              /\ Times(x, pipe'[u]) \in Nat
              /\ Times(x, pipe[u]) = IF u = s /\ Head(pipe[s]) = x THEN Times(x, pipe'[u]) + 1
                                                                  ELSE Times(x, pipe'[u])
<1>1. pipe \in [Streams -> Seq(Printed)] /\ \A u \in Streams : InOrder(pipe[u])
  BY DEF BashTypeOK, PipeTypes, OutputInv, NothingFollows
<1>2. pipe'[s] = Tail(pipe[s]) /\ \A u \in Streams : u # s => pipe'[u] = pipe[u]
  BY <1>1
<1>3. /\ Tail(pipe[s]) \in Seq(Printed) /\ Head(pipe[s]) \in In(pipe[s])
      /\ Head(pipe[s]) \in Printed /\ In(Tail(pipe[s])) \subseteq In(pipe[s])
  BY <1>1, TailFacts
<1>4. /\ InOrder(Tail(pipe[s]))
      /\ Head(pipe[s]).sentinel => \A m \in In(Tail(pipe[s])) : m.of # Head(pipe[s]).of
  BY <1>1, OrderOfTail
<1>5. NothingFollows'
  <2>1. \A u \in Streams : InOrder(pipe'[u])
    BY <1>1, <1>2, <1>4
  <2> QED
    BY <2>1 DEF NothingFollows, InOrder
<1>6. ASSUME NEW x, NEW u \in Streams
      PROVE  /\ Times(x, pipe'[u]) \in Nat
             /\ Times(x, pipe[u]) = IF u = s /\ Head(pipe[s]) = x THEN Times(x, pipe'[u]) + 1
                                                                 ELSE Times(x, pipe'[u])
  <2>1. CASE u = s
    <3>1. Times(x, Tail(pipe[s])) \in Nat
      BY <1>3, AtIsFinite
    <3>2. Times(x, pipe[s]) = IF Head(pipe[s]) = x THEN Times(x, Tail(pipe[s])) + 1
                                                   ELSE Times(x, Tail(pipe[s]))
      BY <1>1, TimesTail
    <3> QED
      BY <1>2, <2>1, <3>1, <3>2
  <2>2. CASE u # s
    <3>1. Times(x, pipe[u]) \in Nat
      BY <1>1, AtIsFinite
    <3> QED
      BY <1>2, <2>2, <3>1
  <2> QED
    BY <2>1, <2>2
<1>7. \A u \in Streams : In(pipe'[u]) \subseteq In(pipe[u])
  BY <1>2, <1>3
<1> QED
  BY <1>2, <1>3, <1>4, <1>5, <1>6, <1>7

(* ... and adds it to its buffer. *)
LEMMA Showing ==
  ASSUME BashTypeOK, OutputInv, NEW s \in Streams, NEW k \in Commands,
         buffer' = [buffer EXCEPT ![s] = Append(@, k)],
         \A n \in Commands : command'[n].start = command[n].start
  PROVE  /\ StartsBehind'
         /\ \A n \in Commands : \A u \in Streams :
              /\ Times(n, Shown(n, u)) \in Nat
              /\ Times(n, Shown(n, u)') = IF u = s /\ k = n THEN Times(n, Shown(n, u)) + 1
                                                           ELSE Times(n, Shown(n, u))
<1>1. buffer \in [Streams -> Seq(Commands)]
  BY DEF BashTypeOK, BufferTypes
<1>2. buffer'[s] = Append(buffer[s], k) /\ \A u \in Streams : u # s => buffer'[u] = buffer[u]
  BY <1>1
<1>3. \A n \in Commands : \A u \in Streams :
        command[n].start[u] \in Nat /\ command[n].start[u] <= Len(buffer[u])
  BY DEF BashTypeOK, CommandTypes, CommandRecords, OutputInv, StartsBehind
<1>4. \A u \in Streams : Len(buffer[u]) \in Nat /\ Len(buffer'[u]) \in Nat /\ Len(buffer[u]) <= Len(buffer'[u])
  BY <1>1, <1>2
<1>5. StartsBehind'
  <2>1. \A n \in Commands : \A u \in Streams : command'[n].start[u] <= Len(buffer'[u])
    BY <1>3, <1>4
  <2> QED
    BY <2>1 DEF StartsBehind
<1>6. ASSUME NEW n \in Commands, NEW u \in Streams
      PROVE  /\ Times(n, Shown(n, u)) \in Nat
             /\ Times(n, Shown(n, u)') = IF u = s /\ k = n THEN Times(n, Shown(n, u)) + 1
                                                          ELSE Times(n, Shown(n, u))
  <2> DEFINE from == command[n].start[u]
  <2>1. from \in Nat /\ from <= Len(buffer[u]) /\ buffer[u] \in Seq(Commands)
    BY <1>1, <1>3
  <2>2. /\ Shown(n, u) = SubSeq(buffer[u], from + 1, Len(buffer[u]))
        /\ Shown(n, u)' = SubSeq(buffer'[u], from + 1, Len(buffer'[u]))
    BY DEF Shown
  <2> HIDE DEF from
  <2>3. /\ SubSeq(buffer[u], from + 1, Len(buffer[u])) \in Seq(Commands)
        /\ SubSeq(Append(buffer[u], k), from + 1, Len(Append(buffer[u], k)))
             = Append(SubSeq(buffer[u], from + 1, Len(buffer[u])), k)
    <3> DEFINE b == buffer[u]
    <3>1. b \in Seq(Commands) /\ from \in Nat /\ from <= Len(b) /\ k \in Commands
      BY <2>1
    <3> HIDE DEF b
    <3>2. /\ SubSeq(b, from + 1, Len(b)) \in Seq(Commands)
          /\ SubSeq(Append(b, k), from + 1, Len(Append(b, k))) = Append(SubSeq(b, from + 1, Len(b)), k)
      BY <3>1, SubSeqAppend
    <3> QED
      BY <3>2 DEF b
  <2>4. Shown(n, u) \in Seq(Commands)
    BY <2>2, <2>3
  <2>5. Times(n, Shown(n, u)) \in Nat
    BY <2>4, AtIsFinite
  <2>6. CASE u = s
    <3>1. Shown(n, u)' = Append(Shown(n, u), k)
      BY <1>2, <2>2, <2>3, <2>6
    <3>2. Times(n, Append(Shown(n, u), k)) = IF k = n THEN Times(n, Shown(n, u)) + 1
                                                     ELSE Times(n, Shown(n, u))
      BY <2>4, TimesAppend
    <3> QED
      BY <2>5, <2>6, <3>1, <3>2
  <2>7. CASE u # s
    <3>1. Shown(n, u)' = Shown(n, u)
      BY <1>2, <2>2, <2>7
    <3> QED
      BY <2>5, <2>7, <3>1
  <2> QED
    BY <2>6, <2>7
<1> QED
  BY <1>5, <1>6

(* A line that is read moves from the pipe to the buffer. *)
LEMMA ReadingIsWhole ==
  ASSUME BashTypeOK, BashInv, OutputInv, NEW s \in Streams, ReadLine(s)
  PROVE  OutputInv'
<1> USE DEF lockVars
<1> DEFINE h == Head(pipe[s])
<1>1. /\ pipe[s] # <<>> /\ ~h.sentinel
      /\ buffer' = [buffer EXCEPT ![s] = Append(@, h.of)]
      /\ pipe' = [pipe EXCEPT ![s] = Tail(@)]
      /\ UNCHANGED <<current, command, count, shell, printed, result>>
  BY Zenon DEF ReadLine
<1>2. /\ NothingFollows' /\ h \in Printed
      /\ \A u \in Streams : In(pipe'[u]) \subseteq In(pipe[u])
      /\ \A x : \A u \in Streams :
           /\ Times(x, pipe'[u]) \in Nat
           /\ Times(x, pipe[u]) = IF u = s /\ h = x THEN Times(x, pipe'[u]) + 1
                                                   ELSE Times(x, pipe'[u])
  BY <1>1, Taking
<1> HIDE DEF h
<1>3. h.of \in Commands /\ \A n : h = Line(n) <=> h.of = n
  BY <1>1, <1>2 DEF Printed, Line
<1>4. /\ StartsBehind'
      /\ \A n \in Commands : \A u \in Streams :
           /\ Times(n, Shown(n, u)) \in Nat
           /\ Times(n, Shown(n, u)') = IF u = s /\ h.of = n THEN Times(n, Shown(n, u)) + 1
                                                           ELSE Times(n, Shown(n, u))
  BY <1>1, <1>3, Showing
<1>5. Fresh'
  BY <1>1 DEF OutputInv, Fresh
<1>6. SentinelRead'
  <2>1. Held' <=> Held
    BY <1>1 DEF Held
  <2>2. command \in [Commands -> CommandRecords] /\ (current # 0 => current \in Commands)
    BY Numbers DEF BashTypeOK, CommandTypes
  <2>3. current # 0 => command[current].sentinels \subseteq Streams
    BY <2>2 DEF CommandRecords
  <2> QED
    BY <1>1, <1>2, <2>1, <2>3 DEF OutputInv, SentinelRead
<1>7. ReadToTheEnd'
  BY <1>1, <1>2 DEF OutputInv, ReadToTheEnd
<1>8. ASSUME NEW n \in Commands, Whole(n)', NEW u \in Streams
      PROVE  Times(n, Shown(n, u)') + Times(Line(n), pipe'[u]) = printed'[n][u]
  <2>1. Times(n, Shown(n, u)) + Times(Line(n), pipe[u]) = printed[n][u]
    BY <1>1, <1>8 DEF OutputInv, NoLineLost, Whole
  <2>2. printed'[n][u] = printed[n][u]
    BY <1>1
  <2> QED
    BY <1>2, <1>3, <1>4, <2>1, <2>2
<1>9. NoLineLost'
  BY <1>8 DEF NoLineLost, Times, At, Line
<1>10. ResultIsWhole'
  BY <1>1, ResultsStayWhole
<1> QED
  BY <1>2, <1>4, <1>5, <1>6, <1>7, <1>9, <1>10 DEF OutputInv

(* A sentinel that is read is the end of its command in that pipe. *)
LEMMA SentinelIsWhole ==
  ASSUME BashTypeOK, BashInv, OutputInv, NEW s \in Streams, ReadSentinel(s)
  PROVE  OutputInv'
<1> DEFINE h == Head(pipe[s])
<1>1. /\ pipe[s] # <<>> /\ h.sentinel
      /\ pipe' = [pipe EXCEPT ![s] = Tail(@)]
      /\ UNCHANGED <<count, shell, printed, result>>
  BY Zenon DEF ReadSentinel
<1>2. /\ NothingFollows' /\ h \in Printed /\ h \in In(pipe[s])
      /\ \A u \in Streams : In(pipe'[u]) \subseteq In(pipe[u])
      /\ \A m \in In(pipe'[s]) : m.of # h.of
      /\ \A x : \A u \in Streams :
           /\ Times(x, pipe'[u]) \in Nat
           /\ Times(x, pipe[u]) = IF u = s /\ h = x THEN Times(x, pipe'[u]) + 1
                                                   ELSE Times(x, pipe'[u])
  BY <1>1, Taking
<1>3. \/ /\ current # h.of /\ UNCHANGED <<command, current>>
         /\ buffer' = [buffer EXCEPT ![s] = Append(@, h.of)]
      \/ /\ current = h.of /\ UNCHANGED buffer
         /\ command[current].sentinels \cup {s} = Streams /\ Close_(current, "own") /\ current' = 0
      \/ /\ current = h.of /\ UNCHANGED <<buffer, current>>
         /\ command' = [command EXCEPT ![current].sentinels = @ \cup {s}]
  BY Zenon DEF ReadSentinel, Complete, CompletedByBoth
<1> HIDE DEF h, Close_
<1>4. \A x : \A n : \A u \in Streams : x = Line(n) => Times(x, pipe'[u]) = Times(x, pipe[u])
  <2>1. \A n : h # Line(n)
    BY <1>1 DEF Line
  <2> QED
    BY <1>2, <2>1
<1>5. Held' <=> Held
  BY <1>1 DEF Held
<1>6. current # 0 => /\ current \in Commands /\ command[current].closes = 0
                     /\ command[current].sentinels \subseteq Streams
                     /\ command[current].exit = ""
  <2>1. current # 0 => current \in Commands /\ command[current].closes = 0 /\ command[current].exit = ""
    BY Numbers
  <2> QED
    BY <2>1 DEF BashTypeOK, CommandTypes, CommandRecords
<1>7. h.of \in Commands /\ h.of # 0
  BY <1>2, BashSessionAssumption DEF Printed, Commands
<1>8. current = h.of => ~Held
  BY <1>1, <1>2 DEF BashInv, SentinelsComeLast
<1>9. CASE /\ current # h.of /\ UNCHANGED <<command, current>>
           /\ buffer' = [buffer EXCEPT ![s] = Append(@, h.of)]
  <2>1. /\ StartsBehind'
        /\ \A n \in Commands : \A u \in Streams :
             /\ Times(n, Shown(n, u)) \in Nat
             /\ Times(n, Shown(n, u)') = IF u = s /\ h.of = n THEN Times(n, Shown(n, u)) + 1
                                                             ELSE Times(n, Shown(n, u))
    <3>1. /\ buffer' = [buffer EXCEPT ![s] = Append(@, h.of)] /\ h.of \in Commands
          /\ \A n \in Commands : command'[n].start = command[n].start
      BY <1>7, <1>9
    <3> QED
      BY <3>1, Showing
  <2>2. Fresh'
    BY <1>1, <1>9 DEF OutputInv, Fresh
  <2>3. SentinelRead'
    BY <1>2, <1>5, <1>6, <1>9 DEF OutputInv, SentinelRead
  <2>4. ReadToTheEnd'
    BY <1>2, <1>9 DEF OutputInv, ReadToTheEnd
  <2>5. ASSUME NEW n \in Commands, Whole(n)', NEW u \in Streams
        PROVE  Times(n, Shown(n, u)') + Times(Line(n), pipe'[u]) = printed'[n][u]
    <3>1. Whole(n)
      BY <1>9, <2>5 DEF Whole
    <3>2. h.of # n
      <4>1. command[n].exit = "own" => h.of # n
        BY <1>2 DEF OutputInv, ReadToTheEnd
      <4> QED
        BY <1>9, <3>1, <4>1 DEF Whole
    <3>3. Times(n, Shown(n, u)) + Times(Line(n), pipe[u]) = printed[n][u]
      BY <3>1 DEF OutputInv, NoLineLost
    <3> QED
      BY <1>1, <1>4, <2>1, <3>2, <3>3
  <2>6. NoLineLost'
    BY <2>5 DEF NoLineLost, Times, At, Line
  <2>7. ResultIsWhole'
    BY <1>1, <1>9, ResultsStayWhole
  <2> QED
    BY <1>2, <2>1, <2>2, <2>3, <2>4, <2>6, <2>7 DEF OutputInv
<1>10. ASSUME UNCHANGED buffer, \A m \in Commands : command'[m].start = command[m].start,
              \A m \in Commands : Whole(m)' => Whole(m)
       PROVE  StartsBehind' /\ NoLineLost'
  <2>1. StartsBehind'
    BY <1>10 DEF OutputInv, StartsBehind
  <2>2. ASSUME NEW n \in Commands, Whole(n)', NEW u \in Streams
        PROVE  Times(n, Shown(n, u)') + Times(Line(n), pipe'[u]) = printed'[n][u]
    <3>1. Shown(n, u)' = Shown(n, u)
      BY <1>10 DEF Shown
    <3>2. Times(n, Shown(n, u)) + Times(Line(n), pipe[u]) = printed[n][u]
      BY <1>10, <2>2 DEF OutputInv, NoLineLost
    <3> QED
      BY <1>1, <1>4, <3>1, <3>2
  <2>3. NoLineLost'
    BY <2>2 DEF NoLineLost, Times, At, Line
  <2> QED
    BY <2>1, <2>3
<1>11. CASE /\ current = h.of /\ UNCHANGED buffer
            /\ command[current].sentinels \cup {s} = Streams /\ Close_(current, "own") /\ current' = 0
  <2>1. current \in Commands
    BY <1>7, <1>11, Zenon
  <2>2. \A m \in Commands : /\ command'[m].exit = IF m = current THEN "own" ELSE command[m].exit
                            /\ command'[m].start = command[m].start
                            /\ command'[m].sentinels = command[m].sentinels
    <3>1. \A e : Close_(current, e) =>
            \A m \in Commands : /\ command'[m].exit = IF m = current THEN e ELSE command[m].exit
                                /\ command'[m].start = command[m].start
                                /\ command'[m].sentinels = command[m].sentinels
      BY <2>1, Records, Zenon
    <3> QED
      BY <1>11, <3>1, Zenon
  <2>3. \A m \in Commands :
          command'[m].closes = IF m = current THEN command[m].closes + 1 ELSE command[m].closes
    BY <1>11, <2>1, Completions, Zenon
  <2>4. current' = 0 /\ current = h.of /\ buffer' = buffer /\ command[current].sentinels \cup {s} = Streams
    BY <1>11, Zenon
  <2>5. Fresh'
    <3>1. \A n \in Commands : command'[n].closes = 0 => command'[n].exit = ""
      <4>1. command'[current].closes # 0
        <5>1. current # 0 /\ command[current].closes = 0
          BY <1>6, <1>7, <2>4
        <5>2. command'[current].closes = command[current].closes + 1
          BY <2>1, <2>3
        <5> QED
          BY <5>1, <5>2
      <4>2. \A n \in Commands : n # current =>
              command'[n].closes = command[n].closes /\ command'[n].exit = command[n].exit
        BY <2>2, <2>3
      <4> QED
        BY <4>1, <4>2 DEF OutputInv, Fresh
    <3>2. \A n \in Commands : n > count' =>
            command'[n].sentinels = {} /\ \A u \in Streams : printed'[n][u] = 0
      BY <1>1, <2>2 DEF OutputInv, Fresh
    <3> QED
      BY <3>1, <3>2 DEF Fresh
  <2>6. SentinelRead'
    BY <1>5, <1>8, <2>4 DEF SentinelRead
  <2>7. ReadToTheEnd'
    <3>1. ASSUME NEW n \in Commands, command'[n].exit = "own", NEW u \in Streams, NEW m \in In(pipe'[u])
          PROVE  m.of # n
      <4>1. m \in In(pipe[u])
        BY <1>2
      <4>2. CASE n # current
        <5>1. command[n].exit = "own"
          BY <2>2, <3>1, <4>2
        <5> QED
          BY <4>1, <5>1 DEF OutputInv, ReadToTheEnd
      <4>3. CASE n = current /\ u = s
        BY <1>2, <2>4, <4>3
      <4>4. CASE n = current /\ u # s
        <5>1. u \in command[current].sentinels /\ current # 0
          BY <1>7, <2>4, <4>4
        <5> QED
          BY <4>1, <4>4, <5>1 DEF OutputInv, SentinelRead
      <4> QED
        BY <4>2, <4>3, <4>4
    <3> QED
      BY <3>1 DEF ReadToTheEnd, In
  <2>8. StartsBehind' /\ NoLineLost'
    <3>1. \A m \in Commands : Whole(m)' => Whole(m)
      <4>1. \A m \in Commands : m # 0
        BY Numbers
      <4> QED
        BY <2>2, <2>4, <4>1 DEF Whole
    <3> QED
      BY <1>10, <2>2, <2>4, <3>1
  <2>9. ResultIsWhole'
    <3>1. \A n \in Commands : command[n].exit = "own" => command'[n].exit = "own"
      BY <2>2
    <3> QED
      BY <1>1, <3>1, ResultsStayWhole
  <2> QED
    BY <1>2, <2>5, <2>6, <2>7, <2>8, <2>9 DEF OutputInv
<1>12. CASE /\ current = h.of /\ UNCHANGED <<buffer, current>>
            /\ command' = [command EXCEPT ![current].sentinels = @ \cup {s}]
  <2>1. current \in Commands /\ current # 0 /\ ~Held
    BY <1>7, <1>8, <1>12
  <2>2. \A m \in Commands : /\ command'[m].exit = command[m].exit
                            /\ command'[m].start = command[m].start
                            /\ command'[m].sentinels = IF m = current THEN command[m].sentinels \cup {s}
                                                                      ELSE command[m].sentinels
    <3>1. command' = [command EXCEPT ![current].sentinels = @ \cup {s}]
      BY <1>12
    <3>2. \A u : command' = [command EXCEPT ![current].sentinels = @ \cup {u}] =>
            \A m \in Commands : /\ command'[m].exit = command[m].exit
                                /\ command'[m].start = command[m].start
                                /\ command'[m].sentinels = IF m = current THEN command[m].sentinels \cup {u}
                                                                          ELSE command[m].sentinels
      BY <2>1, Records
    <3> QED
      BY <3>1, <3>2
  <2>3. \A m \in Commands : command'[m].closes = command[m].closes
    BY <1>12, Completions
  <2>4. Fresh'
    <3>1. \A n \in Commands : n > count => n # current
      <4>1. current \in Nat /\ count \in Nat /\ current <= count
        BY Numbers
      <4> QED
        BY <4>1
    <3> QED
      BY <1>1, <2>2, <2>3, <3>1 DEF OutputInv, Fresh
  <2>5. SentinelRead'
    <3>1. ASSUME NEW u \in command'[current].sentinels, NEW m \in In(pipe'[u])
          PROVE  m.of # current
      <4>1. u \in command[current].sentinels \/ u = s
        BY <2>1, <2>2
      <4>2. CASE u = s
        BY <1>2, <1>12, <4>2
      <4>3. CASE u \in command[current].sentinels
        <5>1. m \in In(pipe[u])
          BY <1>2, <1>6, <2>1, <4>3
        <5> QED
          BY <2>1, <4>3, <5>1 DEF OutputInv, SentinelRead
      <4> QED
        BY <4>1, <4>2, <4>3
    <3> QED
      BY <1>5, <1>12, <2>1, <3>1 DEF SentinelRead, In
  <2>6. ReadToTheEnd'
    BY <1>2, <2>2 DEF OutputInv, ReadToTheEnd
  <2>7. StartsBehind' /\ NoLineLost'
    <3>1. \A m \in Commands : Whole(m)' => Whole(m)
      BY <1>12, <2>2 DEF Whole
    <3> QED
      BY <1>10, <1>12, <2>2, <3>1
  <2>8. ResultIsWhole'
    BY <1>1, <2>2, ResultsStayWhole
  <2> QED
    BY <1>2, <2>4, <2>5, <2>6, <2>7, <2>8 DEF OutputInv
<1> QED
  BY <1>3, <1>9, <1>11, <1>12

(* The end of the shell cuts the pipes, and the current command with them. *)
LEMMA EndIsWhole ==
  ASSUME BashTypeOK, BashInv, OutputInv, WaitShell
  PROVE  OutputInv'
<1>1. ~shell.up /\ UNCHANGED <<count, buffer, shell, printed, result>>
  BY Zenon DEF WaitShell
<1>2. PICK out \in 0 .. Len(pipe["stdout"]), err \in 0 .. Len(pipe["stderr"]) :
        pipe' = [stdout |-> SubSeq(pipe["stdout"], 1, out),
                 stderr |-> SubSeq(pipe["stderr"], 1, err)]
  BY DEF WaitShell
<1>3. \/ current # 0 /\ Close_(current, "shell") /\ current' = 0
      \/ current = 0 /\ UNCHANGED <<command, current>>
  BY Zenon DEF WaitShell, Reaped
<1> HIDE DEF Close_
<1>4. /\ PipeTypes' /\ \A u \in Streams : In(pipe'[u]) \subseteq In(pipe[u])
  <2>1. PipeTypes /\ ShellTypes
    BY DEF BashTypeOK
  <2> QED
    BY <2>1, PipeSteps
<1>5. current' = 0
  BY <1>3, Zenon
<1>6. \A m \in Commands : /\ command'[m].exit = IF m = current THEN "shell" ELSE command[m].exit
                          /\ command'[m].start = command[m].start
                          /\ command'[m].sentinels = command[m].sentinels
  <2>1. CASE current # 0 /\ Close_(current, "shell")
    <3>1. current \in Commands
      BY <2>1, Numbers
    <3>2. \A e : Close_(current, e) =>
            \A m \in Commands : /\ command'[m].exit = IF m = current THEN e ELSE command[m].exit
                                /\ command'[m].start = command[m].start
                                /\ command'[m].sentinels = command[m].sentinels
      BY <3>1, Records, Zenon
    <3> QED
      BY <2>1, <3>2, Zenon
  <2>2. CASE current = 0 /\ UNCHANGED command
    <3>1. \A m \in Commands : m # current
      BY <2>2, Numbers
    <3> QED
      BY <2>2, <3>1
  <2> QED
    BY <1>3, <2>1, <2>2, Zenon
<1>7. \A m \in Commands : command[m].exit = "own" => m # current
  BY Numbers
<1>8. StartsBehind'
  BY <1>1, <1>6 DEF OutputInv, StartsBehind
<1>9. Fresh'
  <2>1. \A n \in Commands : n # current => command'[n].closes = command[n].closes
    <3>1. CASE current # 0 /\ Close_(current, "shell")
      <4>1. current \in Commands
        BY <3>1, Numbers
      <4> QED
        BY <3>1, <4>1, Completions, Zenon
    <3>2. CASE UNCHANGED command
      BY <3>2
    <3> QED
      BY <1>3, <3>1, <3>2, Zenon
  <2>2. ASSUME current # 0
        PROVE  command'[current].closes # 0
    <3>1. current \in Commands /\ command[current].closes = 0
      BY <2>2, Numbers
    <3>2. command'[current].closes = command[current].closes + 1
      BY <1>3, <2>2, <3>1, Completions, Zenon
    <3> QED
      BY <3>1, <3>2
  <2>3. \A n \in Commands : command'[n].closes = 0 => command'[n].exit = ""
    <3>1. \A n \in Commands : n # 0
      BY Numbers
    <3> QED
      BY <1>6, <2>1, <2>2, <3>1 DEF OutputInv, Fresh
  <2>4. \A n \in Commands : n > count' =>
          command'[n].sentinels = {} /\ \A s \in Streams : printed'[n][s] = 0
    BY <1>1, <1>6 DEF OutputInv, Fresh
  <2> QED
    BY <2>3, <2>4 DEF Fresh
<1>10. NothingFollows'
  <2>0. pipe["stdout"] \in Seq(Printed) /\ pipe["stderr"] \in Seq(Printed)
    BY DEF BashTypeOK, PipeTypes, Streams
  <2>1. InOrder(pipe["stdout"]) /\ InOrder(pipe["stderr"])
    BY DEF OutputInv, NothingFollows, Streams
  <2>2. InOrder(SubSeq(pipe["stdout"], 1, out))
    BY <2>0, <2>1, OrderOfPrefix
  <2>3. InOrder(SubSeq(pipe["stderr"], 1, err))
    BY <2>0, <2>1, OrderOfPrefix
  <2>4. pipe'["stdout"] = SubSeq(pipe["stdout"], 1, out) /\ pipe'["stderr"] = SubSeq(pipe["stderr"], 1, err)
    BY <1>2
  <2>5. \A u \in Streams : InOrder(pipe'[u])
    BY <2>2, <2>3, <2>4 DEF Streams
  <2> QED
    BY <2>5 DEF NothingFollows, InOrder
<1>11. SentinelRead'
  <2>1. ~Held'
    BY <1>1 DEF Held, BashInv, ShellHoldsCurrent
  <2> QED
    BY <1>5, <2>1 DEF SentinelRead
<1>12. ReadToTheEnd'
  BY <1>4, <1>6 DEF OutputInv, ReadToTheEnd
<1>13. ASSUME NEW n \in Commands, Whole(n)', NEW u \in Streams
       PROVE  Times(n, Shown(n, u)') + Times(Line(n), pipe'[u]) = printed'[n][u]
  <2>1. command[n].exit = "own" /\ Whole(n)
    <3>1. n # 0
      BY Numbers
    <3> QED
      BY <1>5, <1>6, <1>13, <3>1 DEF Whole
  <2>2. Line(n) \notin In(pipe[u]) /\ Line(n) \notin In(pipe'[u])
    BY <1>4, <2>1 DEF OutputInv, ReadToTheEnd, Line
  <2>3. pipe[u] \in Seq(Printed) /\ pipe'[u] \in Seq(Printed)
    BY <1>4 DEF BashTypeOK, PipeTypes
  <2>4. Times(Line(n), pipe[u]) = 0
    BY <2>2, <2>3, TimesOfNone
  <2>5. Times(Line(n), pipe'[u]) = 0
    BY <2>2, <2>3, TimesOfNone
  <2>6. Shown(n, u)' = Shown(n, u)
    BY <1>1, <1>6 DEF Shown
  <2>7. Times(n, Shown(n, u)) + Times(Line(n), pipe[u]) = printed[n][u]
    BY <2>1 DEF OutputInv, NoLineLost
  <2> QED
    BY <1>1, <2>4, <2>5, <2>6, <2>7
<1>14. NoLineLost'
  BY <1>13 DEF NoLineLost, Times, At, Line
<1>15. ResultIsWhole'
  BY <1>1, <1>6, <1>7, ResultsStayWhole
<1> QED
  BY <1>8, <1>9, <1>10, <1>11, <1>12, <1>14, <1>15 DEF OutputInv

(* The shell adds to the pipes, for the current command. *)
LEMMA Adding ==
  ASSUME BashTypeOK, BashInv, OutputInv, shell.running # 0, NEW s \in Streams, NEW e \in Printed,
         e.of = current
  PROVE  /\ Append(pipe[s], e) \in Seq(Printed) /\ InOrder(Append(pipe[s], e))
         /\ \A m \in In(Append(pipe[s], e)) : m \in In(pipe[s]) \/ m.of = current
         /\ \A x : /\ Times(x, pipe[s]) \in Nat
                   /\ Times(x, Append(pipe[s], e)) = IF e = x THEN Times(x, pipe[s]) + 1
                                                             ELSE Times(x, pipe[s])
<1>1. pipe[s] \in Seq(Printed) /\ InOrder(pipe[s])
  BY DEF BashTypeOK, PipeTypes, OutputInv, NothingFollows
<1>2. \A m \in In(pipe[s]) : m.sentinel => m.of # current
  BY Numbers DEF BashInv, SentinelsComeLast
<1>3. Append(pipe[s], e) \in Seq(Printed) /\ In(Append(pipe[s], e)) \subseteq In(pipe[s]) \cup {e}
  BY <1>1, AppendFacts
<1>4. InOrder(Append(pipe[s], e))
  BY <1>1, <1>2, OrderOfAppend
<1>5. ASSUME NEW x
      PROVE  /\ Times(x, pipe[s]) \in Nat
             /\ Times(x, Append(pipe[s], e)) = IF e = x THEN Times(x, pipe[s]) + 1
                                                       ELSE Times(x, pipe[s])
  BY <1>1, AtIsFinite, TimesAppend
<1> QED
  BY <1>3, <1>4, <1>5

(* Whatever the shell adds, what was read to the end stays read to the end. *)
LEMMA AddedBehind ==
  ASSUME BashTypeOK, BashInv, OutputInv, shell.running # 0,
         UNCHANGED <<current, command, count, buffer>>,
         \A u \in Streams : \A m \in In(pipe'[u]) : m \in In(pipe[u]) \/ m.of = current,
         \A u \in Streams : InOrder(pipe'[u])
  PROVE  /\ StartsBehind' /\ NothingFollows' /\ SentinelRead' /\ ReadToTheEnd'
         /\ \A n \in Commands : Whole(n)' => Whole(n)
         /\ \A n \in Commands : \A u \in Streams : Shown(n, u)' = Shown(n, u)
<1>1. command[current].sentinels = {} /\ \A n \in Commands : command[n].exit = "own" => n # current
  BY Numbers DEF OutputInv, SentinelRead
<1>2. StartsBehind'
  BY DEF OutputInv, StartsBehind
<1>3. NothingFollows'
  BY DEF NothingFollows, InOrder
<1>4. SentinelRead'
  BY <1>1 DEF SentinelRead
<1>5. ReadToTheEnd'
  BY <1>1 DEF OutputInv, ReadToTheEnd, In
<1>6. /\ \A n \in Commands : Whole(n)' => Whole(n)
      /\ \A n \in Commands : \A u \in Streams : Shown(n, u)' = Shown(n, u)
  BY DEF Whole, Shown
<1> QED
  BY <1>2, <1>3, <1>4, <1>5, <1>6

(* A line that is printed is counted and is in the pipe. *)
LEMMA PrintingIsWhole ==
  ASSUME BashTypeOK, BashInv, OutputInv, NEW s \in Streams, ShellPrints(s)
  PROVE  OutputInv'
<1> USE DEF lockVars
<1>1. /\ shell.running # 0
      /\ printed' = [printed EXCEPT ![shell.running][s] = @ + 1]
      /\ pipe' = [pipe EXCEPT ![s] = Append(@, Line(shell.running))]
      /\ UNCHANGED <<current, command, count, buffer, shell, result>>
  BY Zenon DEF ShellPrints
<1>2. /\ shell.running = current /\ current \in Commands /\ current <= count
      /\ current \in Nat /\ count \in Nat
      /\ \A n \in Commands : command[n].exit = "own" => n # current
  BY <1>1, Numbers
<1>3. Line(current) \in Printed /\ Line(current).of = current /\ \A n : Line(current) = Line(n) <=> n = current
  BY <1>2 DEF Line, Printed
<1>4. pipe'[s] = Append(pipe[s], Line(current)) /\ \A u \in Streams : u # s => pipe'[u] = pipe[u]
  BY <1>1, <1>2 DEF BashTypeOK, PipeTypes
<1>5. /\ InOrder(pipe'[s])
      /\ \A m \in In(pipe'[s]) : m \in In(pipe[s]) \/ m.of = current
      /\ \A x : /\ Times(x, pipe[s]) \in Nat
                /\ Times(x, pipe'[s]) = IF Line(current) = x THEN Times(x, pipe[s]) + 1
                                                             ELSE Times(x, pipe[s])
  BY <1>1, <1>3, <1>4, Adding
<1>6. /\ \A u \in Streams : InOrder(pipe'[u])
      /\ \A u \in Streams : \A m \in In(pipe'[u]) : m \in In(pipe[u]) \/ m.of = current
  BY <1>4, <1>5 DEF OutputInv, NothingFollows
<1>7. /\ StartsBehind' /\ NothingFollows' /\ SentinelRead' /\ ReadToTheEnd'
      /\ \A n \in Commands : Whole(n)' => Whole(n)
      /\ \A n \in Commands : \A u \in Streams : Shown(n, u)' = Shown(n, u)
  BY <1>1, <1>6, AddedBehind
<1>8. \A n \in Commands : \A u \in Streams :
        printed'[n][u] = IF n = current /\ u = s THEN printed[n][u] + 1 ELSE printed[n][u]
  BY <1>1, <1>2 DEF BashTypeOK, PrintedTypes
<1>9. Fresh'
  <2>1. \A n \in Commands : n > count => n # current
    BY <1>2
  <2> QED
    <3>1. \A n \in Commands : command'[n].closes = 0 => command'[n].exit = ""
      BY <1>1 DEF OutputInv, Fresh
    <3>2. \A n \in Commands : n > count =>
            command[n].sentinels = {} /\ \A u \in Streams : printed[n][u] = 0
      BY DEF OutputInv, Fresh
    <3>3. \A n \in Commands : n > count => \A u \in Streams : printed'[n][u] = printed[n][u]
      BY <1>8, <2>1
    <3> QED
      BY <1>1, <3>1, <3>2, <3>3 DEF Fresh
<1>10. ASSUME NEW n \in Commands, Whole(n)', NEW u \in Streams
       PROVE  Times(n, Shown(n, u)') + Times(Line(n), pipe'[u]) = printed'[n][u]
  <2>1. Times(n, Shown(n, u)) + Times(Line(n), pipe[u]) = printed[n][u] /\ Shown(n, u)' = Shown(n, u)
    BY <1>7, <1>10 DEF OutputInv, NoLineLost
  <2>2. Times(n, Shown(n, u)) \in Nat
    <3>1. buffer[u] \in Seq(Commands) /\ command[n].start[u] \in Nat
      BY DEF BashTypeOK, BufferTypes, CommandTypes, CommandRecords
    <3>2. Shown(n, u) \in Seq(Commands)
      BY <3>1 DEF Shown
    <3> QED
      BY <3>2, AtIsFinite
  <2>3. CASE u = s
    <3>1. /\ Times(Line(n), pipe[u]) \in Nat
          /\ Times(Line(n), pipe'[u]) = IF n = current THEN Times(Line(n), pipe[u]) + 1
                                                       ELSE Times(Line(n), pipe[u])
      BY <1>3, <1>5, <2>3
    <3>2. printed'[n][u] = IF n = current THEN printed[n][u] + 1 ELSE printed[n][u]
      BY <1>8, <2>3
    <3> QED
      BY <2>1, <2>2, <3>1, <3>2
  <2>4. CASE u # s
    BY <1>4, <1>8, <2>1, <2>4
  <2> QED
    BY <2>3, <2>4
<1>11. NoLineLost'
  BY <1>10 DEF NoLineLost, Times, At, Line
<1>12. ResultIsWhole'
  <2>1. \A n \in Commands : command[n].exit = "own" =>
          command'[n].exit = "own" /\ \A u \in Streams : printed'[n][u] = printed[n][u]
    BY <1>1, <1>2, <1>8
  <2> QED
    BY <1>1, <2>1, ResultsStayWhole
<1> QED
  BY <1>7, <1>9, <1>11, <1>12 DEF OutputInv

(* The sentinels are not lines. *)
LEMMA EndingIsWhole ==
  ASSUME BashTypeOK, BashInv, OutputInv, CommandEnds
  PROVE  OutputInv'
<1> USE DEF lockVars
<1>1. /\ shell.running # 0
      /\ pipe' = [u \in Streams |-> Append(pipe[u], Sentinel(shell.running))]
      /\ UNCHANGED <<current, command, count, buffer, printed, result>>
  BY Zenon DEF CommandEnds
<1>2. shell.running = current /\ current \in Commands
  BY <1>1, Numbers
<1>3. Sentinel(current) \in Printed /\ Sentinel(current).of = current /\ \A n : Sentinel(current) # Line(n)
  BY <1>2 DEF Line, Sentinel, Printed
<1>4. \A u \in Streams : pipe'[u] = Append(pipe[u], Sentinel(current))
  BY <1>1, <1>2
<1>5. ASSUME NEW u \in Streams
      PROVE  /\ InOrder(pipe'[u])
             /\ \A m \in In(pipe'[u]) : m \in In(pipe[u]) \/ m.of = current
             /\ \A n : Times(Line(n), pipe'[u]) = Times(Line(n), pipe[u])
  <2>1. /\ InOrder(pipe'[u])
        /\ \A m \in In(pipe'[u]) : m \in In(pipe[u]) \/ m.of = current
        /\ \A x : /\ Times(x, pipe[u]) \in Nat
                  /\ Times(x, pipe'[u]) = IF Sentinel(current) = x THEN Times(x, pipe[u]) + 1
                                                                   ELSE Times(x, pipe[u])
    <3> DEFINE e == Sentinel(current)
    <3>1. e \in Printed /\ e.of = current /\ pipe'[u] = Append(pipe[u], e)
      BY <1>3, <1>4
    <3> HIDE DEF e
    <3>2. /\ InOrder(Append(pipe[u], e))
          /\ \A m \in In(Append(pipe[u], e)) : m \in In(pipe[u]) \/ m.of = current
          /\ \A x : /\ Times(x, pipe[u]) \in Nat
                    /\ Times(x, Append(pipe[u], e)) = IF e = x THEN Times(x, pipe[u]) + 1
                                                              ELSE Times(x, pipe[u])
      BY <1>1, <3>1, Adding
    <3> QED
      BY <3>1, <3>2 DEF e
  <2> QED
    BY <1>3, <2>1
<1>6. /\ StartsBehind' /\ NothingFollows' /\ SentinelRead' /\ ReadToTheEnd'
      /\ \A n \in Commands : Whole(n)' => Whole(n)
      /\ \A n \in Commands : \A u \in Streams : Shown(n, u)' = Shown(n, u)
  BY <1>1, <1>5, AddedBehind
<1>7. Fresh'
  BY <1>1 DEF OutputInv, Fresh
<1>8. ASSUME NEW n \in Commands, Whole(n)', NEW u \in Streams
      PROVE  Times(n, Shown(n, u)') + Times(Line(n), pipe'[u]) = printed'[n][u]
  BY <1>1, <1>5, <1>6, <1>8 DEF OutputInv, NoLineLost
<1>9. NoLineLost'
  BY <1>8 DEF NoLineLost, Times, At, Line
<1>10. ResultIsWhole'
  BY <1>1, ResultsStayWhole
<1> QED
  BY <1>6, <1>7, <1>9, <1>10 DEF OutputInv

(* What is returned for a command that its sentinels ended is all there is. *)
LEMMA ReturnIsWhole ==
  ASSUME BashTypeOK, BashInv, OutputInv, NEW c \in Callers, RunReturns(c)
  PROVE  ResultIsWhole'
<1> USE DEF lockVars, outputVars
<1> DEFINE n == call[c].of
<1>1. /\ result' = [result EXCEPT ![n] =
           [status |-> "completed", exit |-> command[n].exit, output |-> Snapshot(n)]]
      /\ UNCHANGED <<command, printed>>
  BY Zenon DEF RunReturns
<1> HIDE DEF n
<1>2. \A m \in Commands : m # n => result'[m] = result[m]
  BY <1>1 DEF BashTypeOK, ResultTypes
<1>3. n \in Commands => result'[n] = [status |-> "completed", exit |-> command[n].exit, output |-> Snapshot(n)]
  BY <1>1 DEF BashTypeOK, ResultTypes
<1>4. ASSUME NEW m \in Commands, result'[m].status = "completed", result'[m].exit = "own"
      PROVE  /\ command'[m].exit = "own"
             /\ \A s \in Streams : Times(m, result'[m].output[s]) = printed'[m][s]
  <2>1. CASE m # n
    BY <1>1, <1>2, <1>4, <2>1 DEF OutputInv, ResultIsWhole
  <2>2. CASE m = n
    <3>1. command[m].exit = "own" /\ result'[m].output = Snapshot(m)
      BY <1>3, <1>4, <2>2
    <3>2. ASSUME NEW s \in Streams
          PROVE  Times(m, Shown(m, s)) = printed[m][s]
      <4>1. Times(m, Shown(m, s)) + Times(Line(m), pipe[s]) = printed[m][s]
        BY <3>1 DEF OutputInv, NoLineLost, Whole
      <4>2. Line(m) \notin In(pipe[s]) /\ pipe[s] \in Seq(Printed)
        BY <3>1 DEF OutputInv, ReadToTheEnd, Line, BashTypeOK, PipeTypes
      <4>3. Times(Line(m), pipe[s]) = 0
        BY <4>2, TimesOfNone
      <4>4. Times(m, Shown(m, s)) \in Nat
        <5>1. buffer[s] \in Seq(Commands) /\ command[m].start[s] \in Nat
          BY DEF BashTypeOK, BufferTypes, CommandTypes, CommandRecords
        <5>2. Shown(m, s) \in Seq(Commands)
          BY <5>1 DEF Shown
        <5> QED
          BY <5>2, AtIsFinite
      <4> QED
        BY <4>1, <4>3, <4>4
    <3>3. \A s \in Streams : Snapshot(m)[s] = Shown(m, s)
      BY DEF Snapshot, Shown
    <3> QED
      BY <1>1, <3>1, <3>2, <3>3
  <2> QED
    BY <2>1, <2>2
<1> QED
  BY <1>4 DEF ResultIsWhole, Times, At

(* The invariant: of a command whose output can still be whole, every line   *)
(* is in the part of the buffer that snapshot shows or still in the pipe;   *)
(* its sentinel is the last thing in each; so when both have been read,     *)
(* nothing of it is left in a pipe.                                        *)
LEMMA OutputInvariant == Spec => []OutputInv
<1>1. Init => OutputInv
  <2> SUFFICES ASSUME Init
               PROVE  OutputInv
    OBVIOUS
  <2>1. /\ \A n \in Commands : command[n] = NotStarted /\ result[n] = NoResult
        /\ \A s \in Streams : pipe[s] = <<>> /\ buffer[s] = <<>>
        /\ \A n \in Commands : \A s \in Streams : printed[n][s] = 0
        /\ current = 0 /\ shell.running = 0 /\ shell.frames = <<>>
    BY DEF Init
  <2>2. \A n \in Commands : command[n].exit = "" /\ command[n].sentinels = {}
                            /\ \A s \in Streams : command[n].start[s] = 0
    <3>1. /\ NotStarted.exit = "" /\ NotStarted.sentinels = {}
          /\ \A s \in Streams : NotStarted.start[s] = 0
      BY DEF NotStarted
    <3> QED
      BY <2>1, <3>1
  <2>3. StartsBehind
    <3>1. \A s \in Streams : Len(buffer[s]) = 0
      BY <2>1
    <3>2. ASSUME NEW n \in Commands, NEW s \in Streams
          PROVE  command[n].start[s] <= Len(buffer[s])
      <4>1. command[n].start[s] = 0 /\ Len(buffer[s]) = 0
        BY <2>2, <3>1
      <4>2. 0 <= 0
        OBVIOUS
      <4> QED
        BY <4>1, <4>2, Zenon
    <3> QED
      BY <3>2 DEF StartsBehind
  <2>4. Fresh
    BY <2>1, <2>2 DEF Fresh
  <2>5. NothingFollows
    BY <2>1 DEF NothingFollows, InOrder
  <2>6. SentinelRead
    BY <2>1 DEF SentinelRead, Held
  <2>7. ReadToTheEnd /\ ResultIsWhole
    <3>1. NoResult.status = ""
      BY DEF NoResult
    <3> QED
      BY <2>1, <2>2, <3>1 DEF ReadToTheEnd, ResultIsWhole
  <2>8. NoLineLost
    <3>1. \A n \in Commands : ~Whole(n)
      <4>1. \A n \in Commands : n # 0
        BY BashSessionAssumption DEF Commands
      <4> QED
        BY <2>1, <2>2, <4>1 DEF Whole
    <3> QED
      BY <3>1 DEF NoLineLost
  <2> QED
    BY <2>3, <2>4, <2>5, <2>6, <2>7, <2>8 DEF OutputInv
<1>2. BashTypeOK /\ BashInv /\ OutputInv /\ [Next]_vars => OutputInv'
  <2> SUFFICES ASSUME BashTypeOK, BashInv, OutputInv, [Next]_vars
               PROVE  OutputInv'
    OBVIOUS
  <2> USE DEF lockVars, outputVars
  <2>1. ASSUME UNCHANGED <<current, count, command, pipe, buffer, printed, result>>, Held' => Held
        PROVE  OutputInv'
    <3>1. ResultIsWhole'
      BY <2>1, ResultsStayWhole
    <3> QED
      BY <2>1, <3>1, OutputUntouched
  <2>2. ASSUME NEW c \in Callers, RunBlocks(c) \/ RunFindsClosed(c)
        PROVE  OutputInv'
    <3>1. UNCHANGED <<current, count, command, pipe, buffer, printed, result, shell>>
      BY <2>2, Zenon DEF RunBlocks, RunFindsClosed
    <3> QED
      BY <2>1, <3>1 DEF Held
  <2>3. ASSUME NEW c \in Callers, RunStarts(c) \/ RunIsRefused(c)
        PROVE  OutputInv'
    BY <2>3, StartIsWhole, RefusalIsWhole
  <2>4. ASSUME NEW c \in Callers, RunTimesOut(c)
        PROVE  OutputInv'
    <3>1. /\ result' = [result EXCEPT ![call[c].of].status = "running"]
          /\ UNCHANGED <<current, count, command, pipe, buffer, printed, shell>>
      BY <2>4, Zenon DEF RunTimesOut
    <3>2. \A n \in Commands : result'[n].status = "completed" => result'[n] = result[n]
      BY <3>1 DEF BashTypeOK, ResultTypes, Results
    <3>3. ResultIsWhole'
      BY <3>1, <3>2, ResultsStayWhole
    <3> QED
      BY <3>1, <3>3, OutputUntouched DEF Held
  <2>5. ASSUME NEW c \in Callers, RunReturns(c)
        PROVE  OutputInv'
    <3>1. UNCHANGED <<current, count, command, pipe, buffer, printed, shell>>
      BY <2>5, Zenon DEF RunReturns
    <3> QED
      BY <2>5, <3>1, ReturnIsWhole, OutputUntouched DEF Held
  <2>6. CASE Kill \/ KillReturns
    <3>1. UNCHANGED <<current, count, command, pipe, buffer, printed, result, shell>>
      BY <2>6, Zenon DEF Kill, KillReturns
    <3> QED
      BY <2>1, <3>1 DEF Held
  <2>7. CASE KillForces \/ Close \/ ShellExits
    <3>1. UNCHANGED <<current, count, command, pipe, buffer, printed, result>> /\ shell' = Down
      BY <2>7, Zenon DEF KillForces, Close, ShellExits
    <3>2. ~Held'
      BY <3>1 DEF Held, Down
    <3> QED
      BY <2>1, <3>1, <3>2
  <2>8. CASE ShellReads
    <3>1. UNCHANGED <<current, count, command, pipe, buffer, printed, result>> /\ Held
      BY <2>8, Zenon DEF ShellReads, Held
    <3> QED
      BY <2>1, <3>1
  <2>9. ASSUME NEW s \in Streams, ReadLine(s) \/ ReadSentinel(s) \/ ShellPrints(s)
        PROVE  OutputInv'
    BY <2>9, ReadingIsWhole, SentinelIsWhole, PrintingIsWhole
  <2>10. CASE WaitShell \/ CommandEnds
    BY <2>10, EndIsWhole, EndingIsWhole
  <2>11. CASE UNCHANGED vars
    <3>1. UNCHANGED <<current, count, command, pipe, buffer, printed, result, shell>>
      BY <2>11 DEF vars
    <3> QED
      BY <2>1, <3>1 DEF Held
  <2> QED
    BY <2>2, <2>3, <2>4, <2>5, <2>6, <2>7, <2>8, <2>9, <2>10, <2>11 DEF Next, Run
<1> QED
  BY <1>1, <1>2, BashTypes, BashInvariant, PTL DEF Spec

(* snapshot (bash_session.go): although each stream is read by a goroutine   *)
(* of its own and the result is taken without the lock, the result of a     *)
(* command that its sentinels completed holds each line that the command    *)
(* printed, on both streams, as often as it was printed.                   *)
THEOREM OutputIsComplete == Spec => []CompletedHasAllItsOutput
<1>1. OutputInv => CompletedHasAllItsOutput
  BY DEF OutputInv, ResultIsWhole, Times, At, CompletedHasAllItsOutput
<1> QED
  BY <1>1, OutputInvariant, PTL
=============================================================================
