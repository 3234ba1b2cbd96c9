---------------------------- MODULE BashSession ----------------------------
(***************************************************************************)
(* One shell session of the bash_session tool (bash_session.go): run, kill *)
(* and close called by several goroutines, the two goroutines that read    *)
(* the shell's output, the one that waits for its end, and the shell.      *)
(*                                                                         *)
(* s.mu guards `current' and `closed'; a stretch of code under it is one   *)
(* step.  Commands are numbered in the order they are started, the number  *)
(* standing for the token and for the done channel.  The buffers keep      *)
(* everything: their limit only shortens results.                          *)
(***************************************************************************)
EXTENDS Naturals, Sequences, FiniteSets

CONSTANTS Callers,      \* goroutines that call run
          MaxCommands,  \* bound: commands started
          MaxLines      \* bound: lines a command prints

ASSUME BashSessionAssumption == MaxCommands \in Nat /\ MaxLines \in Nat

VARIABLES current,  \* s.current, 0 for none
          closed,   \* s.closed
          command,  \* the bashCommand structures
          count,    \* commands started
          call,     \* where the run of each goroutine is, and for which command
          killer,   \* where kill is, and for which command
          pipe,     \* what the shell has printed and nobody has read, by stream
          buffer,   \* s.stdout and s.stderr: who printed each line
          shell,    \* the process: [up, frames (unread input), running]
          waited,   \* waitShell has come to its end
          ended,    \* close has been called
          printed,  \* history: lines printed by each command, by stream
          result    \* history: what run returned for each command

vars == <<current, closed, command, count, call, killer, pipe, buffer, shell, waited,
          ended, printed, result>>

Commands == 1 .. MaxCommands
Streams == {"stdout", "stderr"}
Idle == [pc |-> "idle", of |-> 0]
NotStarted == [start |-> [s \in Streams |-> 0], sentinels |-> {}, exit |-> "", closes |-> 0]
NoResult == [status |-> "", exit |-> "", output |-> [s \in Streams |-> <<>>]]
Line(n) == [of |-> n, sentinel |-> FALSE]
Sentinel(n) == [of |-> n, sentinel |-> TRUE]

Done(n) == command[n].closes > 0

Init == /\ current = 0 /\ closed = FALSE
        /\ command = [n \in Commands |-> NotStarted] /\ count = 0
        /\ call = [c \in Callers |-> Idle] /\ killer = Idle
        /\ pipe = [s \in Streams |-> <<>>] /\ buffer = [s \in Streams |-> <<>>]
        /\ shell = [up |-> TRUE, frames |-> <<>>, running |-> 0]
        /\ waited = FALSE /\ ended = FALSE
        /\ printed = [n \in Commands |-> [s \in Streams |-> 0]]
        /\ result = [n \in Commands |-> NoResult]

lockVars == <<current, closed, command, count>>
outputVars == <<pipe, buffer, printed>>

(* close(done) with the exit code known by then; a second close panics. *)
Close_(n, exit) == command' = [command EXCEPT ![n].closes = @ + 1, ![n].exit = exit]

-----------------------------------------------------------------------------
(* run, at the lock: the call is new, or the command it waited for is done. *)
AtLock(c) == \/ call[c].pc = "idle"
             \/ call[c].pc = "blocked" /\ Done(call[c].of)

RunBlocks(c) ==
  /\ AtLock(c) /\ count < MaxCommands
  /\ current # 0
  /\ call' = [call EXCEPT ![c] = [pc |-> "blocked", of |-> current]]
  /\ UNCHANGED <<lockVars, killer, outputVars, shell, waited, ended, result>>

RunFindsClosed(c) ==
  /\ AtLock(c)
  /\ current = 0 /\ closed
  /\ call' = [call EXCEPT ![c] = Idle]
  /\ UNCHANGED <<lockVars, killer, outputVars, shell, waited, ended, result>>

RunStarts(c) ==
  /\ AtLock(c) /\ count < MaxCommands
  /\ current = 0 /\ ~closed
  /\ shell.up
  /\ count' = count + 1
  /\ current' = count'
  /\ command' = [command EXCEPT ![count'].start = [s \in Streams |-> Len(buffer[s])]]
  /\ shell' = [shell EXCEPT !.frames = Append(@, count')]
  /\ call' = [call EXCEPT ![c] = [pc |-> "running", of |-> count']]
  /\ UNCHANGED <<closed, killer, outputVars, waited, ended, result>>

(* The shell is gone and waitShell has not noticed: the frame cannot be     *)
(* written, and the command is over.                                       *)
RunIsRefused(c) ==
  /\ AtLock(c) /\ count < MaxCommands
  /\ current = 0 /\ ~closed
  /\ ~shell.up
  /\ count' = count + 1
  /\ Close_(count', "")
  /\ result' = [result EXCEPT ![count'].status = "killed"]
  /\ call' = [call EXCEPT ![c] = Idle]
  /\ UNCHANGED <<current, closed, killer, outputVars, shell, waited, ended>>

(* The timeout of run: the call returns, the command goes on and stays the  *)
(* current one, which it does not in the mutant.                           *)
RunTimesOutAndClears(c) ==
  /\ call[c].pc = "running"
  /\ result' = [result EXCEPT ![call[c].of].status = "running"]
  /\ call' = [call EXCEPT ![c] = Idle]
  /\ current' = 0
  /\ UNCHANGED <<closed, command, count, killer, outputVars, shell, waited, ended>>

RunTimesOut(c) ==
  /\ call[c].pc = "running"
  /\ result' = [result EXCEPT ![call[c].of].status = "running"]
  /\ call' = [call EXCEPT ![c] = Idle]
  /\ UNCHANGED <<lockVars, killer, outputVars, shell, waited, ended>>

(* snapshot: what the buffers hold from the start of the command on. *)
Snapshot(n) == [s \in Streams |-> SubSeq(buffer[s], command[n].start[s] + 1, Len(buffer[s]))]

(* The done channel is closed, and the snapshot is taken without the lock. *)
RunReturns(c) ==
  LET n == call[c].of
  IN  /\ call[c].pc = "running" /\ Done(n)
      /\ result' = [result EXCEPT ![n] =
           [status |-> "completed", exit |-> command[n].exit, output |-> Snapshot(n)]]
      /\ call' = [call EXCEPT ![c] = Idle]
      /\ UNCHANGED <<lockVars, killer, outputVars, shell, waited, ended>>

-----------------------------------------------------------------------------
(* kill: SIGTERM to the process group, which the shell may survive, then    *)
(* wait without the lock, SIGKILL after three seconds, wait again, and mark *)
(* the session closed.  Without a current command it does nothing at all.  *)
Kill ==
  /\ killer.pc = "idle" /\ current # 0
  /\ killer' = [pc |-> "waiting", of |-> current]
  /\ UNCHANGED <<lockVars, call, outputVars, shell, waited, ended, result>>

(* terminateProcess(true): the shell and its command are gone. *)
Down == [up |-> FALSE, frames |-> <<>>, running |-> 0]

KillForces ==
  /\ killer.pc = "waiting"
  /\ killer' = [killer EXCEPT !.pc = "forced"]
  /\ shell' = Down
  /\ UNCHANGED <<lockVars, call, outputVars, waited, ended, result>>

KillReturns ==
  /\ killer.pc \in {"waiting", "forced"} /\ Done(killer.of)
  /\ closed' = TRUE
  /\ killer' = Idle
  /\ UNCHANGED <<current, command, count, call, outputVars, shell, waited, ended, result>>

(* close, from the registry: SIGKILL at once. *)
Close ==
  /\ ~ended
  /\ ended' = TRUE /\ closed' = TRUE
  /\ shell' = Down
  /\ UNCHANGED <<current, command, count, call, killer, outputVars, waited, result>>

-----------------------------------------------------------------------------
(* readStdout and readStderr.  A sentinel of the current command counts,    *)
(* and the second one completes it; any other is output like every line.    *)
(* In the mutant the first one completes it.                               *)
ReadLine(s) ==
  /\ pipe[s] # <<>> /\ ~Head(pipe[s]).sentinel
  /\ buffer' = [buffer EXCEPT ![s] = Append(@, Head(pipe[s]).of)]
  /\ pipe' = [pipe EXCEPT ![s] = Tail(@)]
  /\ UNCHANGED <<lockVars, call, killer, shell, waited, ended, printed, result>>

CompletedByEither(s) == TRUE
Complete == Close_(current, "own") /\ current' = 0
CompletedByBoth(s) == command[current].sentinels \cup {s} = Streams

ReadSentinel(s) ==
  /\ pipe[s] # <<>> /\ Head(pipe[s]).sentinel
  /\ pipe' = [pipe EXCEPT ![s] = Tail(@)]
  /\ \/ /\ current # Head(pipe[s]).of
        /\ buffer' = [buffer EXCEPT ![s] = Append(@, Head(pipe[s]).of)]
        /\ UNCHANGED <<command, current>>
     \/ /\ current = Head(pipe[s]).of
        /\ UNCHANGED buffer
        /\ IF CompletedByBoth(s) THEN Complete
           ELSE /\ command' = [command EXCEPT ![current].sentinels = @ \cup {s}]
                /\ UNCHANGED current
  /\ UNCHANGED <<closed, count, call, killer, shell, waited, ended, printed, result>>

(* waitShell: cmd.Wait closes the pipes, of which the readers keep what     *)
(* they have buffered, and the current command is completed with the        *)
(* shell's exit code.  The mutant leaves it as the current one.             *)
ReapedLeaving == IF current # 0 THEN Close_(current, "shell") /\ UNCHANGED current
                                ELSE UNCHANGED <<command, current>>
Reaped == IF current # 0 THEN Close_(current, "shell") /\ current' = 0
                         ELSE UNCHANGED <<command, current>>

WaitShell ==
  /\ ~shell.up /\ ~waited
  /\ waited' = TRUE /\ closed' = TRUE
  /\ \E out \in 0 .. Len(pipe["stdout"]), err \in 0 .. Len(pipe["stderr"]) :
       pipe' = [stdout |-> SubSeq(pipe["stdout"], 1, out),
                stderr |-> SubSeq(pipe["stderr"], 1, err)]
  /\ Reaped
  /\ UNCHANGED <<count, call, killer, buffer, shell, ended, printed, result>>

-----------------------------------------------------------------------------
(* The shell, not part of the repository: takes the next frame; the command *)
(* prints; the command ends and the frame prints the sentinels; or the      *)
(* shell exits, by the command `exit', by SIGTERM, by somebody's signal.    *)
ShellReads ==
  /\ shell.up /\ shell.running = 0 /\ shell.frames # <<>>
  /\ shell' = [shell EXCEPT !.running = Head(shell.frames), !.frames = Tail(@)]
  /\ UNCHANGED <<lockVars, call, killer, outputVars, waited, ended, result>>

ShellPrints(s) ==
  /\ shell.running # 0
  /\ printed[shell.running]["stdout"] + printed[shell.running]["stderr"] < MaxLines
  /\ printed' = [printed EXCEPT ![shell.running][s] = @ + 1]
  /\ pipe' = [pipe EXCEPT ![s] = Append(@, Line(shell.running))]
  /\ UNCHANGED <<lockVars, call, killer, buffer, shell, waited, ended, result>>

CommandEnds ==
  /\ shell.running # 0
  /\ pipe' = [s \in Streams |-> Append(pipe[s], Sentinel(shell.running))]
  /\ shell' = [shell EXCEPT !.running = 0]
  /\ UNCHANGED <<lockVars, call, killer, buffer, waited, ended, printed, result>>

ShellExits ==
  /\ shell.up
  /\ shell' = Down
  /\ UNCHANGED <<lockVars, call, killer, outputVars, waited, ended, result>>

-----------------------------------------------------------------------------
Run(c) == RunBlocks(c) \/ RunFindsClosed(c) \/ RunStarts(c) \/ RunIsRefused(c)

Next == \/ \E c \in Callers : Run(c) \/ RunTimesOut(c) \/ RunReturns(c)
        \/ Kill \/ KillForces \/ KillReturns \/ Close
        \/ \E s \in Streams : ReadLine(s) \/ ReadSentinel(s) \/ ShellPrints(s)
        \/ WaitShell \/ ShellReads \/ CommandEnds \/ ShellExits

Spec == Init /\ [][Next]_vars

(* Goroutines run on and kill's timer fires.  Nothing is asked of the shell: *)
(* a command may run for ever.                                             *)
FairSpec == /\ Spec
            /\ \A c \in Callers : /\ WF_vars(call[c].pc # "idle" /\ Run(c))
                                  /\ WF_vars(RunReturns(c))
            /\ WF_vars(KillForces) /\ WF_vars(KillReturns)
            /\ \A s \in Streams : WF_vars(ReadLine(s) \/ ReadSentinel(s))
            /\ WF_vars(WaitShell)

-----------------------------------------------------------------------------
(* Type correctness of the session, its callers and the shell. *)
TypeOK ==
  /\ current \in 0 .. MaxCommands /\ count \in 0 .. MaxCommands
  /\ closed \in BOOLEAN /\ waited \in BOOLEAN /\ ended \in BOOLEAN
  /\ command \in [Commands -> [start : [Streams -> Nat], sentinels : SUBSET Streams,
                               exit : {"", "own", "shell"}, closes : 0 .. 1]]
  /\ call \in [Callers -> [pc : {"idle", "blocked", "running"}, of : 0 .. MaxCommands]]
  /\ killer \in [pc : {"idle", "waiting", "forced"}, of : 0 .. MaxCommands]
  /\ \A s \in Streams : /\ buffer[s] \in Seq(Commands)
                        /\ pipe[s] \in Seq([of : Commands, sentinel : BOOLEAN])
  /\ shell \in [up : BOOLEAN, frames : Seq(Commands), running : 0 .. MaxCommands]
  /\ printed \in [Commands -> [Streams -> 0 .. MaxLines]]
  /\ result \in [Commands -> [status : {"", "running", "completed", "killed"},
                              exit : {"", "own", "shell"}, output : [Streams -> Seq(Commands)]]]

(* The shell never has two commands, and the one it has is the current one: *)
(* a caller that timed out, a kill that gave the lock away or a session     *)
(* that closes lets nobody start a command in between.                     *)
OneCommandAtATime ==
  LET inShell == {n \in Commands : n = shell.running \/ \E i \in DOMAIN shell.frames : shell.frames[i] = n}
  IN  inShell \subseteq {current} /\ Len(shell.frames) <= 1

(* The two readers, waitShell and a refused write complete each command     *)
(* once, and nobody can be left waiting: what a caller or kill waits for is *)
(* done or still the current command, which one of them will complete.      *)
AwaitedGetsDone ==
  /\ \A n \in Commands : command[n].closes <= 1
  /\ \A n \in {call[c].of : c \in Callers} \cup {killer.of} : n = 0 \/ Done(n) \/ n = current

(* A command completed by its sentinels has all of its output, on both      *)
(* streams, in the result, although the readers run independently.          *)
CompletedHasAllItsOutput ==
  \A n \in Commands : result[n].status = "completed" /\ result[n].exit = "own" =>
    \A s \in Streams :
      Cardinality({i \in DOMAIN result[n].output[s] : result[n].output[s][i] = n}) = printed[n][s]

(* close ends every run that is under way, and kill ends itself, however    *)
(* long the commands would take and whatever the shell does with SIGTERM.   *)
CloseAndKillReturn ==
  /\ \A c \in Callers : ended /\ call[c].pc # "idle" ~> call[c].pc = "idle"
  /\ killer.pc # "idle" ~> killer.pc = "idle"

-----------------------------------------------------------------------------
(* What the repository says and the code does not do.                      *)

(* README: the result has "command-local `command_stdout` /                 *)
(* `command_stderr`": the output of this command alone.                     *)
OutputIsOwn ==
  \A n \in Commands, s \in Streams :
    \A i \in DOMAIN result[n].output[s] : result[n].output[s][i] = n
=============================================================================
