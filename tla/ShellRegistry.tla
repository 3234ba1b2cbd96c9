--------------------------- MODULE ShellRegistry ---------------------------
(***************************************************************************)
(* The shells of the bash_session tool beside each other (bash_session.go): *)
(* the registry that starts and finds them by id under its mutex, what a    *)
(* call does with a shell it has found when the mutex is released again,    *)
(* Close, and the ring buffer a result is cut from.                        *)
(*                                                                         *)
(* The calls inside one session take turns as in BashSession, of which      *)
(* only `busy' is left here.  Bytes are numbered as they are written, one   *)
(* stream stands for both.                                                 *)
(***************************************************************************)
EXTENDS Naturals, Sequences, Functions

CONSTANTS Handlers,    \* goroutines that call the tool or Close
          ShellIds,    \* session ids a caller may think of
          MaxShells,   \* bound: shells started
          MaxOutput,   \* max_output_bytes
          MaxPrinted   \* bound: bytes printed by all shells

Nobody == "nobody"

ASSUME ShellRegistryAssumption ==
  /\ MaxShells \in Nat /\ MaxOutput \in Nat \ {0} /\ MaxPrinted \in Nat
  /\ \A id \in ShellIds : id \notin Nat
  /\ Nobody \notin Handlers

VARIABLES registered,  \* r.sessions: id -> shell
          registryMu,  \* who holds r.mu
          shells,      \* the sessions ever started
          handling,    \* where each call of Handle or Close is
          snapshot     \* history: the last result of each caller

registryVars == <<registered, registryMu, shells, handling, snapshot>>

NoShellId == 0
Free == [pc |-> "free", id |-> NoShellId, of |-> 0, start |-> 0]
NoSnapshot == [start |-> 0, end |-> 0, output |-> <<>>, truncated |-> FALSE]
Shell(id) == [id |-> id, closed |-> FALSE, busy |-> FALSE,
              data |-> <<>>, total |-> 0, truncated |-> FALSE]

RegistryInit ==
  /\ registered = <<>> /\ registryMu = Nobody /\ shells = <<>>
  /\ handling = [h \in Handlers |-> Free]
  /\ snapshot = [h \in Handlers |-> NoSnapshot]

Doing(h, pc) == handling[h].pc = pc
Then(h, pc) == handling' = [handling EXCEPT ![h].pc = pc]
Leaves(h) == handling' = [handling EXCEPT ![h] = Free]
Finds(h, op, n) == handling' = [handling EXCEPT ![h] = [Free EXCEPT !.pc = op, !.of = n]]

-----------------------------------------------------------------------------
(* Handle up to what session decides under r.mu: the shell of that id, an   *)
(* error, or, for "run", a shell to start, for which the mutex is kept.     *)
(* A caller names an id of its own, one that was drawn before, or none.     *)
(* "status" only reads and leaves no trace here.  The mutant starts the     *)
(* shell without the mutex.                                                *)
DropsLock(h) == UNCHANGED registryMu
KeepsLock(h) == registryMu' = h

Handle(h) ==
  /\ Doing(h, "free") /\ registryMu = Nobody
  /\ \E op \in {"run", "kill"}, id \in ShellIds \cup {NoShellId} \cup DOMAIN shells :
       \/ /\ id \in DOMAIN registered
          /\ Finds(h, op, registered[id]) /\ UNCHANGED registryMu
       \/ /\ id \notin DOMAIN registered /\ op = "run"
          /\ handling' = [handling EXCEPT ![h] = [Free EXCEPT !.pc = "start", !.id = id]]
          /\ KeepsLock(h)
  /\ UNCHANGED <<registered, shells, snapshot>>

(* startBashSession may fail; an id that was not given is drawn, from       *)
(* numbers here.                                                           *)
StartShell(h) ==
  /\ Doing(h, "start")
  /\ \/ /\ Len(shells) < MaxShells
        /\ LET n == Len(shells) + 1
               id == IF handling[h].id = NoShellId THEN n ELSE handling[h].id
           IN  /\ shells' = Append(shells, Shell(id))
               /\ registered' = [i \in DOMAIN registered \cup {id} |->
                                   IF i = id THEN n ELSE registered[i]]
               /\ Finds(h, "run", n)
     \/ Leaves(h) /\ UNCHANGED <<shells, registered>>
  /\ registryMu' = Nobody
  /\ UNCHANGED snapshot

-----------------------------------------------------------------------------
(* An env that cannot be used ends the call after the shell was started.    *)
EnvRefused(h) ==
  /\ Doing(h, "run")
  /\ Leaves(h)
  /\ UNCHANGED <<registered, registryMu, shells, snapshot>>

(* run, in its turn: from the offset of the buffer on; refused by a session *)
(* that was closed meanwhile.                                              *)
RunsCommand(h) ==
  /\ Doing(h, "run")
  /\ LET s == shells[handling[h].of]
     IN  /\ ~s.busy
         /\ IF s.closed
            THEN Leaves(h) /\ UNCHANGED shells
            ELSE /\ handling' = [handling EXCEPT ![h].pc = "running", ![h].start = s.total]
                 /\ shells' = [shells EXCEPT ![handling[h].of].busy = TRUE]
  /\ UNCHANGED <<registered, registryMu, snapshot>>

(* ringBuffer.WriteString: k bytes more, of which the last MaxOutput stay.  *)
(* What a command leaves running, or the pipe of a shell that is gone still *)
(* held, is printed without a command under way.                           *)
LastOf(seq, k) == IF Len(seq) > k THEN SubSeq(seq, Len(seq) - k + 1, Len(seq)) ELSE seq

Written(s, k) ==
  LET data == s.data \o [i \in 1 .. k |-> s.total + i]
  IN  [s EXCEPT !.total = @ + k, !.data = LastOf(data, MaxOutput),
                !.truncated = @ \/ Len(data) > MaxOutput]

PrintedByAll == FoldFunction(LAMBDA s, sum : s.total + sum, 0, shells)

ShellWrites ==
  \E n \in DOMAIN shells, k \in 1 .. MaxPrinted :
    /\ PrintedByAll + k <= MaxPrinted
    /\ shells' = [shells EXCEPT ![n] = Written(@, k)]
    /\ UNCHANGED <<registered, registryMu, handling, snapshot>>

CommandDone ==
  \E n \in DOMAIN shells :
    /\ shells[n].busy
    /\ shells' = [shells EXCEPT ![n].busy = FALSE]
    /\ UNCHANGED <<registered, registryMu, handling, snapshot>>

(* ringBuffer.StringFrom, of an offset the buffer has reached before.  The  *)
(* mutant counts from the bytes still there.                               *)
StringFromStart(s, offset) ==
  SubSeq(s.data, (IF offset > Len(s.data) THEN Len(s.data) ELSE offset) + 1, Len(s.data))

StringFrom(s, offset) ==
  LET startOffset == s.total - Len(s.data)
      from == IF offset < startOffset THEN startOffset ELSE offset
  IN  SubSeq(s.data, from - startOffset + 1, Len(s.data))

(* run returns, its command done or its timeout over: the output, and then  *)
(* whether the buffer has dropped any.                                     *)
RunSnapshots(h) ==
  /\ Doing(h, "running")
  /\ LET s == shells[handling[h].of]
     IN  snapshot' = [snapshot EXCEPT ![h] =
           [start |-> handling[h].start, end |-> s.total,
            output |-> StringFrom(s, handling[h].start), truncated |-> FALSE]]
  /\ Then(h, "flag")
  /\ UNCHANGED <<registered, registryMu, shells>>

RunAnswers(h) ==
  /\ Doing(h, "flag")
  /\ snapshot' = [snapshot EXCEPT ![h].truncated = shells[handling[h].of].truncated]
  /\ Then(h, "answered")
  /\ UNCHANGED <<registered, registryMu, shells>>

Returns(h) ==
  /\ Doing(h, "answered")
  /\ snapshot' = [snapshot EXCEPT ![h] = NoSnapshot]
  /\ Leaves(h)
  /\ UNCHANGED <<registered, registryMu, shells>>

(* kill does nothing to a session without a command.  Another is closed,    *)
(* whether or not its shell outlives its command.                          *)
KillsShell(h) ==
  /\ Doing(h, "kill")
  /\ shells' = [shells EXCEPT ![handling[h].of] =
                  IF @.busy THEN [@ EXCEPT !.closed = TRUE, !.busy = FALSE] ELSE @]
  /\ Leaves(h)
  /\ UNCHANGED <<registered, registryMu, snapshot>>

-----------------------------------------------------------------------------
(* Close: the sessions one after the other, all under r.mu, then none.      *)
ClosesRegistry(h) ==
  /\ Doing(h, "free") /\ registryMu = Nobody
  /\ registryMu' = h
  /\ Then(h, "closing")
  /\ UNCHANGED <<registered, shells, snapshot>>

StillOpen == {n \in Range(registered) : ~shells[n].closed}

ClosesSession(h) ==
  /\ Doing(h, "closing")
  /\ \E n \in StillOpen : shells' = [shells EXCEPT ![n].closed = TRUE]
  /\ UNCHANGED <<registered, registryMu, handling, snapshot>>

RegistryClosed(h) ==
  /\ Doing(h, "closing") /\ StillOpen = {}
  /\ registered' = <<>>
  /\ registryMu' = Nobody
  /\ Leaves(h)
  /\ UNCHANGED <<shells, snapshot>>

(* A shell exits of its own, or of the signals; waitShell marks its session *)
(* closed, which the registry keeps.                                       *)
ShellEnds ==
  \E n \in DOMAIN shells :
    /\ shells[n].busy \/ ~shells[n].closed
    /\ shells' = [shells EXCEPT ![n].closed = TRUE, ![n].busy = FALSE]
    /\ UNCHANGED <<registered, registryMu, handling, snapshot>>

RegistryNext ==
  \/ \E h \in Handlers :
       \/ Handle(h) \/ StartShell(h) \/ EnvRefused(h) \/ RunsCommand(h) \/ RunSnapshots(h)
       \/ RunAnswers(h) \/ Returns(h) \/ KillsShell(h)
       \/ ClosesRegistry(h) \/ ClosesSession(h) \/ RegistryClosed(h)
  \/ ShellWrites \/ CommandDone \/ ShellEnds

RegistrySpec == RegistryInit /\ [][RegistryNext]_registryVars

-----------------------------------------------------------------------------
(* No shell is lost: one that is not closed is found under its id, by kill   *)
(* and by Close, however many calls name the same new id at once and        *)
(* however many sessions Close has ended and others have started since.     *)
ShellsAreReachable ==
  \A n \in DOMAIN shells :
    ~shells[n].closed => shells[n].id \in DOMAIN registered /\ registered[shells[n].id] = n

(* The output of a command is what was printed since it started, the last   *)
(* bytes of it where they do not fit; "truncated" is set if any are missing, *)
(* whatever is printed between the two readings.                           *)
OutputIsTail ==
  \A h \in Handlers :
    LET s == snapshot[h]
        missing == s.end - s.start - Len(s.output)
    IN  /\ s.output = [i \in 1 .. Len(s.output) |-> s.start + missing + i]
        /\ missing > 0 => Len(s.output) = MaxOutput
        /\ missing > 0 => Doing(h, "flag") \/ s.truncated
=============================================================================
