---------------------------- MODULE StdioClient ----------------------------
(***************************************************************************)
(* The MCP client over a subprocess (mcp/stdio_client.go) with its lazily  *)
(* loaded tools (mcp/client.go): goroutines that call Tools or CallTool,   *)
(* the goroutine that reads the server's output, Close, and the server.    *)
(*                                                                         *)
(* The mutex c.mu guards `pending' and `closed' and is held while a line   *)
(* is written, which blocks when the pipe is full; clientState.mu is held  *)
(* for as long as the tools are loaded.  Any other use of a mutex is part  *)
(* of one step.  Each request makes a channel of its own with room for one *)
(* response; channels are numbered in the order they are made.             *)
(***************************************************************************)
EXTENDS Naturals, Sequences, FiniteSets

CONSTANTS Callers,   \* goroutines using the client
          MaxCalls,  \* bound: calls of Tools and CallTool
          Capacity,  \* bound: lines that fit into a pipe
          OwnIds     \* bound: the ids of requests of the server's own

NoOne == "no one"

ASSUME StdioClientAssumption == /\ MaxCalls \in Nat /\ Capacity \in Nat \ {0}
                                /\ NoOne \notin Callers /\ OwnIds \subseteq Nat

VARIABLES nextID,   \* c.nextID
          pending,  \* c.pending: the channel waiting for each id
          closed,   \* c.closed
          mu,       \* who holds c.mu while writing
          channels, \* what each channel holds
          call,     \* where each caller is
          loading,  \* who holds clientState.mu for loading
          tools,    \* clientState: "unknown", "loaded" or "degraded"
          reader,   \* readLoop: "reading", "sending" or "ended"
          taken,    \* the channel and the line the reader is delivering
          closer,   \* Close: "open", "waiting" for the process, or "done"
          stdin, stdout,  \* the pipes, lines in order
          server,   \* [up, asked]: running, and the requests it has read
          started,  \* history: calls made
          loads,    \* history: initialize requests sent
          gaveUp    \* history: the reader ended before Close was called

clientVars == <<nextID, pending, closed, mu, channels>>
stateVars == <<loading, tools>>
readerVars == <<reader, taken, gaveUp>>
serverVars == <<stdin, stdout, server>>
vars == <<clientVars, call, stateVars, readerVars, closer, serverVars, started, loads>>

Channels == 1 .. MaxCalls + 1   \* only the first load takes two requests
Empty == [kind |-> "empty", for |-> 0]
Failure == [kind |-> "failure", for |-> 0]
Idle == [pc |-> "idle", op |-> "", id |-> 0, ch |-> 0]
Nothing == [ch |-> 0, line |-> Empty]

Init == /\ nextID = 1 /\ pending = <<>> /\ closed = FALSE /\ mu = NoOne
        /\ channels = [ch \in Channels |-> Empty]
        /\ call = [c \in Callers |-> Idle]
        /\ loading = NoOne /\ tools = "unknown"
        /\ reader = "reading" /\ taken = Nothing
        /\ closer = "open"
        /\ stdin = <<>> /\ stdout = <<>> /\ server = [up |-> TRUE, asked |-> {}]
        /\ started = 0 /\ loads = 0 /\ gaveUp = FALSE

At(c, pc) == call[c].pc = pc
Goto(c, pc) == call' = [call EXCEPT ![c].pc = pc]
Without(f, id) == [i \in DOMAIN f \ {id} |-> f[i]]

-----------------------------------------------------------------------------
(* CallTool: refused when the load has degraded the client; waits for a     *)
(* load in progress.                                                       *)
CallTool(c) ==
  /\ At(c, "idle") /\ started < MaxCalls /\ loading = NoOne
  /\ started' = started + 1
  /\ call' = IF tools = "degraded" THEN call
             ELSE [call EXCEPT ![c] = [Idle EXCEPT !.pc = "register", !.op = "call"]]
  /\ UNCHANGED <<clientVars, stateVars, readerVars, closer, serverVars, loads>>

(* Tools: the cached descriptors, or the load.  LoadUnlocked, the mutant,   *)
(* lets another caller load at the same time.                              *)
Load(c) == /\ call' = [call EXCEPT ![c] = [Idle EXCEPT !.pc = "register", !.op = "initialize"]]
           /\ loads' = loads + 1

LoadUnlocked(c) ==
  /\ At(c, "idle") /\ started < MaxCalls
  /\ started' = started + 1
  /\ IF tools = "unknown" THEN Load(c) ELSE UNCHANGED <<call, loads>>
  /\ loading' = loading
  /\ UNCHANGED <<clientVars, tools, readerVars, closer, serverVars>>

Tools(c) ==
  /\ At(c, "idle") /\ started < MaxCalls /\ loading = NoOne
  /\ started' = started + 1
  /\ IF tools = "unknown" THEN Load(c) /\ loading' = c
                          ELSE UNCHANGED <<call, loads, loading>>
  /\ UNCHANGED <<clientVars, tools, readerVars, closer, serverVars>>

(* What the caller does when its request, or its notification, is over:     *)
(* CallTool returns; the load takes its next step, or ends.                *)
Finish(c, ok) ==
  LET loads_(pc, op) == call' = [call EXCEPT ![c] = [Idle EXCEPT !.pc = pc, !.op = op]]
                        /\ UNCHANGED stateVars
      ends(state) == call' = [call EXCEPT ![c] = Idle] /\ loading' = NoOne /\ tools' = state
  IN  CASE call[c].op = "call" -> call' = [call EXCEPT ![c] = Idle] /\ UNCHANGED stateVars
        [] call[c].op # "call" /\ ~ok -> ends("degraded")
        [] call[c].op = "initialize" /\ ok -> loads_("write", "initialized")
        [] call[c].op = "initialized" /\ ok -> loads_("register", "list")
        [] call[c].op = "list" /\ ok -> ends("loaded")

-----------------------------------------------------------------------------
(* request: take an id and register a new channel under it.  FreeID, the    *)
(* mutant, takes an id that no pending request has.                        *)
FreeID == Cardinality(DOMAIN pending) + 1
TakeID == nextID

Register(c) ==
  /\ At(c, "register") /\ mu = NoOne
  /\ LET id == TakeID  ch == nextID
     IN  /\ pending' = [i \in DOMAIN pending \cup {id} |-> IF i = id THEN ch ELSE pending[i]]
         /\ call' = [call EXCEPT ![c] = [@ EXCEPT !.pc = "write", !.id = id, !.ch = ch]]
  /\ nextID' = nextID + 1
  /\ UNCHANGED <<closed, mu, channels, stateVars, readerVars, closer, serverVars, started, loads>>

(* write: one line into the pipe, under the mutex. *)
Line(c) == [id |-> call[c].id, ch |-> call[c].ch]

Written(c) ==
  /\ server.up /\ Len(stdin) < Capacity
  /\ stdin' = Append(stdin, Line(c))
  /\ IF call[c].op = "initialized" THEN Finish(c, TRUE)
                                   ELSE Goto(c, "waiting") /\ UNCHANGED stateVars

Write(c) ==
  /\ At(c, "write") /\ mu = NoOne
  /\ ~closed
  /\ \/ Written(c) /\ UNCHANGED mu
     \/ /\ server.up /\ Len(stdin) = Capacity
        /\ mu' = c /\ Goto(c, "writing")
        /\ UNCHANGED <<stdin, stateVars>>
  /\ UNCHANGED <<nextID, pending, closed, channels, readerVars, closer, stdout, server, started, loads>>

WriteRefused(c) ==
  /\ At(c, "write") /\ mu = NoOne
  /\ closed \/ ~server.up
  /\ Goto(c, "forget")
  /\ UNCHANGED <<clientVars, stateVars, readerVars, closer, serverVars, started, loads>>

(* The blocked writer goes on, or finds the pipe broken.  The mutant does   *)
(* not unlock then.                                                        *)
WriteResumes(c) ==
  /\ At(c, "writing")
  /\ Written(c)
  /\ mu' = NoOne
  /\ UNCHANGED <<nextID, pending, closed, channels, readerVars, closer, stdout, server, started, loads>>

BrokenPipeLocked(c) ==
  /\ At(c, "writing") /\ ~server.up
  /\ Goto(c, "forget")
  /\ UNCHANGED <<clientVars, stateVars, readerVars, closer, serverVars, started, loads>>

BrokenPipe(c) ==
  /\ At(c, "writing") /\ ~server.up
  /\ mu' = NoOne
  /\ Goto(c, "forget")
  /\ UNCHANGED <<nextID, pending, closed, channels, stateVars, readerVars, closer, serverVars,
                 started, loads>>

(* The select: a response, or the timeout.  A line without an error is a    *)
(* result, an empty one if need be, whatever it was sent as.               *)
Receive(c) ==
  /\ At(c, "waiting") /\ channels[call[c].ch] # Empty
  /\ channels' = [channels EXCEPT ![call[c].ch] = Empty]
  /\ Finish(c, channels[call[c].ch].kind \in {"result", "request"})
  /\ UNCHANGED <<nextID, pending, closed, mu, readerVars, closer, serverVars, started, loads>>

TimeOut(c) ==
  /\ At(c, "waiting")
  /\ Goto(c, "forget")
  /\ UNCHANGED <<clientVars, stateVars, readerVars, closer, serverVars, started, loads>>

(* deletePending, and the request fails.  The mutant forgets the deletion. *)
KeepPending(c) ==
  /\ At(c, "forget") /\ mu = NoOne
  /\ Finish(c, FALSE)
  /\ UNCHANGED <<clientVars, readerVars, closer, serverVars, started, loads>>

DeletePending(c) ==
  /\ At(c, "forget") /\ mu = NoOne
  /\ pending' = Without(pending, call[c].id)
  /\ Finish(c, FALSE)
  /\ UNCHANGED <<nextID, closed, mu, channels, readerVars, closer, serverVars, started, loads>>

-----------------------------------------------------------------------------
(* readLoop: a line finds and removes the channel of its id, which is all   *)
(* that readLoop looks at; lines without id, or with one that nobody waits  *)
(* for, are dropped.  The mutant does not remove it.                       *)
PeekedOnly(id) == pending
Popped(id) == Without(pending, id)

ReadLine ==
  /\ reader = "reading" /\ stdout # <<>> /\ Head(stdout).kind # "malformed"
  /\ LET line == Head(stdout)
     IN  \/ /\ line.id = 0
            /\ UNCHANGED <<pending, reader, taken>>
         \/ /\ line.id # 0 /\ mu = NoOne
            /\ pending' = Popped(line.id)
            /\ IF line.id \in DOMAIN pending
               THEN /\ reader' = "sending"
                    /\ taken' = [ch |-> pending[line.id],
                                 line |-> [kind |-> line.kind, for |-> line.ch]]
               ELSE UNCHANGED <<reader, taken>>
  /\ stdout' = Tail(stdout)
  /\ UNCHANGED <<nextID, closed, mu, channels, call, stateVars, gaveUp, closer, stdin, server,
                 started, loads>>

Send ==
  /\ reader = "sending" /\ channels[taken.ch] = Empty
  /\ channels' = [channels EXCEPT ![taken.ch] = taken.line]
  /\ reader' = "reading" /\ taken' = Nothing
  /\ UNCHANGED <<nextID, pending, closed, mu, call, stateVars, gaveUp, closer, serverVars,
                 started, loads>>

(* failPending, at a line that is not JSON or at the end of the output      *)
(* Close's cmd.Wait may close the pipe with lines still in it); what nobody *)
(* will read is dropped here.  The mutant does not mark the client closed. *)
NotClosedByReader == closed
ClosedByReader == TRUE

FailPending ==
  /\ reader = "reading" /\ mu = NoOne
  /\ \/ stdout # <<>> /\ Head(stdout).kind = "malformed"
     \/ ~server.up /\ (stdout = <<>> \/ closer # "open")
  /\ closed' = ClosedByReader
  /\ channels' = [ch \in Channels |-> IF \E id \in DOMAIN pending : pending[id] = ch
                                      THEN Failure ELSE channels[ch]]
  /\ pending' = <<>>
  /\ reader' = "ended"
  /\ gaveUp' = (closer = "open")
  /\ stdout' = <<>>
  /\ UNCHANGED <<nextID, mu, call, stateVars, taken, closer, stdin, server, started, loads>>

-----------------------------------------------------------------------------
(* Close: at once when the client is closed already, by Close or by the     *)
(* reader; otherwise SIGTERM, and SIGKILL three seconds later.             *)
Close ==
  /\ closer = "open" /\ mu = NoOne
  /\ closed' = TRUE
  /\ closer' = IF closed THEN "done" ELSE "waiting"
  /\ UNCHANGED <<nextID, pending, mu, channels, call, stateVars, readerVars, serverVars, started, loads>>

CloseReturns ==
  /\ closer = "waiting" /\ ~server.up
  /\ closer' = "done"
  /\ UNCHANGED <<clientVars, call, stateVars, readerVars, serverVars, started, loads>>

(* The mutant is satisfied with SIGTERM. *)
CloseGivesUp ==
  /\ closer = "waiting"
  /\ closer' = "done"
  /\ UNCHANGED <<clientVars, call, stateVars, readerVars, serverVars, started, loads>>

CloseKills ==
  /\ closer = "waiting"
  /\ closer' = "done"
  /\ server' = [up |-> FALSE, asked |-> {}]
  /\ stdin' = <<>>
  /\ UNCHANGED <<clientVars, call, stateVars, readerVars, stdout, started, loads>>

-----------------------------------------------------------------------------
(* The server, which is not part of the repository: reads its requests,     *)
(* answers them in any order, late, twice or never, sends notifications and *)
(* requests of its own (a ping), with ids it counts for itself (as ch, the  *)
(* request that has the id too), prints something else, exits; what it      *)
(* prints for nobody to read is left out.                                  *)
ServerReads ==
  /\ server.up /\ stdin # <<>>
  /\ stdin' = Tail(stdin)
  /\ server' = [server EXCEPT !.asked = IF Head(stdin).id = 0 THEN @ ELSE @ \cup {Head(stdin)}]
  /\ UNCHANGED <<clientVars, call, stateVars, readerVars, closer, stdout, started, loads>>

Prints(line) ==
  /\ server.up /\ Len(stdout) < Capacity /\ reader # "ended"
  /\ stdout' = Append(stdout, line)
  /\ UNCHANGED <<clientVars, call, stateVars, readerVars, closer, stdin, started, loads>>

ServerAnswers ==
  /\ \E request \in server.asked, kind \in {"result", "error"} :
       Prints([kind |-> kind, id |-> request.id, ch |-> request.ch])
  /\ UNCHANGED server

ServerPrints ==
  /\ \E kind \in {"notification", "malformed"} : Prints([kind |-> kind, id |-> 0, ch |-> 0])
  /\ UNCHANGED server

ServerAsks ==
  /\ \E id \in OwnIds : Prints([kind |-> "request", id |-> id, ch |-> id])
  /\ UNCHANGED server

ServerExits ==
  /\ server.up
  /\ server' = [up |-> FALSE, asked |-> {}]
  /\ stdin' = <<>>
  /\ UNCHANGED <<clientVars, call, stateVars, readerVars, closer, stdout, started, loads>>

-----------------------------------------------------------------------------
Request(c) == \/ Register(c) \/ Write(c) \/ WriteRefused(c) \/ WriteResumes(c) \/ BrokenPipe(c)
              \/ Receive(c) \/ TimeOut(c) \/ DeletePending(c)

ReadLoop == ReadLine \/ Send \/ FailPending

Server == ServerReads \/ ServerAnswers \/ ServerPrints \/ ServerAsks \/ ServerExits

Next == \/ \E c \in Callers : CallTool(c) \/ Tools(c) \/ Request(c)
        \/ ReadLoop
        \/ Close \/ CloseReturns \/ CloseKills
        \/ Server

Spec == Init /\ [][Next]_vars

(* Goroutines run on, timers fire, and a server that is up reads its input: *)
(* of one that does not, writes block without a timeout.                   *)
FairSpec == /\ Spec
            /\ \A c \in Callers : WF_vars(Request(c))
            /\ WF_vars(ReadLoop) /\ WF_vars(CloseReturns \/ CloseKills)
            /\ WF_vars(ServerReads)

-----------------------------------------------------------------------------
Responses == [kind : {"empty", "failure", "result", "error", "request"}, for : Nat]

(* Type correctness of the client, its callers, the pipes and the server. *)
TypeOK ==
  /\ nextID \in 1 .. MaxCalls + 2
  /\ DOMAIN pending \subseteq Nat \ {0} /\ \A id \in DOMAIN pending : pending[id] \in Channels
  /\ closed \in BOOLEAN /\ mu \in Callers \cup {NoOne}
  /\ channels \in [Channels -> Responses]
  /\ call \in [Callers -> [pc : {"idle", "register", "write", "writing", "waiting", "forget"},
                           op : {"", "call", "initialize", "initialized", "list"},
                           id : Nat, ch : {0} \cup Channels]]
  /\ loading \in Callers \cup {NoOne} /\ tools \in {"unknown", "loaded", "degraded"}
  /\ reader \in {"reading", "sending", "ended"} /\ gaveUp \in BOOLEAN
  /\ taken \in [ch : {0} \cup Channels, line : Responses]
  /\ closer \in {"open", "waiting", "done"}
  /\ Len(stdin) <= Capacity /\ Len(stdout) <= Capacity
  /\ server.up \in BOOLEAN /\ started \in 0 .. MaxCalls /\ loads \in Nat

(* A request only ever receives the server's response to itself, however    *)
(* late the responses to the requests before it come, and however often.    *)
(* There is one exception, since the id alone decides: a request of the     *)
(* server's own with just the id that the caller's has is taken for its     *)
(* result, an empty one, and the response that follows finds nobody.        *)
AnswersOwnRequest ==
  \A ch \in Channels :
    channels[ch].kind \in {"result", "error", "request"} => channels[ch].for = ch

(* readLoop and failPending send without a select, the latter under the     *)
(* mutex: the channel they send on has room, whoever has timed out and      *)
(* however often the server answers.                                       *)
SendNeverBlocks ==
  /\ reader = "sending" => channels[taken.ch] = Empty
  /\ \A id \in DOMAIN pending : channels[pending[id]] = Empty

(* No entry of `pending' outlives its request: each belongs to a caller     *)
(* that is still inside request.                                           *)
PendingIsWaitedFor ==
  \A id \in DOMAIN pending : \E c \in Callers :
    call[c].ch = pending[id] /\ call[c].pc \in {"write", "writing", "waiting", "forget"}

(* Once the reader has ended, no caller sits out its timeout: whoever got   *)
(* its line out finds the failure in its channel, the others an error.      *)
NobodyWaitsForADeadReader ==
  reader = "ended" => \A c \in Callers : At(c, "waiting") => channels[call[c].ch] # Empty

(* Tools initializes the server once, however many callers ask for them.    *)
InitializedOnce == loads <= 1

(* When Close has returned the process has ended, unless the reader had     *)
(* given up before: `closed' is set then, and Close leaves the process be.  *)
CloseEndsTheServer == closer = "done" => ~server.up \/ gaveUp

(* Every call of Tools and CallTool returns. *)
CallsReturn == \A c \in Callers : ~At(c, "idle") ~> At(c, "idle")
=============================================================================
