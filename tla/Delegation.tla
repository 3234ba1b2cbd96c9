----------------------------- MODULE Delegation -----------------------------
(***************************************************************************)
(* Sessions beside each other: children made by spawn_agent, forks, the    *)
(* files they are saved to and loaded from, and the tree of delegations    *)
(* that is read off their logs (session.go, tools.go, portability.go,      *)
(* delegation_projection.go).  Ids are numbers in the order they are       *)
(* drawn; a child and the spawn that made it share one.                    *)
(***************************************************************************)
EXTENDS Naturals, Sequences, FiniteSets, FiniteSetsExt, SequencesExt

CONSTANTS MaxSessions,  \* bound: sessions ever created
          MaxRows,      \* bound: events of one log
          MaxDeaths,    \* bound: crashes of the process
          MaxOdd        \* bound: events in memory with a payload that is
                        \* not canonical JSON, when another is made

ASSUME DelegationAssumption == {MaxSessions, MaxRows, MaxDeaths, MaxOdd} \subseteq Nat

VARIABLES sessions,   \* in memory: id -> Session, Gone when there is none
          files,      \* by Save: id -> what the file holds
          drawn,      \* how many ids newID has given out
          deaths,
          copied,     \* history: id -> the events its log took from the one
                      \* it was forked from
          strays      \* history: children whose Runner had another parent
                      \* than the session that got the spawn, or none

delegationVars == <<sessions, files, drawn, deaths, copied, strays>>

SessionIds == 1 .. MaxSessions
Gone == [id |-> 0]
NoFile == [lines |-> <<>>, torn |-> FALSE]

(* A row; spawn is what it is about, 0 in an event of another kind.         *)
Row(seq, type, spawn, payload) ==
  [seq |-> seq, type |-> type, spawn |-> spawn, payload |-> payload]

(* What a payload may hold.  An invalid one holds text that is not UTF-8,   *)
(* or a Go type that writeJCSV1 does not know; a narrow one, a float32,     *)
(* which the two encoders write differently; NaN is for none to write.      *)
Payloads == {"canonical", "invalid", "narrow", "NaN"}
TextPayloads == {"canonical", "invalid"}

(* NewSession.                                                              *)
NewSession(id, log) ==
  [id |-> id, parent |-> 0, root |-> 0, spawn |-> 0, log |-> log, latched |-> FALSE]

Live == {s \in SessionIds : sessions[s] # Gone}

DelegationInit ==
  /\ sessions = [s \in SessionIds |-> Gone]
  /\ files = [s \in SessionIds |-> NoFile]
  /\ drawn = 0 /\ deaths = 0
  /\ copied = [s \in SessionIds |-> 0]
  /\ strays = {}

(* newID: never the same twice.                                             *)
Draw(s) == s = drawn + 1 /\ drawn' = s

-----------------------------------------------------------------------------
Appended(log, type, spawn, payload) == Append(log, Row(Len(log), type, spawn, payload))

Odd == UNION {{<<s, i>> : i \in {j \in DOMAIN sessions[s].log :
                                   sessions[s].log[j].payload # "canonical"}} : s \in Live}

(* The payloads the bound leaves. *)
Allowed(payloads) ==
  {payload \in payloads : payload = "canonical" \/ Cardinality(Odd) < MaxOdd}

CreateSession(s) ==
  /\ Draw(s)
  /\ sessions' = [sessions EXCEPT ![s] = NewSession(s, <<>>)]
  /\ UNCHANGED <<files, deaths, copied, strays>>

(* Any event of the conversation, and what a host reports of a child.       *)
AppendEvent(s) ==
  /\ s \in Live /\ ~sessions[s].latched /\ Len(sessions[s].log) < MaxRows
  /\ \E payload \in Allowed(Payloads) :
       \/ sessions' = [sessions EXCEPT ![s].log = Appended(@, "message", 0, payload)]
       \/ \E e \in ToSet(sessions[s].log) :
            /\ e.type = "agent_spawn"
            /\ sessions' = [sessions EXCEPT ![s].log =
                             Appended(@, "agent_result", e.spawn, payload)]
  /\ UNCHANGED <<files, drawn, deaths, copied, strays>>

(* What a child knows of where it comes from.  Runner.ParentSession is the  *)
(* session itself when the loop or ApproveToolUse runs the call, and any    *)
(* other or none when a host does.                                          *)
NoParent == 0
Lineage(owner) ==
  IF owner = NoParent THEN [parent |-> 0, root |-> 0]
  ELSE LET p == sessions[owner]
       IN  [parent |-> p.id, root |-> IF p.root = 0 THEN p.id ELSE p.root]

(* Runner.runSpawnAgent: the child is there before the two appends to the   *)
(* parent's log, of which the storage may fail the first or the second.     *)
SpawnAgent(s, c, owner) ==
  \E task \in Allowed(TextPayloads) :
    LET p == sessions[s]
        l == Lineage(owner)
        child == [NewSession(c, <<Row(0, "message", 0, task)>>) EXCEPT
                    !.parent = l.parent, !.root = l.root, !.spawn = c]
        spawned == Appended(p.log, "agent_spawn", c, task)
    IN /\ s \in Live /\ owner \in Live \cup {NoParent}
       /\ Draw(c) /\ Len(p.log) + 1 < MaxRows
       /\ \E after \in {p.log, spawned, Appended(spawned, "message", 0, "canonical")} :
            /\ p.latched => after = p.log
            /\ sessions' = [sessions EXCEPT
                 ![c] = child,
                 ![s].log = after,
                 ![s].latched = Len(after) < Len(p.log) + 2]
       /\ strays' = IF owner = s THEN strays ELSE strays \cup {c}
       /\ UNCHANGED <<files, deaths, copied>>

(* The rows before the first one that is not fit. *)
RowsWhile(log, Fit(_)) ==
  LET kept == {i \in DOMAIN log : \A j \in 1 .. i : Fit(log[j])}
  IN  SubSeq(log, 1, Cardinality(kept))

(* Fork copies the events before the first one beyond a seq, which may be   *)
(* none, and the lineage.  The mutant leaves out what would break the       *)
(* fork's tree.                                                            *)
ForkedLogWithoutSpawns(log, at) ==
  SelectSeq(log, LAMBDA e : e.seq <= at /\ e.type # "agent_spawn")
ForkedLog(log, at) == RowsWhile(log, LAMBDA e : e.seq <= at)

Fork(s, f) ==
  \E at \in 0 .. MaxRows :
    /\ s \in Live /\ Draw(f)
    /\ sessions' = [sessions EXCEPT ![f] =
         [sessions[s] EXCEPT !.id = f, !.log = ForkedLog(@, at), !.latched = FALSE]]
    /\ copied' = [copied EXCEPT ![f] = Len(ForkedLog(sessions[s].log, at))]
    /\ UNCHANGED <<files, deaths, strays>>

-----------------------------------------------------------------------------
(* The header Save writes, and the session made of it by LoadSession.      *)
(* The mutant forgets a field that not every session has.                   *)
HeaderWithoutSpawn(p) == [id |-> p.id, parent |-> p.parent, root |-> p.root, spawn |-> 0]
Header(p) == [id |-> p.id, parent |-> p.parent, root |-> p.root, spawn |-> p.spawn]

(* json.Encoder writes U+FFFD for what is not UTF-8 and is read back as     *)
(* plain JSON; it gives up at NaN, and so does Save, the lines before it    *)
(* written.                                                                 *)
AsWritten(e) == [e EXCEPT !.payload = "canonical"]

Encoded(log) == RowsWhile(log, LAMBDA e : e.payload # "NaN")

RowLines(log) == [i \in DOMAIN Encoded(log) |-> AsWritten(log[i])]

Lines(p) == <<Header(p)>> \o RowLines(p.log)

Dense(rows) == \A i \in DOMAIN rows : rows[i].seq = i - 1

Loadable(file) ==
  /\ Len(file.lines) > 0 /\ ~file.torn
  /\ Dense(Tail(file.lines))

Loaded(file) ==
  LET header == Head(file.lines)
  IN [NewSession(header.id, Tail(file.lines)) EXCEPT
        !.parent = header.parent, !.root = header.root, !.spawn = header.spawn]

Save(s) ==
  /\ s \in Live
  /\ files' = [files EXCEPT ![s] = [lines |-> Lines(sessions[s]), torn |-> FALSE]]
  /\ UNCHANGED <<sessions, drawn, deaths, copied, strays>>

(* The process dies in Save, or between two calls: of the file that Save    *)
(* truncated, some lines are there again, perhaps half of the next too.     *)
Die ==
  /\ deaths < MaxDeaths /\ Live # {}
  /\ deaths' = deaths + 1
  /\ sessions' = [s \in SessionIds |-> Gone]
  /\ \/ UNCHANGED files
     \/ \E s \in Live : \E k \in 0 .. Len(RowLines(sessions[s].log)), torn \in BOOLEAN :
          files' = [files EXCEPT ![s] =
                      [lines |-> SubSeq(Lines(sessions[s]), 1, k), torn |-> torn]]
  /\ UNCHANGED <<drawn, copied, strays>>

LoadSession(s) ==
  /\ s \notin Live /\ Loadable(files[s])
  /\ sessions' = [sessions EXCEPT ![s] = Loaded(files[s])]
  /\ copied' = [copied EXCEPT ![s] = Min({@, Len(files[s].lines) - 1})]
  /\ UNCHANGED <<files, drawn, deaths, strays>>

DelegationNext ==
  \/ Die
  \/ \E s \in SessionIds :
       \/ CreateSession(s) \/ AppendEvent(s) \/ Save(s) \/ LoadSession(s)
       \/ \E t \in SessionIds : Fork(s, t)
       \/ \E t \in SessionIds, owner \in SessionIds \cup {NoParent} : SpawnAgent(s, t, owner)

DelegationSpec == DelegationInit /\ [][DelegationNext]_delegationVars

-----------------------------------------------------------------------------
(* delegation_projection.go, with a resolver that has the sessions in      *)
(* memory and opens the files of the others.                               *)
Resolves(s) == s \in Live \/ Loadable(files[s])
Resolved(s) == IF s \in Live THEN sessions[s] ELSE Loaded(files[s])

Spawns(s) == {e \in ToSet(Resolved(s).log) : e.type = "agent_spawn"}

Results(s, spawn) ==
  {e \in ToSet(Resolved(s).log) : e.type = "agent_result" /\ e.spawn = spawn}

ValidChildLink(s, spawn) ==
  /\ Resolves(spawn)
  /\ Resolved(spawn).parent = Resolved(s).id /\ Resolved(spawn).spawn = spawn

ChildrenOf(s) == IF Resolves(s) THEN {e.spawn : e \in Spawns(s)} ELSE {}

(* The sessions met on the way down from those in from.                     *)
Below(from) ==
  LET down[n \in 0 .. MaxSessions] ==
        IF n = 0 THEN from
        ELSE LET above == down[n - 1]
             IN  above \cup UNION {ChildrenOf(s) : s \in above}
  IN  down[MaxSessions]

DelegationTree(s) ==
  \A p \in Below({s}) :
    /\ Resolves(p) /\ p \notin Below(ChildrenOf(p))
    /\ \A e \in Spawns(p) : ValidChildLink(p, e.spawn) /\ Cardinality(Results(p, e.spawn)) <= 1

(* VerifySessionPortable: dense, each payload one that ContentHash takes,   *)
(* and the same after Save and LoadSession.                                 *)
Hashed(e) == e.payload \in {"canonical", "narrow"}

Portable(p) ==
  LET file == [lines |-> Lines(p), torn |-> FALSE]
  IN /\ Dense(p.log) /\ \A i \in DOMAIN p.log : Hashed(p.log[i])
     /\ Loadable(file) /\ Loaded(file).log = p.log

-----------------------------------------------------------------------------
(* The tree of a session can be read unless it meets a session that is not  *)
(* to be had, a spawn taken from the log it was forked from, a child of a   *)
(* Runner that had another parent session or none, or a spawn reported      *)
(* twice: whatever was forked, saved, cut off and loaded, a link is broken  *)
(* by nothing else, and there is no cycle.                                  *)
OwnSpawns(p) == \A e \in Spawns(p) : e.seq >= copied[p] /\ e.spawn \notin strays

TreesResolve ==
  \A s \in Live :
    DelegationTree(s) <=>
      \A p \in Below({s}) :
        /\ Resolves(p) /\ OwnSpawns(p)
        /\ \A e \in Spawns(p) : Cardinality(Results(p, e.spawn)) <= 1

(* VerifySessionPortable blames a session in memory for a payload and for   *)
(* nothing else.  What LoadSession makes of a file always passes, also when *)
(* the session that was saved did not, or the save stopped halfway; and     *)
(* while a session is in memory its file holds the first of its events, as  *)
(* written: nothing was lost between them, repeated or left from an older   *)
(* save.                                                                    *)
SavedIsPortable ==
  \A s \in SessionIds :
    /\ s \in Live =>
         (Portable(sessions[s]) <=>
            \A i \in DOMAIN sessions[s].log : sessions[s].log[i].payload = "canonical")
    /\ Loadable(files[s]) => Portable(Loaded(files[s]))
    /\ s \in Live /\ Loadable(files[s]) =>
         LET log == sessions[s].log
             rows == Loaded(files[s]).log
         IN  /\ Len(rows) <= Len(log)
             /\ \A i \in DOMAIN rows : rows[i] = AsWritten(log[i])
=============================================================================
