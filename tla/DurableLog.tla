---------------------------- MODULE DurableLog ----------------------------
(***************************************************************************)
(* The write-through Log (log.go), Session.BindStorage and                 *)
(* LoadSessionFromStorage (persistent_log.go) over one StorageAdapter,     *)
(* used by several writers: each writer is one Session on the same stored  *)
(* session, in its own goroutine or process.  AppendEvents is not atomic:  *)
(* it reads the stored rows, checks the OCC fence, and publishes in a      *)
(* second step, between which the other writers act.                       *)
(*                                                                         *)
(* Backend selects the adapter.                                            *)
(*   "sql"   storage_sql.go.  The second step is INSERTs and COMMIT of a   *)
(*           transaction; the primary key (session, seq) refuses a row     *)
(*           whose seq is stored already.                                  *)
(*   "file"  storage.go.  The second step renames a file holding the rows  *)
(*           read in the first step and the new ones over the old file.    *)
(* Serial says that the host lets no two sessions use the adapter at once. *)
(***************************************************************************)
EXTENDS Naturals, Sequences

CONSTANTS Writers,   \* sessions sharing the stored session
          Events,    \* event contents (type and payload)
          TypeOf,    \* the type of each event, all that BindStorage compares
          Backend,   \* "sql" or "file"
          Serial,    \* TRUE: storage operations of two sessions never overlap
          MaxRows,   \* bound: rows and events in memory
          MaxUnbound,\* bound: events in memory before storage is bound
          MaxBatch   \* bound: drafts in one AppendBatch

ASSUME DurableLogAssumption ==
  /\ Backend \in {"sql", "file"}
  /\ Serial \in BOOLEAN
  /\ MaxRows \in Nat /\ MaxUnbound \in Nat
  /\ MaxBatch \in Nat \ {0}
  /\ TypeOf \in [Events -> {TypeOf[e] : e \in Events}]

VARIABLES header,   \* the session header is stored
          rows,     \* the stored rows, the row with seq n at position n + 1
          session,  \* "down", "unbound", "attached" (BindStorage), "loaded"
          mem,      \* Log.events
          latch,    \* Log.storageErr
          op,       \* the storage operation in progress
          acked     \* history: <<position, event>> of every row acknowledged

vars == <<header, rows, session, mem, latch, op, acked>>

Batches == UNION {[1 .. n -> Events] : n \in 1 .. MaxBatch}

Modes == {"none", "append", "bind"}
Steps == {"idle", "header", "bound?", "backfill", "fenced", "stored"}

(* pos: rows the operation counts on; seen: rows the adapter read. *)
Operations == [step : Steps, mode : Modes, pos : Nat,
               batch : Seq(Events), seen : Seq(Events)]

Idle == [step |-> "idle", mode |-> "none", pos |-> 0, batch |-> <<>>, seen |-> <<>>]

Bound(w) == session[w] \in {"attached", "loaded"}

SameType(e, f) == TypeOf[e] = TypeOf[f]

IsPrefixBy(R(_, _), s, t) == /\ Len(s) <= Len(t)
                             /\ \A i \in 1 .. Len(s) : R(s[i], t[i])

Same(e, f) == e = f

(* No other session is inside the adapter, where the host serialises them. *)
MayStart(w) == /\ op[w].step = "idle"
               /\ Serial => \A v \in Writers : op[v].step = "idle"

Init == /\ header = FALSE
        /\ rows = <<>>
        /\ session = [w \in Writers |-> "down"]
        /\ mem = [w \in Writers |-> <<>>]
        /\ latch = [w \in Writers |-> "none"]
        /\ op = [w \in Writers |-> Idle]
        /\ acked = {}

-----------------------------------------------------------------------------
(* CreateSession: a Session with an empty Log and no storage. *)
CreateSession(w) ==
  /\ session[w] = "down"
  /\ session' = [session EXCEPT ![w] = "unbound"]
  /\ UNCHANGED <<header, rows, mem, latch, op, acked>>

(* Log.AppendBatch without storage: memory only. *)
AppendInMemory(w) ==
  /\ session[w] = "unbound" /\ op[w].step = "idle"
  /\ \E b \in Batches : /\ Len(mem[w]) + Len(b) <= MaxUnbound
                        /\ mem' = [mem EXCEPT ![w] = @ \o b]
  /\ UNCHANGED <<header, rows, session, latch, op, acked>>

(* LoadSessionFromStorage: needs the header, restores every row, binds. *)
LoadSessionFromStorage(w) ==
  /\ session[w] = "down" /\ MayStart(w)
  /\ header
  /\ session' = [session EXCEPT ![w] = "loaded"]
  /\ mem' = [mem EXCEPT ![w] = rows]
  /\ UNCHANGED <<header, rows, latch, op, acked>>

-----------------------------------------------------------------------------
(* BindStorage.  It first saves the header: one upsert in SQL; in a file, a *)
(* read of everything (StartBind) and a rewrite of everything (SaveHeader). *)
StartBind(w) ==
  /\ session[w] = "unbound" /\ MayStart(w)
  /\ op' = [op EXCEPT ![w] = [Idle EXCEPT !.step = "header", !.mode = "bind",
                                          !.seen = IF Backend = "file" THEN rows ELSE <<>>]]
  /\ UNCHANGED <<header, rows, session, mem, latch, acked>>

SaveHeader(w) ==
  /\ op[w].step = "header"
  /\ header' = TRUE
  /\ rows' = IF Backend = "file" THEN op[w].seen ELSE rows
  /\ op' = [op EXCEPT ![w] = [Idle EXCEPT !.step = "bound?", !.mode = "bind"]]
  /\ UNCHANGED <<session, mem, latch, acked>>

(* EventsSince(nil): the stored rows must be, by type, the first events of *)
(* the memory.  The mutant compares no types.                              *)
RowsFewer(w) == Len(rows) <= Len(mem[w])
RowsMatch(w) == IsPrefixBy(SameType, rows, mem[w])

CompareRows(w) ==
  /\ op[w].step = "bound?"
  /\ op' = [op EXCEPT ![w] =
              IF RowsMatch(w) THEN [@ EXCEPT !.step = "backfill", !.pos = Len(rows)]
                              ELSE Idle]
  /\ UNCHANGED <<header, rows, session, mem, latch, acked>>

(* Everything in memory is stored: the Log is bound. *)
FinishBind(w) ==
  /\ op[w].step = "backfill" /\ op[w].pos = Len(mem[w])
  /\ session' = [session EXCEPT ![w] = "attached"]
  /\ op' = [op EXCEPT ![w] = Idle]
  /\ UNCHANGED <<header, rows, mem, latch, acked>>

(* The next event in memory goes through AppendEvents, as the only draft. *)
Backfill(w) ==
  /\ op[w].step = "backfill" /\ op[w].pos < Len(mem[w])
  /\ op' = [op EXCEPT ![w] =
              IF Len(rows) = op[w].pos
              THEN [@ EXCEPT !.step = "fenced", !.seen = rows,
                             !.batch = <<mem[w][op[w].pos + 1]>>]
              ELSE Idle]
  /\ UNCHANGED <<header, rows, session, mem, latch, acked>>

-----------------------------------------------------------------------------
(* Log.AppendBatch of a bound Log: AppendEvents reads the stored rows and   *)
(* compares their number with len(events).  Mutants: a fence that only      *)
(* looks for missing rows, and one that is off by one.                     *)
FenceAtLeast(w) == Len(rows) >= Len(mem[w])
FenceOffByOne(w) == Len(rows) + 1 = Len(mem[w])
FencePasses(w) == Len(rows) = Len(mem[w])

AppendBatch(w) ==
  /\ Bound(w) /\ latch[w] = "none" /\ MayStart(w)
  /\ \E b \in Batches :
       /\ Len(mem[w]) + Len(b) <= MaxRows
       /\ op' = [op EXCEPT ![w] = [step |-> "fenced", mode |-> "append",
                                   pos |-> Len(mem[w]), batch |-> b, seen |-> rows]]
  /\ FencePasses(w)
  /\ UNCHANGED <<header, rows, session, mem, latch, acked>>

AppendConflict(w) ==
  /\ Bound(w) /\ latch[w] = "none" /\ MayStart(w)
  /\ ~FencePasses(w)
  /\ latch' = [latch EXCEPT ![w] = "conflict"]
  /\ UNCHANGED <<header, rows, session, mem, op, acked>>

(* An error ends the operation: AppendBatch latches it, BindStorage returns *)
(* it and leaves the Log without storage.                                   *)
Fail(w, reason) ==
  /\ op' = [op EXCEPT ![w] = Idle]
  /\ latch' = [latch EXCEPT ![w] = IF op[w].mode = "append" THEN reason ELSE @]

(* INSERT meets the primary key, which the mutant's table lacks. *)
SeqNeverTaken(w) == op[w].step # "fenced"
SeqTaken(w) == Backend = "sql" /\ Len(rows) > Len(op[w].seen)

(* The rows once the operation of w is published: the batch is one unit.    *)
(* The mutant stores the first draft alone.                                *)
PublishedInPart(w) == (IF Backend = "sql" THEN rows ELSE op[w].seen) \o <<op[w].batch[1]>>
Published(w) == IF Backend = "sql" THEN rows \o op[w].batch
                                   ELSE op[w].seen \o op[w].batch

Publish(w) ==
  /\ op[w].step = "fenced"
  /\ ~SeqTaken(w)
  /\ rows' = Published(w)
  /\ op' = [op EXCEPT ![w].step = "stored"]
  /\ UNCHANGED <<header, session, mem, latch, acked>>

InsertConflict(w) ==
  /\ op[w].step = "fenced"
  /\ SeqTaken(w)
  /\ Fail(w, "conflict")
  /\ UNCHANGED <<header, rows, session, mem, acked>>

(* The outage of the storage, before anything is durable. *)
WriteFails(w) ==
  /\ op[w].step = "fenced"
  /\ Fail(w, "error")
  /\ UNCHANGED <<header, rows, session, mem, acked>>

(* tx.Commit returns an error although the server committed. *)
CommitUnknown(w) ==
  /\ op[w].step = "fenced"
  /\ Backend = "sql" /\ ~SeqTaken(w)
  /\ rows' = Published(w)
  /\ Fail(w, "error")
  /\ UNCHANGED <<header, session, mem, acked>>

(* AppendEvents returns the rows: AppendBatch adds the events to memory,    *)
(* BindStorage goes on to the next event.                                  *)
Acknowledge(w) ==
  /\ op[w].step = "stored"
  /\ acked' = acked \cup {<<op[w].pos + i, op[w].batch[i]>> : i \in 1 .. Len(op[w].batch)}
  /\ IF op[w].mode = "append"
     THEN /\ mem' = [mem EXCEPT ![w] = @ \o op[w].batch]
          /\ op' = [op EXCEPT ![w] = Idle]
     ELSE /\ mem' = mem
          /\ op' = [op EXCEPT ![w] = [Idle EXCEPT !.step = "backfill", !.mode = "bind",
                                                  !.pos = op[w].pos + 1]]
  /\ UNCHANGED <<header, rows, session, latch>>

ClearStorageErr(w) ==
  /\ latch[w] # "none"
  /\ latch' = [latch EXCEPT ![w] = "none"]
  /\ UNCHANGED <<header, rows, session, mem, op, acked>>

(* The process dies, or the host drops the Session to load it again. *)
Crash(w) ==
  /\ session[w] # "down"
  /\ session' = [session EXCEPT ![w] = "down"]
  /\ mem' = [mem EXCEPT ![w] = <<>>]
  /\ latch' = [latch EXCEPT ![w] = "none"]
  /\ op' = [op EXCEPT ![w] = Idle]
  /\ UNCHANGED <<header, rows, acked>>

Next == \E w \in Writers :
  \/ CreateSession(w) \/ AppendInMemory(w) \/ LoadSessionFromStorage(w)
  \/ StartBind(w) \/ SaveHeader(w) \/ CompareRows(w) \/ FinishBind(w) \/ Backfill(w)
  \/ AppendBatch(w) \/ AppendConflict(w)
  \/ Publish(w) \/ InsertConflict(w) \/ WriteFails(w) \/ CommitUnknown(w)
  \/ Acknowledge(w) \/ ClearStorageErr(w) \/ Crash(w)

Spec == Init /\ [][Next]_vars

-----------------------------------------------------------------------------
(* Type correctness of the Log, the adapter and the operations in progress. *)
TypeOK ==
  /\ header \in BOOLEAN
  /\ rows \in Seq(Events)
  /\ session \in [Writers -> {"down", "unbound", "attached", "loaded"}]
  /\ mem \in [Writers -> Seq(Events)]
  /\ latch \in [Writers -> {"none", "conflict", "error"}]
  /\ op \in [Writers -> Operations]
  /\ acked \subseteq (Nat \ {0}) \X Events

(* An event whose AppendEvents returned without error stays stored, at its  *)
(* seq and unchanged, whatever the other writers, failures and crashes do   *)
(* (README: "every event is durable before the next loop step").            *)
AcknowledgedSurvives == \A a \in acked : a[1] <= Len(rows) /\ rows[a[1]] = a[2]

(* The memory of a bound Log never runs ahead of the storage nor departs    *)
(* from it: its events are the first stored rows, in content for a Session  *)
(* that was loaded, in type for one that BindStorage attached (BindStorage  *)
(* compares nothing else, so the contents may differ).                      *)
MemoryIsStored ==
  \A w \in Writers :
    /\ session[w] = "loaded" => IsPrefixBy(Same, mem[w], rows)
    /\ session[w] = "attached" => IsPrefixBy(SameType, mem[w], rows)

(* A StorageConflictError means that reloading would bring rows this Log    *)
(* has not seen: the fence never refuses a Log that is up to date.          *)
ConflictMeansStale ==
  \A w \in Writers : latch[w] = "conflict" => Len(mem[w]) < Len(rows)

-----------------------------------------------------------------------------
(* The inductive invariant, for an adapter whose operations exclude each    *)
(* other: the SQL one by its transactions, any by a host that serialises.  *)
Exclusive == Backend = "sql" \/ Serial

(* The mode of the operation in progress and the state of the Session. *)
ModeOK(w) ==
  /\ op[w].step = "idle" => op[w] = Idle
  /\ op[w].step # "idle" => op[w].mode \in {"append", "bind"} /\ latch[w] = "none"
  /\ op[w].step \in {"header", "bound?", "backfill"} => op[w].mode = "bind"
  /\ op[w].step \in {"header", "bound?"} => op[w].pos = 0
  /\ op[w].mode = "append" => Bound(w) /\ op[w].pos = Len(mem[w])
  /\ op[w].mode = "bind" => session[w] = "unbound"
  /\ latch[w] # "none" => Bound(w)

(* What BindStorage has compared or stored so far is in the rows. *)
BindOK(w) ==
  op[w].mode = "bind" =>
    /\ op[w].pos <= Len(mem[w]) /\ op[w].pos <= Len(rows)
    /\ \A i \in 1 .. op[w].pos : SameType(mem[w][i], rows[i])
    /\ op[w].step \in {"fenced", "stored"} =>
         op[w].pos < Len(mem[w]) /\ op[w].batch = <<mem[w][op[w].pos + 1]>>

(* The rows read are still the rows, or the primary key will tell. *)
FenceOK(w) ==
  /\ op[w].step = "fenced" =>
       op[w].batch \in Batches /\ Len(op[w].seen) = op[w].pos /\ op[w].pos <= Len(rows)
  /\ Backend = "file" /\ op[w].step \in {"header", "fenced"} => op[w].seen = rows

(* What is to be acknowledged is stored. *)
StoredOK(w) ==
  op[w].step = "stored" =>
    /\ op[w].pos + Len(op[w].batch) <= Len(rows)
    /\ \A i \in 1 .. Len(op[w].batch) : rows[op[w].pos + i] = op[w].batch[i]

MemoryOK(w) ==
  /\ session[w] = "loaded" => IsPrefixBy(Same, mem[w], rows)
  /\ session[w] = "attached" => IsPrefixBy(SameType, mem[w], rows)
  /\ latch[w] = "conflict" => Len(mem[w]) < Len(rows)

WriterOK(w) == ModeOK(w) /\ BindOK(w) /\ FenceOK(w) /\ StoredOK(w) /\ MemoryOK(w)

OneOperation ==
  Serial => \A v, w \in Writers : op[v].step = "idle" \/ op[w].step = "idle" \/ v = w

(* All of it, preserved by every step: behind an acknowledgement, a fence or *)
(* a bound Log there are rows nobody else can rewrite.                      *)
IInv == /\ TypeOK
        /\ \A w \in Writers : WriterOK(w)
        /\ OneOperation
        /\ AcknowledgedSurvives

-----------------------------------------------------------------------------
(* The adapter and the Logs bound to it implement FencedLog: rows are added *)
(* by whole batches, at the end, by a writer that knew all the others.      *)
KnownRows == [w \in Writers |-> IF Bound(w) THEN Len(mem[w]) ELSE op[w].pos]

OfferedBatch == [w \in Writers |->
                   IF op[w].step = "fenced" THEN op[w].batch ELSE <<>>]

Fenced == INSTANCE FencedLog WITH log <- rows, known <- KnownRows, offer <- OfferedBatch

RefinesFencedLog == Fenced!Spec
=============================================================================
