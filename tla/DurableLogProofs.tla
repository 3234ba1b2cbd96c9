------------------------- MODULE DurableLogProofs -------------------------
(***************************************************************************)
(* Proofs about DurableLog, for any number of writers and rows: type       *)
(* correctness with every adapter and, with the SQL adapter or with a host *)
(* that serialises the sessions, that no acknowledged event is lost, that  *)
(* memories stay prefixes of the stored rows, that conflicts mean stale    *)
(* sessions, and the refinement of FencedLog.                              *)
(***************************************************************************)
EXTENDS DurableLog, SequenceTheorems, TLAPS

LEMMA BatchesAreSequences == Batches \subseteq Seq(Events) \ {<<>>}
<1> SUFFICES ASSUME NEW n \in 1 .. MaxBatch, NEW b \in [1 .. n -> Events]
             PROVE  b \in Seq(Events) \ {<<>>}
  BY DEF Batches
<1>1. n \in Nat /\ n >= 1
  BY DurableLogAssumption
<1>2. b \in Seq(Events)
  BY <1>1
<1>3. Len(b) = n
  BY <1>1
<1> QED
  BY <1>1, <1>2, <1>3

LEMMA IdleIsOperation == Idle \in Operations
BY DEF Idle, Operations, Steps, Modes

(* What changing some fields of an operation makes of it. *)
LEMMA OperationUpdates ==
  ASSUME NEW o \in Operations, NEW st \in Steps, NEW md \in Modes, NEW p \in Nat,
         NEW b \in Seq(Events), NEW s \in Seq(Events)
  PROVE  /\ [step |-> st, mode |-> md, pos |-> p, batch |-> b, seen |-> s] \in Operations
         /\ [Idle EXCEPT !.step = st, !.mode = md] \in Operations
         /\ [Idle EXCEPT !.step = st, !.mode = md, !.seen = s] \in Operations
         /\ [Idle EXCEPT !.step = st, !.mode = md, !.pos = p] \in Operations
         /\ [o EXCEPT !.step = st] \in Operations
         /\ [o EXCEPT !.step = st, !.pos = p] \in Operations
         /\ [o EXCEPT !.step = st, !.seen = s, !.batch = b] \in Operations
<1>1. \A i \in Operations :
        /\ [i EXCEPT !.step = st] \in Operations
        /\ [i EXCEPT !.step = st, !.mode = md] \in Operations
        /\ [i EXCEPT !.step = st, !.pos = p] \in Operations
        /\ [i EXCEPT !.step = st, !.mode = md, !.seen = s] \in Operations
        /\ [i EXCEPT !.step = st, !.mode = md, !.pos = p] \in Operations
        /\ [i EXCEPT !.step = st, !.seen = s, !.batch = b] \in Operations
  BY DEF Operations
<1>2. [step |-> st, mode |-> md, pos |-> p, batch |-> b, seen |-> s] \in Operations
  BY DEF Operations
<1> QED
  BY <1>1, <1>2, IdleIsOperation

LEMMA OperationFields ==
  ASSUME NEW o \in Operations
  PROVE  /\ o.step \in Steps /\ o.mode \in Modes /\ o.pos \in Nat
         /\ o.batch \in Seq(Events) /\ o.seen \in Seq(Events)
BY DEF Operations

-----------------------------------------------------------------------------
(* Type correctness. *)
LEMMA TypeInit == Init => TypeOK
<1> SUFFICES ASSUME Init PROVE TypeOK
  OBVIOUS
<1>1. op \in [Writers -> Operations]
  BY IdleIsOperation DEF Init
<1>2. mem \in [Writers -> Seq(Events)] /\ rows \in Seq(Events)
  BY DEF Init
<1> QED
  BY <1>1, <1>2 DEF Init, TypeOK

LEMMA TypeNext == TypeOK /\ [Next]_vars => TypeOK'
<1> SUFFICES ASSUME TypeOK, [Next]_vars PROVE TypeOK'
  OBVIOUS
<1> USE DEF TypeOK
<1>0. CASE UNCHANGED vars
  BY <1>0 DEF vars
<1>1. CASE Next
  <2> PICK w \in Writers :
        \/ CreateSession(w) \/ AppendInMemory(w) \/ LoadSessionFromStorage(w)
        \/ StartBind(w) \/ SaveHeader(w) \/ CompareRows(w) \/ FinishBind(w) \/ Backfill(w)
        \/ AppendBatch(w) \/ AppendConflict(w)
        \/ Publish(w) \/ InsertConflict(w) \/ WriteFails(w) \/ CommitUnknown(w)
        \/ Acknowledge(w) \/ ClearStorageErr(w) \/ Crash(w)
    BY <1>1 DEF Next
  <2>0. op[w] \in Operations /\ mem[w] \in Seq(Events)
    OBVIOUS
  <2>a. /\ op[w].step \in Steps /\ op[w].mode \in Modes /\ op[w].pos \in Nat
        /\ op[w].batch \in Seq(Events) /\ op[w].seen \in Seq(Events)
    BY <2>0, OperationFields
  <2>b. \A o \in Operations : [op EXCEPT ![w] = o] \in [Writers -> Operations]
    OBVIOUS
  <2>c. \A st \in {"header", "bound?", "backfill", "fenced", "stored"} : st \in Steps
    BY DEF Steps
  <2>d. "append" \in Modes /\ "bind" \in Modes
    BY DEF Modes
  <2>1. CASE CreateSession(w)
    BY <2>1 DEF CreateSession
  <2>2. CASE AppendInMemory(w)
    <3>1. PICK b \in Seq(Events) : mem' = [mem EXCEPT ![w] = @ \o b]
      BY <2>2, BatchesAreSequences DEF AppendInMemory
    <3>2. mem[w] \o b \in Seq(Events)
      BY <2>0
    <3> QED
      BY <2>2, <3>1, <3>2 DEF AppendInMemory
  <2>3. CASE LoadSessionFromStorage(w)
    BY <2>3 DEF LoadSessionFromStorage
  <2>4. CASE StartBind(w)
    <3>1. (IF Backend = "file" THEN rows ELSE <<>>) \in Seq(Events)
      OBVIOUS
    <3>2. op' \in [Writers -> Operations]
      BY <2>4, <2>0, <2>c, <2>d, <3>1, OperationUpdates DEF StartBind
    <3> QED
      BY <2>4, <3>2 DEF StartBind
  <2>5. CASE SaveHeader(w)
    <3>1. op' \in [Writers -> Operations]
      BY <2>5, <2>0, <2>c, <2>d, OperationUpdates DEF SaveHeader
    <3> QED
      BY <2>5, <2>a, <3>1 DEF SaveHeader
  <2>6. CASE CompareRows(w)
    <3>1. Len(rows) \in Nat
      OBVIOUS
    <3>2. [op[w] EXCEPT !.step = "backfill", !.pos = Len(rows)] \in Operations
      BY <2>0, <2>c, <2>d, <3>1, OperationUpdates
    <3>3. op' \in [Writers -> Operations]
      BY <2>6, <2>b, <3>2, IdleIsOperation DEF CompareRows
    <3> QED
      BY <2>6, <3>3 DEF CompareRows
  <2>7. CASE FinishBind(w)
    BY <2>7, IdleIsOperation DEF FinishBind
  <2>8. CASE Backfill(w)
    <3>1. <<mem[w][op[w].pos + 1]>> \in Seq(Events)
      <4>1. op[w].pos + 1 \in 1 .. Len(mem[w])
        BY <2>8, <2>0, <2>a DEF Backfill
      <4> QED
        BY <2>0, <4>1
    <3>2. [op[w] EXCEPT !.step = "fenced", !.seen = rows,
                        !.batch = <<mem[w][op[w].pos + 1]>>] \in Operations
      BY <2>0, <2>c, <2>d, <3>1, OperationUpdates
    <3>3. op' \in [Writers -> Operations]
      BY <2>8, <2>b, <3>2, IdleIsOperation DEF Backfill
    <3> QED
      BY <2>8, <3>3 DEF Backfill
  <2>9. CASE AppendBatch(w)
    <3>1. PICK b \in Seq(Events) :
            op' = [op EXCEPT ![w] = [step |-> "fenced", mode |-> "append",
                                     pos |-> Len(mem[w]), batch |-> b, seen |-> rows]]
      BY <2>9, BatchesAreSequences DEF AppendBatch
    <3>2. Len(mem[w]) \in Nat
      BY <2>0
    <3>3. op' \in [Writers -> Operations]
      BY <3>1, <3>2, <2>0, <2>b, <2>c, <2>d, OperationUpdates
    <3> QED
      BY <2>9, <3>3 DEF AppendBatch
  <2>10. CASE AppendConflict(w)
    BY <2>10 DEF AppendConflict
  <2>e. Published(w) \in Seq(Events)
    BY <2>a DEF Published
  <2>11. CASE Publish(w)
    <3>1. op' \in [Writers -> Operations]
      BY <2>11, <2>0, <2>b, <2>c, <2>d, OperationUpdates DEF Publish
    <3> QED
      BY <2>11, <2>e, <3>1 DEF Publish
  <2>12. CASE InsertConflict(w)
    BY <2>12, IdleIsOperation DEF InsertConflict, Fail
  <2>13. CASE WriteFails(w)
    BY <2>13, IdleIsOperation DEF WriteFails, Fail
  <2>14. CASE CommitUnknown(w)
    BY <2>14, <2>e, IdleIsOperation DEF CommitUnknown, Fail
  <2>15. CASE Acknowledge(w)
    <3>1. \A i \in 1 .. Len(op[w].batch) : op[w].pos + i \in Nat \ {0} /\ op[w].batch[i] \in Events
      BY <2>a
    <3>2. acked' \subseteq (Nat \ {0}) \X Events
      BY <3>1, <2>15 DEF Acknowledge
    <3>3. mem[w] \o op[w].batch \in Seq(Events)
      BY <2>0, <2>a
    <3>4. mem' \in [Writers -> Seq(Events)]
      BY <2>15, <3>3 DEF Acknowledge
    <3>5. op[w].pos + 1 \in Nat
      BY <2>a
    <3>6. [Idle EXCEPT !.step = "backfill", !.mode = "bind", !.pos = op[w].pos + 1] \in Operations
      BY <2>0, <2>a, <2>c, <2>d, <3>5, OperationUpdates
    <3>7. op' \in [Writers -> Operations]
      BY <2>15, <2>b, <3>6, IdleIsOperation DEF Acknowledge
    <3> QED
      BY <3>2, <3>4, <3>7, <2>15 DEF Acknowledge
  <2>16. CASE ClearStorageErr(w)
    BY <2>16 DEF ClearStorageErr
  <2>17. CASE Crash(w)
    BY <2>17, IdleIsOperation DEF Crash
  <2> QED
    BY <2>1, <2>2, <2>3, <2>4, <2>5, <2>6, <2>7, <2>8, <2>9, <2>10, <2>11, <2>12,
       <2>13, <2>14, <2>15, <2>16, <2>17
<1> QED
  BY <1>0, <1>1

(* The Log, the adapter and the operations in progress keep their types,    *)
(* with every adapter and any number of sessions.                          *)
THEOREM TypeCorrect == Spec => []TypeOK
BY TypeInit, TypeNext, PTL DEF Spec

-----------------------------------------------------------------------------
(* The sequence t begins with s. *)
Agree(s, t) == /\ Len(s) <= Len(t)
               /\ \A i \in 1 .. Len(s) : t[i] = s[i]

LEMMA AgreeIsReflexive == ASSUME NEW s \in Seq(Events) PROVE Agree(s, s)
BY DEF Agree

LEMMA UpperPart ==
  ASSUME NEW m \in Nat, NEW n \in Nat, NEW i \in m + 1 .. m + n
  PROVE  i - m \in 1 .. n /\ m + (i - m) = i
OBVIOUS

LEMMA SumInRange ==
  ASSUME NEW m \in Nat, NEW n \in Nat, NEW r \in Nat, m + n <= r
  PROVE  m + n \in m .. r
OBVIOUS

LEMMA AgreeOnAppend ==
  ASSUME NEW s \in Seq(Events), NEW t \in Seq(Events)
  PROVE  /\ Agree(s, s \o t)
         /\ Len(s \o t) = Len(s) + Len(t)
         /\ \A i \in 1 .. Len(t) : (s \o t)[Len(s) + i] = t[i]
<1>1. /\ Len(s \o t) = Len(s) + Len(t)
      /\ \A i \in 1 .. Len(s) + Len(t) :
           (s \o t)[i] = IF i <= Len(s) THEN s[i] ELSE t[i - Len(s)]
  BY ConcatProperties
<1>2. \A i \in 1 .. Len(t) : Len(s) + i \in 1 .. Len(s) + Len(t) /\ (Len(s) + i) - Len(s) = i
  OBVIOUS
<1> QED
  BY <1>1, <1>2 DEF Agree

(* A publication that meets no primary key appends the batch to the rows    *)
(* as they are, and the operation counted on all of these.                 *)
LEMMA PublishedIsAppended ==
  ASSUME TypeOK, NEW w \in Writers, FenceOK(w), op[w].step = "fenced", ~SeqTaken(w)
  PROVE  Published(w) = rows \o op[w].batch /\ op[w].pos = Len(rows)
<1>1. op[w].pos \in Nat /\ op[w].seen \in Seq(Events) /\ rows \in Seq(Events)
  BY OperationFields DEF TypeOK
<1>2. Len(op[w].seen) = op[w].pos /\ op[w].pos <= Len(rows)
  BY DEF FenceOK
<1>3. CASE Backend = "sql"
  BY <1>1, <1>2, <1>3 DEF SeqTaken, Published
<1>4. CASE Backend = "file"
  BY <1>1, <1>2, <1>4 DEF FenceOK, Published
<1> QED
  BY <1>3, <1>4, DurableLogAssumption

(* The rows a step leaves begin with those it found. *)
LEMMA RowsAreKept ==
  ASSUME IInv, [Next]_vars
  PROVE  Agree(rows, rows')
<1> USE DEF IInv, WriterOK
<1>0. rows \in Seq(Events) /\ Agree(rows, rows)
  BY AgreeIsReflexive DEF TypeOK
<1>1. ASSUME NEW w \in Writers, op[w].step = "fenced", ~SeqTaken(w), rows' = Published(w)
      PROVE  Agree(rows, rows')
  <2>1. op[w].batch \in Seq(Events)
    BY OperationFields DEF TypeOK
  <2> QED
    BY <1>0, <1>1, <2>1, PublishedIsAppended, AgreeOnAppend
<1>2. ASSUME NEW w \in Writers, SaveHeader(w) PROVE rows' = rows
  BY <1>2 DEF SaveHeader, FenceOK
<1>3. ASSUME NEW w \in Writers, Publish(w) \/ CommitUnknown(w) PROVE Agree(rows, rows')
  BY <1>1, <1>3 DEF Publish, CommitUnknown
<1>4. CASE UNCHANGED vars
  BY <1>0, <1>4 DEF vars
<1>5. CASE Next
  BY <1>0, <1>2, <1>3, <1>5
     DEF Next, CreateSession, AppendInMemory, LoadSessionFromStorage, StartBind, CompareRows,
         FinishBind, Backfill, AppendBatch, AppendConflict, InsertConflict, WriteFails,
         Acknowledge, ClearStorageErr, Crash
<1> QED
  BY <1>4, <1>5

(* A writer that does not act keeps its part of the invariant: rows are only *)
(* added, and not at all while it has read those of a file.                 *)
LEMMA OthersAreKept ==
  ASSUME TypeOK, TypeOK', NEW v \in Writers, WriterOK(v),
         op'[v] = op[v], mem'[v] = mem[v], session'[v] = session[v], latch'[v] = latch[v],
         Agree(rows, rows'),
         \/ rows' = rows \/ Backend = "sql" \/ op[v].step = "idle"
  PROVE  WriterOK(v)'
<1>0. /\ op[v].pos \in Nat /\ op[v].batch \in Seq(Events) /\ op[v].seen \in Seq(Events)
      /\ rows \in Seq(Events) /\ rows' \in Seq(Events) /\ mem[v] \in Seq(Events)
  BY OperationFields DEF TypeOK
<1>1. Len(rows) <= Len(rows') /\ \A i \in 1 .. Len(rows) : rows'[i] = rows[i]
  BY DEF Agree
<1>2. ModeOK(v)'
  BY DEF WriterOK, ModeOK, Bound
<1>3. BindOK(v)'
  <2> SUFFICES ASSUME op[v].mode = "bind"
               PROVE  /\ op[v].pos <= Len(mem[v]) /\ op[v].pos <= Len(rows')
                      /\ \A i \in 1 .. op[v].pos : SameType(mem[v][i], rows'[i])
                      /\ op[v].step \in {"fenced", "stored"} =>
                           op[v].pos < Len(mem[v]) /\ op[v].batch = <<mem[v][op[v].pos + 1]>>
    BY DEF BindOK, SameType
  <2>1. BindOK(v)
    BY DEF WriterOK
  <2>2. Len(rows) \in Nat /\ Len(rows') \in Nat /\ op[v].pos <= Len(rows)
    BY <1>0, <2>1 DEF BindOK
  <2>3. \A i \in 1 .. op[v].pos : rows'[i] = rows[i]
    BY <1>0, <1>1, <2>2
  <2> QED
    BY <1>0, <1>1, <2>1, <2>2, <2>3 DEF BindOK
<1>4. FenceOK(v)'
  BY <1>0, <1>1, DurableLogAssumption DEF WriterOK, FenceOK, Batches
<1>5. StoredOK(v)'
  <2> SUFFICES ASSUME op[v].step = "stored"
               PROVE  /\ op[v].pos + Len(op[v].batch) <= Len(rows')
                      /\ \A i \in 1 .. Len(op[v].batch) : rows'[op[v].pos + i] = op[v].batch[i]
    BY DEF StoredOK
  <2>1. /\ op[v].pos + Len(op[v].batch) <= Len(rows)
        /\ \A i \in 1 .. Len(op[v].batch) : rows[op[v].pos + i] = op[v].batch[i]
    BY DEF WriterOK, StoredOK
  <2>2. \A i \in 1 .. Len(op[v].batch) : op[v].pos + i \in 1 .. Len(rows)
    BY <1>0, <2>1
  <2>3. Len(rows) \in Nat /\ Len(rows') \in Nat /\ op[v].pos + Len(op[v].batch) \in Nat
    BY <1>0
  <2>4. op[v].pos + Len(op[v].batch) <= Len(rows')
    BY <1>1, <2>1, <2>3
  <2>5. \A i \in 1 .. Len(op[v].batch) : rows'[op[v].pos + i] = op[v].batch[i]
    BY <1>1, <2>1, <2>2
  <2> QED
    BY <2>4, <2>5
<1>6. MemoryOK(v)'
  BY <1>0, <1>1 DEF WriterOK, MemoryOK, IsPrefixBy, Same, SameType
<1> QED
  BY <1>2, <1>3, <1>4, <1>5, <1>6 DEF WriterOK

-----------------------------------------------------------------------------
(* The acting writer: steps outside an operation. *)
LEMMA SessionStepsKeep ==
  ASSUME IInv, TypeOK', NEW w \in Writers,
         \/ CreateSession(w) \/ AppendInMemory(w) \/ LoadSessionFromStorage(w)
         \/ AppendConflict(w) \/ ClearStorageErr(w) \/ Crash(w)
  PROVE  WriterOK(w)'
<1> USE DEF WriterOK, ModeOK, BindOK, FenceOK, StoredOK
<1>0. /\ TypeOK /\ WriterOK(w)
      /\ rows \in Seq(Events) /\ mem[w] \in Seq(Events)
  BY DEF IInv, TypeOK
<1>1. CASE CreateSession(w)
  BY <1>0, <1>1 DEF TypeOK, CreateSession, Bound, MemoryOK, Idle
<1>2. CASE AppendInMemory(w)
  BY <1>0, <1>2 DEF TypeOK, AppendInMemory, Bound, MemoryOK, Idle
<1>3. CASE LoadSessionFromStorage(w)
  BY <1>0, <1>3 DEF TypeOK, LoadSessionFromStorage, MayStart, Bound, MemoryOK, IsPrefixBy, Same, Idle
<1>4. CASE AppendConflict(w)
  BY <1>0, <1>4 DEF TypeOK, AppendConflict, MayStart, FencePasses, Bound, MemoryOK, IsPrefixBy, Idle
<1>5. CASE ClearStorageErr(w)
  BY <1>0, <1>5 DEF TypeOK, ClearStorageErr, Bound, MemoryOK, Idle
<1>6. CASE Crash(w)
  BY <1>0, <1>6 DEF TypeOK, Crash, Bound, MemoryOK, Idle
<1> QED
  BY <1>1, <1>2, <1>3, <1>4, <1>5, <1>6

(* The acting writer: BindStorage. *)
LEMMA BindStepsKeep ==
  ASSUME IInv, TypeOK', NEW w \in Writers,
         \/ StartBind(w) \/ SaveHeader(w) \/ CompareRows(w) \/ FinishBind(w) \/ Backfill(w)
  PROVE  WriterOK(w)'
<1> USE DEF WriterOK, ModeOK, BindOK, FenceOK, StoredOK
<1>0. /\ TypeOK /\ WriterOK(w) /\ op \in [Writers -> Operations]
      /\ op[w].pos \in Nat /\ op[w].batch \in Seq(Events) /\ op[w].seen \in Seq(Events)
      /\ rows \in Seq(Events) /\ mem[w] \in Seq(Events)
  BY OperationFields DEF IInv, TypeOK
<1>1. CASE StartBind(w)
  <2>1. op'[w] = [step |-> "header", mode |-> "bind", pos |-> 0, batch |-> <<>>,
                  seen |-> IF Backend = "file" THEN rows ELSE <<>>]
    BY <1>0, <1>1 DEF StartBind, Idle
  <2>2. /\ op'[w].step = "header" /\ op'[w].mode = "bind" /\ op'[w].pos = 0
        /\ op'[w].batch = <<>> /\ (Backend = "file" => op'[w].seen = rows)
    BY <2>1
  <2>3. /\ session'[w] = "unbound" /\ mem' = mem /\ rows' = rows /\ latch'[w] = latch[w]
        /\ latch[w] = "none"
    BY <1>0, <1>1 DEF StartBind, MayStart, Bound, TypeOK
  <2> QED
    BY <1>0, <2>2, <2>3 DEF Bound, MemoryOK
<1>2. CASE SaveHeader(w)
  <2>1. op'[w] = [step |-> "bound?", mode |-> "bind", pos |-> 0, batch |-> <<>>, seen |-> <<>>]
    BY <1>0, <1>2 DEF SaveHeader, Idle
  <2>2. rows' = rows
    BY <1>0, <1>2 DEF SaveHeader
  <2> QED
    BY <1>0, <1>2, <2>1, <2>2 DEF SaveHeader, Bound, MemoryOK
<1>3. CASE CompareRows(w)
  <2>1. CASE RowsMatch(w)
    <3>1. /\ op'[w].step = "backfill" /\ op'[w].pos = Len(rows)
          /\ op'[w].mode = "bind"
      BY <1>0, <1>3, <2>1 DEF CompareRows, Operations
    <3> QED
      BY <1>0, <1>3, <2>1, <3>1 DEF CompareRows, RowsMatch, IsPrefixBy, SameType, Bound, MemoryOK
  <2>2. CASE ~RowsMatch(w)
    BY <1>0, <1>3, <2>2 DEF CompareRows, Idle, Bound, MemoryOK
  <2> QED
    BY <2>1, <2>2
<1>4. CASE FinishBind(w)
  BY <1>0, <1>4 DEF FinishBind, TypeOK, Idle, Bound, MemoryOK, IsPrefixBy, SameType
<1>5. CASE Backfill(w)
  <2>1. CASE Len(rows) = op[w].pos
    <3>1. /\ op'[w].step = "fenced" /\ op'[w].mode = "bind" /\ op'[w].pos = op[w].pos
          /\ op'[w].seen = rows /\ op'[w].batch = <<mem[w][op[w].pos + 1]>>
      BY <1>0, <1>5, <2>1 DEF Backfill, Operations
    <3>2. <<mem[w][op[w].pos + 1]>> \in Batches
      <4>1. mem[w][op[w].pos + 1] \in Events
        BY <1>0, <1>5 DEF Backfill
      <4>2. 1 \in 1 .. MaxBatch /\ <<mem[w][op[w].pos + 1]>> \in [1 .. 1 -> Events]
        BY <4>1, DurableLogAssumption
      <4> QED
        BY <4>2 DEF Batches
    <3> QED
      BY <1>0, <1>5, <2>1, <3>1, <3>2 DEF Backfill, Bound, MemoryOK
  <2>2. CASE Len(rows) # op[w].pos
    BY <1>0, <1>5, <2>2 DEF Backfill, Idle, Bound, MemoryOK
  <2> QED
    BY <2>1, <2>2
<1> QED
  BY <1>1, <1>2, <1>3, <1>4, <1>5

(* The acting writer: AppendEvents and what follows it. *)
LEMMA AppendStepsKeep ==
  ASSUME IInv, TypeOK', NEW w \in Writers,
         \/ AppendBatch(w) \/ Publish(w) \/ InsertConflict(w) \/ WriteFails(w)
         \/ CommitUnknown(w) \/ Acknowledge(w)
  PROVE  WriterOK(w)'
<1>0. /\ TypeOK /\ WriterOK(w) /\ op \in [Writers -> Operations]
      /\ op[w].pos \in Nat /\ op[w].batch \in Seq(Events) /\ op[w].seen \in Seq(Events)
      /\ rows \in Seq(Events) /\ mem[w] \in Seq(Events)
  BY OperationFields DEF IInv, TypeOK
<1>a. /\ ModeOK(w) /\ BindOK(w) /\ FenceOK(w) /\ StoredOK(w) /\ MemoryOK(w)
  BY <1>0 DEF WriterOK
<1>2. ASSUME op[w].step = "fenced", ~SeqTaken(w), rows' = Published(w)
      PROVE  /\ op[w].pos = Len(rows)
             /\ Len(rows') = op[w].pos + Len(op[w].batch)
             /\ \A i \in 1 .. Len(rows) : rows'[i] = rows[i]
             /\ \A i \in 1 .. Len(op[w].batch) : rows'[op[w].pos + i] = op[w].batch[i]
  <2>1. rows' = rows \o op[w].batch /\ op[w].pos = Len(rows)
    BY <1>0, <1>a, <1>2, PublishedIsAppended
  <2>2. rows \in Seq(Events) /\ op[w].batch \in Seq(Events)
    BY <1>0
  <2>3. /\ Agree(rows, rows') /\ Len(rows') = Len(rows) + Len(op[w].batch)
        /\ \A i \in 1 .. Len(op[w].batch) : rows'[Len(rows) + i] = op[w].batch[i]
    BY <2>1, <2>2, AgreeOnAppend
  <2> QED
    BY <2>1, <2>3 DEF Agree
<1>b. ASSUME op[w].step = "stored", op[w].mode = "append", mem'[w] = mem[w] \o op[w].batch
      PROVE  /\ Len(mem'[w]) = Len(mem[w]) + Len(op[w].batch)
             /\ Len(mem'[w]) <= Len(rows)
             /\ \A i \in 1 .. Len(mem[w]) : mem'[w][i] = mem[w][i]
             /\ \A i \in Len(mem[w]) + 1 .. Len(mem'[w]) : mem'[w][i] = rows[i]
  <2>0. mem[w] \in Seq(Events) /\ op[w].batch \in Seq(Events)
    BY <1>0
  <2>a. /\ Agree(mem[w], mem'[w]) /\ Len(mem'[w]) = Len(mem[w]) + Len(op[w].batch)
        /\ \A i \in 1 .. Len(op[w].batch) : mem'[w][Len(mem[w]) + i] = op[w].batch[i]
    <3>1. mem'[w] = mem[w] \o op[w].batch
      BY <1>b
    <3>2. /\ Agree(mem[w], mem[w] \o op[w].batch)
          /\ Len(mem[w] \o op[w].batch) = Len(mem[w]) + Len(op[w].batch)
          /\ \A i \in 1 .. Len(op[w].batch) :
               (mem[w] \o op[w].batch)[Len(mem[w]) + i] = op[w].batch[i]
      BY <2>0, AgreeOnAppend
    <3> QED
      BY <3>1, <3>2
  <2>1. /\ Len(mem'[w]) = Len(mem[w]) + Len(op[w].batch)
        /\ \A i \in 1 .. Len(mem[w]) : mem'[w][i] = mem[w][i]
        /\ \A i \in 1 .. Len(op[w].batch) : mem'[w][Len(mem[w]) + i] = op[w].batch[i]
    BY <2>a DEF Agree
  <2>2. /\ op[w].pos = Len(mem[w]) /\ op[w].pos + Len(op[w].batch) <= Len(rows)
        /\ \A i \in 1 .. Len(op[w].batch) : rows[op[w].pos + i] = op[w].batch[i]
    BY <1>a, <1>b DEF ModeOK, StoredOK
  <2>3. \A i \in 1 .. Len(op[w].batch) : mem'[w][Len(mem[w]) + i] = rows[Len(mem[w]) + i]
    BY <2>1, <2>2
  <2>4. ASSUME NEW i \in Len(mem[w]) + 1 .. Len(mem'[w]) PROVE mem'[w][i] = rows[i]
    <3>1. /\ Len(mem[w]) \in Nat /\ Len(op[w].batch) \in Nat
          /\ Len(mem'[w]) = Len(mem[w]) + Len(op[w].batch)
      BY <1>0, <2>1
    <3>2. i - Len(mem[w]) \in 1 .. Len(op[w].batch) /\ Len(mem[w]) + (i - Len(mem[w])) = i
      BY <3>1, UpperPart
    <3> QED
      BY <2>3, <3>2
  <2> QED
    BY <2>1, <2>2, <2>4
<1> USE DEF WriterOK, ModeOK, BindOK, FenceOK, StoredOK
<1>1. CASE AppendBatch(w)
  <2>1. PICK b \in Batches :
          op' = [op EXCEPT ![w] = [step |-> "fenced", mode |-> "append",
                                   pos |-> Len(mem[w]), batch |-> b, seen |-> rows]]
    BY <1>1 DEF AppendBatch
  <2>2. Len(rows) = Len(mem[w])
    BY <1>1 DEF AppendBatch, FencePasses
  <2> QED
    BY <1>0, <1>1, <2>1, <2>2 DEF AppendBatch, Bound, MemoryOK
<1>3. CASE Publish(w)
  <2>1. /\ op'[w].step = "stored" /\ op'[w].mode = op[w].mode /\ op'[w].pos = op[w].pos
        /\ op'[w].batch = op[w].batch
    BY <1>0, <1>3 DEF Publish, Operations
  <2> QED
    BY <1>0, <1>2, <1>3, <2>1 DEF Publish, Bound, MemoryOK, IsPrefixBy, Same, SameType
<1>4. CASE InsertConflict(w)
  BY <1>0, <1>4 DEF InsertConflict, Fail, SeqTaken, TypeOK, Idle, Bound, MemoryOK
<1>5. CASE WriteFails(w)
  BY <1>0, <1>5 DEF WriteFails, Fail, TypeOK, Idle, Bound, MemoryOK
<1>6. CASE CommitUnknown(w)
  BY <1>0, <1>2, <1>6 DEF CommitUnknown, Fail, TypeOK, Idle, Bound, MemoryOK, IsPrefixBy, Same, SameType
<1>7. CASE Acknowledge(w) /\ op[w].mode = "append"
  <2>1. mem'[w] = mem[w] \o op[w].batch /\ op'[w] = Idle /\ op[w].step = "stored"
    BY <1>0, <1>7 DEF Acknowledge, TypeOK
  <2>2. latch'[w] = "none" /\ Bound(w) /\ session' = session /\ rows' = rows
    BY <1>0, <1>7 DEF Acknowledge
  <2>3. /\ Len(mem'[w]) <= Len(rows)
        /\ \A i \in 1 .. Len(mem[w]) : mem'[w][i] = mem[w][i]
        /\ \A i \in Len(mem[w]) + 1 .. Len(mem'[w]) : mem'[w][i] = rows[i]
    BY <1>b, <1>7, <2>1
  <2>4. MemoryOK(w)'
    <3> HIDE DEF WriterOK, ModeOK, BindOK, FenceOK, StoredOK
    <3>1. /\ Len(mem[w]) \in Nat /\ Len(mem'[w]) \in Nat
          /\ \A i \in 1 .. Len(mem'[w]) : i \in 1 .. Len(mem[w]) \/ i \in Len(mem[w]) + 1 .. Len(mem'[w])
      <4>1. mem'[w] \in Seq(Events)
        BY DEF TypeOK
      <4> QED
        BY <1>0, <4>1
    <3> QED
      BY <1>a, <2>2, <2>3, <3>1 DEF MemoryOK, IsPrefixBy, Same, SameType
  <2> QED
    BY <1>0, <2>1, <2>2, <2>4 DEF Idle, Bound
<1>8. CASE Acknowledge(w) /\ op[w].mode = "bind"
  <2> HIDE DEF WriterOK, ModeOK, BindOK, FenceOK, StoredOK
  <2>1. op'[w] = [step |-> "backfill", mode |-> "bind", pos |-> op[w].pos + 1,
                  batch |-> <<>>, seen |-> <<>>]
    BY <1>0, <1>8 DEF Acknowledge, Idle
  <2>2. /\ op[w].batch = <<mem[w][op[w].pos + 1]>> /\ op[w].pos < Len(mem[w])
        /\ rows[op[w].pos + 1] = op[w].batch[1] /\ op[w].pos + 1 <= Len(rows)
    <3>1. op[w].batch = <<mem[w][op[w].pos + 1]>> /\ op[w].pos < Len(mem[w])
      BY <1>a, <1>8 DEF Acknowledge, BindOK
    <3>2. Len(op[w].batch) = 1
      BY <3>1
    <3>3. /\ op[w].pos + Len(op[w].batch) <= Len(rows)
          /\ \A i \in 1 .. Len(op[w].batch) : rows[op[w].pos + i] = op[w].batch[i]
      BY <1>a, <1>8 DEF Acknowledge, StoredOK
    <3> QED
      BY <3>1, <3>2, <3>3
  <2>3. UNCHANGED <<mem, rows, session, latch>>
    BY <1>8 DEF Acknowledge
  <2>4. /\ op'[w].step = "backfill" /\ op'[w].mode = "bind" /\ op'[w].pos = op[w].pos + 1
    BY <2>1
  <2>5. ModeOK(w)' /\ FenceOK(w)' /\ StoredOK(w)' /\ MemoryOK(w)'
    BY <1>0, <1>a, <1>8, <2>3, <2>4
       DEF Acknowledge, ModeOK, FenceOK, StoredOK, MemoryOK, Bound
  <2>6. BindOK(w)'
    <3>1. \A i \in 1 .. op[w].pos : SameType(mem[w][i], rows[i])
      BY <1>a, <1>8 DEF BindOK
    <3>2. SameType(mem[w][op[w].pos + 1], rows[op[w].pos + 1])
      BY <2>2 DEF SameType
    <3>3. \A i \in 1 .. op[w].pos + 1 : SameType(mem[w][i], rows[i])
      BY <1>0, <3>1, <3>2
    <3> QED
      BY <1>0, <2>2, <2>3, <2>4, <3>3 DEF BindOK, SameType
  <2> QED
    BY <2>5, <2>6 DEF WriterOK
<1> QED
  BY <1>0, <1>1, <1>3, <1>4, <1>5, <1>6, <1>7, <1>8 DEF Acknowledge

-----------------------------------------------------------------------------
(* The step of one writer, which leaves the others as they are. *)
Step(w) ==
  \/ CreateSession(w) \/ AppendInMemory(w) \/ LoadSessionFromStorage(w)
  \/ StartBind(w) \/ SaveHeader(w) \/ CompareRows(w) \/ FinishBind(w) \/ Backfill(w)
  \/ AppendBatch(w) \/ AppendConflict(w)
  \/ Publish(w) \/ InsertConflict(w) \/ WriteFails(w) \/ CommitUnknown(w)
  \/ Acknowledge(w) \/ ClearStorageErr(w) \/ Crash(w)

LEMMA OthersUnchanged ==
  ASSUME TypeOK, NEW w \in Writers, Step(w), NEW v \in Writers, v # w
  PROVE  /\ op'[v] = op[v] /\ mem'[v] = mem[v]
         /\ session'[v] = session[v] /\ latch'[v] = latch[v]
<1>1. CASE CreateSession(w) \/ AppendInMemory(w) \/ LoadSessionFromStorage(w)
  BY <1>1 DEF TypeOK, CreateSession, AppendInMemory, LoadSessionFromStorage
<1>2. CASE StartBind(w) \/ SaveHeader(w) \/ CompareRows(w) \/ FinishBind(w) \/ Backfill(w)
  BY <1>2 DEF TypeOK, StartBind, SaveHeader, CompareRows, FinishBind, Backfill
<1>3. CASE AppendBatch(w) \/ AppendConflict(w) \/ Publish(w)
  BY <1>3 DEF TypeOK, AppendBatch, AppendConflict, Publish
<1>4. CASE InsertConflict(w) \/ WriteFails(w) \/ CommitUnknown(w)
  BY <1>4 DEF TypeOK, InsertConflict, WriteFails, CommitUnknown, Fail
<1>5. CASE Acknowledge(w) \/ ClearStorageErr(w) \/ Crash(w)
  BY <1>5 DEF TypeOK, Acknowledge, ClearStorageErr, Crash
<1> QED
  BY <1>1, <1>2, <1>3, <1>4, <1>5 DEF Step

(* Where operations exclude each other, one that begins finds the others    *)
(* idle, and rows written in a file disturb nobody.                         *)
LEMMA OneOperationKept ==
  ASSUME IInv, NEW w \in Writers, Step(w)
  PROVE  OneOperation'
<1>0. TypeOK /\ OneOperation /\ Idle.step = "idle"
  BY DEF IInv, Idle
<1>1. op[w].step # "idle" \/ op'[w].step = "idle" \/ MayStart(w)
  <2>1. CASE CreateSession(w) \/ AppendInMemory(w) \/ LoadSessionFromStorage(w)
             \/ ClearStorageErr(w) \/ AppendConflict(w)
    BY <1>0, <2>1 DEF CreateSession, AppendInMemory, LoadSessionFromStorage,
                      ClearStorageErr, AppendConflict
  <2>2. CASE StartBind(w) \/ AppendBatch(w)
    BY <2>2 DEF StartBind, AppendBatch
  <2>3. CASE SaveHeader(w) \/ CompareRows(w) \/ FinishBind(w) \/ Backfill(w)
    BY <2>3 DEF SaveHeader, CompareRows, FinishBind, Backfill
  <2>4. CASE Publish(w) \/ InsertConflict(w) \/ WriteFails(w) \/ CommitUnknown(w)
             \/ Acknowledge(w)
    BY <2>4 DEF Publish, InsertConflict, WriteFails, CommitUnknown, Acknowledge
  <2>5. CASE Crash(w)
    BY <1>0, <2>5 DEF Crash, TypeOK
  <2> QED
    BY <2>1, <2>2, <2>3, <2>4, <2>5 DEF Step
<1>2. Serial /\ op'[w].step # "idle" => \A v \in Writers \ {w} : op[v].step = "idle"
  BY <1>0, <1>1 DEF MayStart, OneOperation
<1>3. \A v \in Writers \ {w} : op'[v].step = op[v].step
  BY <1>0, OthersUnchanged
<1> QED
  BY <1>0, <1>2, <1>3 DEF OneOperation

LEMMA FileWritesAreAlone ==
  ASSUME IInv, Exclusive, NEW w \in Writers, Step(w), NEW v \in Writers, v # w
  PROVE  rows' = rows \/ Backend = "sql" \/ op[v].step = "idle"
<1>1. op[w].step = "idle" => rows' = rows
  BY DEF Step, CreateSession, AppendInMemory, LoadSessionFromStorage, StartBind,
         SaveHeader, CompareRows, FinishBind, Backfill, AppendBatch, AppendConflict,
         Publish, InsertConflict, WriteFails, CommitUnknown, Acknowledge,
         ClearStorageErr, Crash
<1> QED
  BY <1>1 DEF IInv, OneOperation, Exclusive

(* What was acknowledged is still stored; what is acknowledged now is.      *)
LEMMA AcknowledgedKept ==
  ASSUME IInv, TypeOK', NEW w \in Writers, Step(w)
  PROVE  AcknowledgedSurvives'
<1>0. /\ TypeOK /\ AcknowledgedSurvives /\ StoredOK(w)
      /\ op[w].pos \in Nat /\ op[w].batch \in Seq(Events)
  BY OperationFields DEF IInv, WriterOK, TypeOK
<1>1. Agree(rows, rows')
  BY RowsAreKept DEF Next, Step
<1>2. ASSUME NEW a \in acked PROVE a[1] <= Len(rows') /\ rows'[a[1]] = a[2]
  <2>1. a[1] <= Len(rows) /\ rows[a[1]] = a[2]
    BY <1>0 DEF AcknowledgedSurvives
  <2>2. a[1] \in Nat \ {0} /\ Len(rows) \in Nat /\ Len(rows') \in Nat
    BY <1>0 DEF TypeOK
  <2> QED
    BY <1>1, <2>1, <2>2 DEF Agree
<1>3. CASE Acknowledge(w)
  <2>1. rows' = rows /\ op[w].step = "stored"
    BY <1>3 DEF Acknowledge
  <2>2. \A i \in 1 .. Len(op[w].batch) :
          op[w].pos + i <= Len(rows) /\ rows[op[w].pos + i] = op[w].batch[i]
    <3>1. Len(rows) \in Nat /\ Len(op[w].batch) \in Nat
      BY <1>0 DEF TypeOK
    <3> QED
      BY <1>0, <2>1, <3>1 DEF StoredOK
  <2>3. acked' = acked \cup {<<op[w].pos + i, op[w].batch[i]>> : i \in 1 .. Len(op[w].batch)}
    BY <1>3 DEF Acknowledge
  <2> QED
    BY <1>2, <2>1, <2>2, <2>3 DEF AcknowledgedSurvives
<1>4. CASE acked' = acked
  BY <1>2, <1>4 DEF AcknowledgedSurvives
<1> QED
  BY <1>3, <1>4
     DEF Step, CreateSession, AppendInMemory, LoadSessionFromStorage, StartBind,
         SaveHeader, CompareRows, FinishBind, Backfill, AppendBatch, AppendConflict,
         Publish, InsertConflict, WriteFails, CommitUnknown, ClearStorageErr, Crash

-----------------------------------------------------------------------------
LEMMA InvInit == Init => IInv
<1> SUFFICES ASSUME Init PROVE IInv
  OBVIOUS
<1>1. TypeOK
  BY TypeInit
<1>2. \A w \in Writers : /\ op[w] = Idle /\ latch[w] = "none" /\ session[w] = "down"
  BY DEF Init
<1>3. /\ Idle.step = "idle" /\ Idle.mode = "none"
  BY DEF Idle
<1>4. \A w \in Writers : WriterOK(w)
  BY <1>2, <1>3 DEF WriterOK, ModeOK, BindOK, FenceOK, StoredOK, MemoryOK
<1>5. OneOperation /\ AcknowledgedSurvives
  BY <1>2, <1>3 DEF Init, OneOperation, AcknowledgedSurvives
<1> QED
  BY <1>1, <1>4, <1>5 DEF IInv

LEMMA InvNext == Exclusive /\ IInv /\ [Next]_vars => IInv'
<1> SUFFICES ASSUME Exclusive, IInv, [Next]_vars PROVE IInv'
  OBVIOUS
<1>1. TypeOK /\ TypeOK'
  BY TypeNext DEF IInv
<1>2. CASE UNCHANGED vars
  <2>1. rows' = rows /\ op' = op /\ mem' = mem /\ session' = session /\ latch' = latch
        /\ acked' = acked
    BY <1>2 DEF vars
  <2>2. ASSUME NEW w \in Writers PROVE WriterOK(w)'
    BY <1>1, <2>1, RowsAreKept, OthersAreKept DEF IInv
  <2>3. OneOperation' /\ AcknowledgedSurvives'
    BY <2>1 DEF IInv, OneOperation, AcknowledgedSurvives
  <2> QED
    BY <1>1, <2>2, <2>3 DEF IInv
<1>3. CASE Next
  <2>1. PICK w \in Writers : Step(w)
    BY <1>3 DEF Next, Step
  <2>2. WriterOK(w)'
    BY <1>1, <2>1, SessionStepsKeep, BindStepsKeep, AppendStepsKeep DEF Step
  <2>3. ASSUME NEW v \in Writers, v # w PROVE WriterOK(v)'
    <3>1. /\ op'[v] = op[v] /\ mem'[v] = mem[v]
          /\ session'[v] = session[v] /\ latch'[v] = latch[v]
      BY <1>1, <2>1, <2>3, OthersUnchanged
    <3>2. rows' = rows \/ Backend = "sql" \/ op[v].step = "idle"
      BY <2>1, <2>3, FileWritesAreAlone
    <3>3. Agree(rows, rows') /\ WriterOK(v)
      BY RowsAreKept DEF IInv
    <3> QED
      BY <1>1, <3>1, <3>2, <3>3, OthersAreKept
  <2>4. OneOperation' /\ AcknowledgedSurvives'
    BY <1>1, <2>1, OneOperationKept, AcknowledgedKept
  <2> QED
    BY <1>1, <2>2, <2>3, <2>4 DEF IInv
<1> QED
  BY <1>2, <1>3

(* The inductive invariant, under the assumption that operations exclude     *)
(* each other: what an AppendBatch, a BindStorage or a backfill in progress *)
(* has read still holds of the rows when it publishes and acknowledges.     *)
THEOREM InvariantHolds ==
  ASSUME Exclusive PROVE Spec => []IInv
<1>1. IInv /\ [Next]_vars => IInv'
  BY InvNext
<1> QED
  BY <1>1, InvInit, PTL DEF Spec

(* With the SQL adapter, or sessions that take turns, no acknowledged event *)
(* is ever lost or altered.                                                *)
THEOREM NothingAcknowledgedIsLost ==
  ASSUME Exclusive PROVE Spec => []AcknowledgedSurvives
<1>1. IInv /\ [Next]_vars => IInv'
  BY InvNext
<1>2. IInv => AcknowledgedSurvives
  BY DEF IInv
<1> QED
  BY <1>1, <1>2, InvInit, PTL DEF Spec

(* The memory of a bound Log is a prefix of the stored rows. *)
THEOREM MemoryIsAlwaysStored ==
  ASSUME Exclusive PROVE Spec => []MemoryIsStored
<1>1. IInv /\ [Next]_vars => IInv'
  BY InvNext
<1>2. IInv => MemoryIsStored
  BY DEF IInv, WriterOK, MemoryOK, MemoryIsStored
<1> QED
  BY <1>1, <1>2, InvInit, PTL DEF Spec

(* A conflict is only reported to a Session that has rows to catch up on.   *)
THEOREM ConflictsAreReal ==
  ASSUME Exclusive PROVE Spec => []ConflictMeansStale
<1>1. IInv /\ [Next]_vars => IInv'
  BY InvNext
<1>2. IInv => ConflictMeansStale
  BY DEF IInv, WriterOK, MemoryOK, ConflictMeansStale
<1> QED
  BY <1>1, <1>2, InvInit, PTL DEF Spec

-----------------------------------------------------------------------------
(* The refinement of FencedLog.  Its functions change for the acting writer. *)
LEMMA MappedFunctions ==
  ASSUME TypeOK, NEW w \in Writers, Step(w)
  PROVE  /\ KnownRows' = [KnownRows EXCEPT ![w] = IF Bound(w)' THEN Len(mem'[w]) ELSE op'[w].pos]
         /\ OfferedBatch' = [OfferedBatch EXCEPT ![w] =
                               IF op'[w].step = "fenced" THEN op'[w].batch ELSE <<>>]
<1>1. ASSUME NEW v \in Writers, v # w
      PROVE  KnownRows'[v] = KnownRows[v] /\ OfferedBatch'[v] = OfferedBatch[v]
  <2>1. /\ op'[v] = op[v] /\ mem'[v] = mem[v] /\ session'[v] = session[v]
    BY <1>1, OthersUnchanged
  <2> QED
    BY <2>1 DEF KnownRows, OfferedBatch, Bound
<1>2. /\ KnownRows'[w] = IF Bound(w)' THEN Len(mem'[w]) ELSE op'[w].pos
      /\ OfferedBatch'[w] = IF op'[w].step = "fenced" THEN op'[w].batch ELSE <<>>
  BY DEF KnownRows, OfferedBatch
<1>3. \A v \in Writers :
        /\ KnownRows'[v] = [KnownRows EXCEPT ![w] = IF Bound(w)' THEN Len(mem'[w]) ELSE op'[w].pos][v]
        /\ OfferedBatch'[v] = [OfferedBatch EXCEPT ![w] =
                                 IF op'[w].step = "fenced" THEN op'[w].batch ELSE <<>>][v]
  BY <1>1, <1>2 DEF KnownRows, OfferedBatch
<1> QED
  BY <1>3 DEF KnownRows, OfferedBatch

LEMMA FencedInit == Init => Fenced!Init
<1> SUFFICES ASSUME Init PROVE Fenced!Init
  OBVIOUS
<1>1. \A w \in Writers : op[w] = Idle /\ session[w] = "down"
  BY DEF Init
<1>2. Idle.step = "idle" /\ Idle.pos = 0
  BY DEF Idle
<1>3. KnownRows = [w \in Writers |-> 0] /\ OfferedBatch = [w \in Writers |-> <<>>]
  BY <1>1, <1>2 DEF KnownRows, OfferedBatch, Bound
<1> QED
  BY <1>3 DEF Init, Fenced!Init

(* The actions of FencedLog, by what becomes of the acting writer. *)
LEMMA FencedSteps ==
  ASSUME NEW w \in Writers, NEW k, NEW b,
         KnownRows' = [KnownRows EXCEPT ![w] = k],
         OfferedBatch' = [OfferedBatch EXCEPT ![w] = b],
         \/ rows' = rows /\ b = OfferedBatch[w] /\ k = KnownRows[w]
         \/ rows' = rows /\ b = OfferedBatch[w] /\ k \in KnownRows[w] .. Len(rows)
         \/ rows' = rows /\ OfferedBatch[w] = <<>> /\ b \in Batches /\ k = KnownRows[w]
         \/ rows' = rows /\ b = <<>> /\ k \in {KnownRows[w], 0}
         \/ /\ rows' = rows \o OfferedBatch[w] /\ OfferedBatch[w] # <<>>
            /\ KnownRows[w] = Len(rows) /\ b = <<>> /\ k \in {KnownRows[w], 0}
  PROVE  Fenced!Next \/ UNCHANGED Fenced!vars
<1>0. /\ [KnownRows EXCEPT ![w] = KnownRows[w]] = KnownRows
      /\ [OfferedBatch EXCEPT ![w] = OfferedBatch[w]] = OfferedBatch
  BY DEF KnownRows, OfferedBatch
<1>1. CASE rows' = rows /\ b = OfferedBatch[w] /\ k = KnownRows[w]
  BY <1>0, <1>1 DEF Fenced!vars
<1>2. CASE rows' = rows /\ b = OfferedBatch[w] /\ k \in KnownRows[w] .. Len(rows)
  BY <1>0, <1>2 DEF Fenced!Next, Fenced!Learn
<1>3. CASE rows' = rows /\ OfferedBatch[w] = <<>> /\ b \in Batches /\ k = KnownRows[w]
  BY <1>0, <1>3 DEF Fenced!Next, Fenced!Offer
<1>4. CASE rows' = rows /\ b = <<>> /\ k = KnownRows[w]
  BY <1>0, <1>4 DEF Fenced!Next, Fenced!Abandon
<1>5. CASE rows' = rows /\ b = <<>> /\ k = 0
  BY <1>5 DEF Fenced!Next, Fenced!Forget
<1>6. CASE /\ rows' = rows \o OfferedBatch[w] /\ OfferedBatch[w] # <<>>
           /\ KnownRows[w] = Len(rows) /\ b = <<>> /\ k \in {KnownRows[w], 0}
  <2>1. Fenced!Commit(w)
    BY <1>0, <1>6 DEF Fenced!Commit
  <2> QED
    BY <2>1 DEF Fenced!Next
<1> QED
  BY <1>1, <1>2, <1>3, <1>4, <1>5, <1>6

LEMMA FencedNext ==
  ASSUME IInv, TypeOK', NEW w \in Writers, Step(w)
  PROVE  Fenced!Next \/ UNCHANGED Fenced!vars
<1> DEFINE k == IF Bound(w)' THEN Len(mem'[w]) ELSE op'[w].pos
           b == IF op'[w].step = "fenced" THEN op'[w].batch ELSE <<>>
<1>0. /\ TypeOK /\ WriterOK(w) /\ op[w] \in Operations
      /\ op[w].pos \in Nat /\ op[w].batch \in Seq(Events)
      /\ rows \in Seq(Events) /\ mem[w] \in Seq(Events)
  BY OperationFields DEF IInv, TypeOK
<1>1. /\ KnownRows' = [KnownRows EXCEPT ![w] = k]
      /\ OfferedBatch' = [OfferedBatch EXCEPT ![w] = b]
  BY <1>0, MappedFunctions
<1>2. /\ KnownRows[w] = IF Bound(w) THEN Len(mem[w]) ELSE op[w].pos
      /\ OfferedBatch[w] = IF op[w].step = "fenced" THEN op[w].batch ELSE <<>>
  BY DEF KnownRows, OfferedBatch
<1>3. /\ Idle.step = "idle" /\ Idle.pos = 0 /\ Idle.mode = "none"
  BY DEF Idle
<1>a. /\ op[w].step = "idle" => op[w].pos = 0 /\ op[w].mode = "none"
      /\ op[w].mode = "bind" => ~Bound(w)
      /\ op[w].step # "idle" => op[w].mode \in {"append", "bind"}
      /\ op[w].mode = "append" => Bound(w) /\ op[w].pos = Len(mem[w])
  BY <1>0, <1>3 DEF WriterOK, ModeOK, Bound
<1> HIDE DEF k, b
<1>4. SUFFICES \/ rows' = rows /\ b = OfferedBatch[w] /\ k = KnownRows[w]
               \/ rows' = rows /\ b = OfferedBatch[w] /\ k \in KnownRows[w] .. Len(rows)
               \/ rows' = rows /\ OfferedBatch[w] = <<>> /\ b \in Batches /\ k = KnownRows[w]
               \/ rows' = rows /\ b = <<>> /\ k \in {KnownRows[w], 0}
               \/ /\ rows' = rows \o OfferedBatch[w] /\ OfferedBatch[w] # <<>>
                  /\ KnownRows[w] = Len(rows) /\ b = <<>> /\ k \in {KnownRows[w], 0}
  BY <1>1, FencedSteps
<1>5. CASE CreateSession(w) \/ AppendInMemory(w)
  BY <1>0, <1>2, <1>3, <1>a, <1>5 DEF CreateSession, AppendInMemory, TypeOK, Bound, k, b
<1>6. CASE LoadSessionFromStorage(w)
  BY <1>0, <1>2, <1>3, <1>a, <1>6 DEF LoadSessionFromStorage, MayStart, TypeOK, Bound, k, b
<1>7. CASE AppendConflict(w) \/ ClearStorageErr(w)
  BY <1>0, <1>2, <1>7 DEF AppendConflict, ClearStorageErr, Bound, k, b
<1>8. CASE Crash(w)
  BY <1>0, <1>2, <1>3, <1>8 DEF Crash, TypeOK, Bound, k, b
<1>9. CASE StartBind(w)
  <2>1. op'[w].step = "header" /\ op'[w].pos = 0
    BY <1>0, <1>9 DEF StartBind, TypeOK, Idle
  <2> QED
    BY <1>0, <1>2, <1>a, <1>9, <2>1 DEF StartBind, MayStart, Bound, k, b
<1>10. CASE SaveHeader(w)
  <2>1. op'[w].step = "bound?" /\ op'[w].pos = 0
    BY <1>0, <1>10 DEF SaveHeader, TypeOK, Idle
  <2>2. op[w].pos = 0 /\ rows' = rows /\ ~Bound(w)
    BY <1>0, <1>10 DEF SaveHeader, WriterOK, ModeOK, FenceOK, Bound
  <2> QED
    BY <1>0, <1>2, <1>10, <2>1, <2>2 DEF SaveHeader, Bound, k, b
<1>11. CASE CompareRows(w)
  <2>1. op[w].pos = 0 /\ ~Bound(w) /\ rows' = rows /\ session' = session
    BY <1>0, <1>11 DEF CompareRows, WriterOK, ModeOK, Bound
  <2>2. op'[w].step # "fenced" /\ op'[w].pos \in {0, Len(rows)}
    <3>1. CASE RowsMatch(w)
      BY <1>0, <1>11, <3>1 DEF CompareRows, TypeOK, Operations
    <3>2. CASE ~RowsMatch(w)
      BY <1>0, <1>3, <1>11, <3>2 DEF CompareRows, TypeOK
    <3> QED
      BY <3>1, <3>2
  <2>3. Len(rows) \in Nat
    BY <1>0
  <2> QED
    BY <1>2, <1>11, <2>1, <2>2, <2>3 DEF CompareRows, Bound, k, b
<1>12. CASE FinishBind(w)
  BY <1>0, <1>2, <1>3, <1>a, <1>12 DEF FinishBind, WriterOK, ModeOK, TypeOK, Bound, k, b
<1>13. CASE Backfill(w)
  <2>1. ~Bound(w) /\ rows' = rows /\ session' = session /\ op[w].step = "backfill"
    BY <1>0, <1>13 DEF Backfill, WriterOK, ModeOK, Bound
  <2>2. CASE Len(rows) = op[w].pos
    <3>1. /\ op'[w].step = "fenced" /\ op'[w].pos = op[w].pos
          /\ op'[w].batch = <<mem[w][op[w].pos + 1]>>
      BY <1>0, <1>13, <2>2 DEF Backfill, TypeOK, Operations
    <3>2. WriterOK(w)' /\ op'[w].batch \in Batches
      BY <1>13, <3>1, BindStepsKeep DEF WriterOK, FenceOK
    <3> QED
      BY <1>2, <2>1, <3>1, <3>2 DEF Bound, k, b
  <2>3. CASE Len(rows) # op[w].pos
    BY <1>0, <1>2, <1>3, <1>13, <2>1, <2>3 DEF Backfill, TypeOK, Bound, k, b
  <2> QED
    BY <2>2, <2>3
<1>14. CASE AppendBatch(w)
  <2>1. PICK c \in Batches :
          op' = [op EXCEPT ![w] = [step |-> "fenced", mode |-> "append",
                                   pos |-> Len(mem[w]), batch |-> c, seen |-> rows]]
    BY <1>14 DEF AppendBatch
  <2>2. op'[w].step = "fenced" /\ op'[w].batch = c
    BY <1>0, <2>1 DEF TypeOK
  <2> QED
    BY <1>2, <1>14, <2>2 DEF AppendBatch, MayStart, Bound, k, b
<1>b. ASSUME op[w].step = "fenced", ~SeqTaken(w), rows' = Published(w)
      PROVE  /\ rows' = rows \o OfferedBatch[w] /\ OfferedBatch[w] # <<>>
             /\ KnownRows[w] = Len(rows)
  <2>1. rows' = rows \o op[w].batch /\ op[w].pos = Len(rows)
    BY <1>0, <1>b, PublishedIsAppended DEF WriterOK
  <2>2. op[w].batch # <<>>
    BY <1>0, <1>b, BatchesAreSequences DEF WriterOK, FenceOK
  <2> QED
    BY <1>2, <1>a, <1>b, <2>1, <2>2
<1>15. CASE Publish(w)
  <2>1. op'[w].step = "stored" /\ op'[w].pos = op[w].pos
    BY <1>0, <1>15 DEF Publish, TypeOK, Operations
  <2> QED
    BY <1>2, <1>b, <1>15, <2>1 DEF Publish, Bound, k, b
<1>c. ASSUME op'[w] = Idle, session' = session, mem' = mem
      PROVE  b = <<>> /\ k \in {KnownRows[w], 0}
  BY <1>2, <1>3, <1>c DEF Bound, k, b
<1>16. CASE InsertConflict(w) \/ WriteFails(w)
  BY <1>0, <1>c, <1>16 DEF InsertConflict, WriteFails, Fail, TypeOK
<1>17. CASE CommitUnknown(w)
  BY <1>0, <1>b, <1>c, <1>17 DEF CommitUnknown, Fail, TypeOK
<1>18. CASE Acknowledge(w)
  <2>1. /\ op[w].step = "stored" /\ rows' = rows /\ session' = session
        /\ op[w].pos + Len(op[w].batch) <= Len(rows)
    BY <1>0, <1>18 DEF Acknowledge, WriterOK, StoredOK
  <2>2. CASE op[w].mode = "append"
    <3>1. op'[w] = Idle /\ mem'[w] = mem[w] \o op[w].batch
      BY <1>0, <1>18, <2>2 DEF Acknowledge, TypeOK
    <3>2. Len(mem'[w]) = Len(mem[w]) + Len(op[w].batch)
      BY <1>0, <3>1, AgreeOnAppend
    <3>3. Bound(w) /\ Bound(w)' /\ op[w].pos = Len(mem[w])
      BY <1>a, <2>1, <2>2 DEF Bound
    <3>4. k = Len(mem'[w]) /\ KnownRows[w] = Len(mem[w])
      BY <1>2, <3>3 DEF k
    <3>5. b = <<>> /\ OfferedBatch[w] = <<>>
      BY <1>2, <1>3, <2>1, <3>1 DEF b
    <3>6. Len(mem[w]) \in Nat /\ Len(op[w].batch) \in Nat /\ Len(rows) \in Nat
      BY <1>0
    <3>7. Len(mem[w]) + Len(op[w].batch) <= Len(rows)
      BY <2>1, <3>3
    <3>8. Len(mem[w]) + Len(op[w].batch) \in Len(mem[w]) .. Len(rows)
      BY <3>6, <3>7, SumInRange
    <3>9. k \in KnownRows[w] .. Len(rows)
      BY <3>2, <3>4, <3>8
    <3> QED
      BY <2>1, <3>5, <3>9
  <2>3. CASE op[w].mode = "bind"
    <3>1. op'[w].step = "backfill" /\ op'[w].pos = op[w].pos + 1 /\ mem' = mem
      BY <1>0, <1>18, <2>3 DEF Acknowledge, TypeOK, Idle
    <3>2. op[w].batch = <<mem[w][op[w].pos + 1]>>
      BY <1>0, <2>1, <2>3 DEF WriterOK, BindOK
    <3>3. Len(op[w].batch) = 1
      BY <3>2
    <3>4. /\ k = op[w].pos + 1 /\ KnownRows[w] = op[w].pos /\ b = <<>> /\ OfferedBatch[w] = <<>>
      BY <1>2, <1>a, <2>1, <2>3, <3>1 DEF Bound, k, b
    <3>5. k \in KnownRows[w] .. Len(rows)
      BY <1>0, <2>1, <3>3, <3>4
    <3> QED
      BY <2>1, <3>4, <3>5
  <2> QED
    BY <1>a, <2>1, <2>2, <2>3
<1> QED
  BY <1>5, <1>6, <1>7, <1>8, <1>9, <1>10, <1>11, <1>12, <1>13, <1>14, <1>15, <1>16,
     <1>17, <1>18 DEF Step

(* The SQL adapter, and any adapter whose sessions take turns, implements   *)
(* what FencedLog promises.                                                *)
THEOREM ImplementsFencedLog ==
  ASSUME Exclusive PROVE Spec => RefinesFencedLog
<1>1. IInv /\ [Next]_vars => IInv'
  BY InvNext
<1>2. IInv /\ IInv' /\ [Next]_vars => [Fenced!Next]_Fenced!vars
  <2> SUFFICES ASSUME IInv, IInv', [Next]_vars PROVE Fenced!Next \/ UNCHANGED Fenced!vars
    OBVIOUS
  <2>1. CASE Next
    <3>1. PICK w \in Writers : Step(w)
      BY <2>1 DEF Next, Step
    <3> QED
      BY <3>1, FencedNext DEF IInv
  <2>2. CASE UNCHANGED vars
    BY <2>2 DEF vars, Fenced!vars, KnownRows, OfferedBatch, Bound
  <2> QED
    BY <2>1, <2>2
<1> QED
  BY <1>1, <1>2, InvInit, FencedInit, PTL DEF Spec, RefinesFencedLog, Fenced!Spec
=============================================================================
