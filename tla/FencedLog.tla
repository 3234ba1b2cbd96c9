----------------------------- MODULE FencedLog -----------------------------
(***************************************************************************)
(* What a StorageAdapter promises the Logs bound to it, without saying how *)
(* (storage.go's interface with its OCC fence, README "Write-through       *)
(* persistence"): the durable log of a session only ever grows, at its     *)
(* end, by one whole batch at a time, and only through a writer that knew  *)
(* every row stored before.  An acknowledgement may be lost: the writer    *)
(* then does not know its own rows.                                        *)
(***************************************************************************)
EXTENDS Naturals, Sequences

CONSTANTS Writers,  \* the sessions open on the same durable log
          Batches   \* the batches a writer may offer, non-empty sequences

VARIABLES log,    \* the durable rows
          known,  \* how many of the first rows a writer knows
          offer   \* the batch a writer is trying to append, <<>> for none

vars == <<log, known, offer>>

Init == /\ log = <<>>
        /\ known = [w \in Writers |-> 0]
        /\ offer = [w \in Writers |-> <<>>]

(* The writer prepares a batch against the rows it knows. *)
Offer(w) == /\ offer[w] = <<>>
            /\ \E b \in Batches : offer' = [offer EXCEPT ![w] = b]
            /\ UNCHANGED <<log, known>>

(* The batch becomes durable, all of it, right behind the rows w knew; a    *)
(* writer that gives up because it is told otherwise forgets them.         *)
Commit(w) == /\ offer[w] # <<>>
             /\ known[w] = Len(log)
             /\ log' = log \o offer[w]
             /\ offer' = [offer EXCEPT ![w] = <<>>]
             /\ known' \in {known, [known EXCEPT ![w] = 0]}

(* The batch is refused or fails: nothing of it is durable. *)
Abandon(w) == /\ offer' = [offer EXCEPT ![w] = <<>>]
              /\ UNCHANGED <<log, known>>

(* The writer reads rows, or is told that its batch was stored. *)
Learn(w) == /\ \E n \in known[w] .. Len(log) : known' = [known EXCEPT ![w] = n]
            /\ UNCHANGED <<log, offer>>

(* The writer crashes, or drops its session. *)
Forget(w) == /\ known' = [known EXCEPT ![w] = 0]
             /\ offer' = [offer EXCEPT ![w] = <<>>]
             /\ UNCHANGED log

Next == \E w \in Writers :
          Offer(w) \/ Commit(w) \/ Abandon(w) \/ Learn(w) \/ Forget(w)

Spec == Init /\ [][Next]_vars
=============================================================================
