--------------------------- MODULE MCDurableLog ---------------------------
(* Instance of DurableLog for TLC: three event contents, two of one type.  *)
EXTENDS DurableLog, TLC

CONSTANTS hello, hi, answer   \* two user messages and an assistant message

MCEvents == {hello, hi, answer}
MCTypeOf == [e \in MCEvents |-> IF e = answer THEN "assistant_message" ELSE "user_message"]

(* Sessions are interchangeable, and so are the two user messages. *)
Symmetry == Permutations(Writers) \cup Permutations({hello, hi})
=============================================================================
