------------------------- MODULE DocumentLifecycle -------------------------
(***************************************************************************)
(* What the documents endpoints promise about one document, to a client    *)
(* that knows nothing of rows and objects: it is stored once, as a whole;  *)
(* a delete makes its file unavailable and then takes the document away;   *)
(* nothing brings a deleted document or file back.                         *)
(***************************************************************************)

CONSTANT Doc

VARIABLE document   \* per document: what a client can find

State == {"none", "stored", "unavailable", "gone"}

Init == document = [d \in Doc |-> "none"]

Become(d, from, to) == document[d] = from /\ document' = [document EXCEPT ![d] = to]

Store(d)    == Become(d, "none", "stored")
LoseFile(d) == Become(d, "stored", "unavailable")
Remove(d)   == Become(d, "unavailable", "gone")

Next == \E d \in Doc : Store(d) \/ LoseFile(d) \/ Remove(d)

Spec == Init /\ [][Next]_document

=============================================================================
