------------------------------ MODULE MCServer ------------------------------
(* A batch of two entries and a confirmation of the first of them, which can get a second plan. *)
EXTENDS ServerInvariant

CONSTANTS e1, e2, b1

AskedMC   == [b \in Batches |-> IF b = b1 THEN Entries ELSE {e1}]
PlansOfMC == [e \in Entries |-> IF e = e1 THEN 2 ELSE 1]
=============================================================================
