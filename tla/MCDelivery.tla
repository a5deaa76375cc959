------------------------------ MODULE MCDelivery ------------------------------
(* Records of one partition; the first has a payload that goes to a blob. *)
EXTENDS Delivery

MCPartOf == [r \in Recs |-> 1]
MCBlobOf == [r \in Recs |-> IF r = 1 THEN 1 ELSE 0]
=============================================================================
