------------------------------ MODULE MCSerial ------------------------------
(* Serial with keys that fit their 50 bytes and a value that does not: its *)
(* first 49 characters are the value "cut".                                *)
EXTENDS Serial

Cut49 == [x \in Keys \cup Values |-> IF x = "long" THEN "cut" ELSE x]
=============================================================================
