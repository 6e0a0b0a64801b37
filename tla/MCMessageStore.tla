--------------------------- MODULE MCMessageStore ---------------------------
(* Attempts 1 and 2 at one message; 3 and 4 at another.                    *)
EXTENDS MessageStore

MCKeyOf == [a \in Attempts |-> IF a <= 2 THEN 1 ELSE 2]
=============================================================================
