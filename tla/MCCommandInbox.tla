--------------------------- MODULE MCCommandInbox ---------------------------
(* Two daemons on one root and one command line call.  Envelopes e1 and e2    *)
(* repeat one command key, e1 to enqueue an item and e2 a refused command; e3 *)
(* is malformed and e4 is the enqueue of the command line call.               *)
EXTENDS CommandInbox

CONSTANTS d1, d2, c1, e1, e2, e3, e4, k1, k3, k4, i1, i2

MCOwnEnvelope == [c \in Clis |-> e4]
MCKeyOf  == [e \in Envelopes |->
               CASE e \in {e1, e2} -> k1 [] e = e3 -> k3 [] e = e4 -> k4]
MCItemOf == [e \in Envelopes |-> IF e = e4 THEN i2 ELSE i1]
=============================================================================
