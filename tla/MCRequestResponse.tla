------------------------- MODULE MCRequestResponse -------------------------
(* Calls of RequestResponse that share one envelope id: a call and its retry. *)
EXTENDS RequestResponse

MCIdOf == [c \in Call |-> CHOOSE i \in Id : TRUE]
=============================================================================
