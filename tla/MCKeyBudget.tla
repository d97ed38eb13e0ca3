---------------------------- MODULE MCKeyBudget ----------------------------
(* Events e1 and e2 are one request on key k1 with other token counts; e3 is a *)
(* request of key k2, and e4 one of k1 whose cost is i64::MAX.  All are of one *)
(* team.                                                                       *)
EXTENDS KeyBudget

CONSTANTS e1, e2, e3, e4, k1, k2, t

MCKeyOf == [e \in Event |-> IF e = e3 THEN k2 ELSE k1]
MCTeamOf == [e \in Event |-> t]
MCRequestOf == [e \in Event |-> IF e \in {e3, e4} THEN 2 ELSE 1]
MCCostOf == [e \in Event |-> CASE e = e2 -> 2 [] e = e4 -> IntMax [] OTHER -> 1]
=============================================================================
