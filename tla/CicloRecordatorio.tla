-------------------------- MODULE CicloRecordatorio --------------------------
(***************************************************************************)
(* What the system promises about the reminder of a quotation: it may be   *)
(* armed and disarmed any number of times, it reaches the team once, and   *)
(* from then on it can never be armed again.  Recordatorio implements it.  *)
(***************************************************************************)
CONSTANT Cots                   \* the quotations

VARIABLE fase                   \* fase[c]: "quieto", "armado" or "avisado"

Armar(c) ==
    /\ fase[c] = "quieto"
    /\ fase' = [fase EXCEPT ![c] = "armado"]

Desarmar(c) ==
    /\ fase[c] = "armado"
    /\ fase' = [fase EXCEPT ![c] = "quieto"]

Avisar(c) ==
    /\ fase[c] = "armado"
    /\ fase' = [fase EXCEPT ![c] = "avisado"]

Init == fase = [c \in Cots |-> "quieto"]

Next == \E c \in Cots : Armar(c) \/ Desarmar(c) \/ Avisar(c)

Spec == Init /\ [][Next]_fase
=============================================================================
