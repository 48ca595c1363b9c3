--------------------------- MODULE CicloCotizacion ---------------------------
(***************************************************************************)
(* What the system promises about the life of a quotation: who may move it *)
(* from which state to which.  It says nothing of reads, timestamps,       *)
(* tokens or requests in flight; the module Cotizacion implements it.      *)
(***************************************************************************)
CONSTANT Cots                   \* the quotations

VARIABLES
    estado,                     \* estado[c]: the state, "ausente" before it exists
    origen                      \* origen[c]: who made the last change of state

ciclo == <<estado, origen>>

\* ESTADOS_COTIZACION, and the decisions of a customer among them.
Estados == {"vigente", "vencida", "aceptada", "rechazada", "cancelada"}
Decisiones == {"aceptada", "rechazada"}

Mover(c, e, o) ==
    /\ estado' = [estado EXCEPT ![c] = e]
    /\ origen' = [origen EXCEPT ![c] = o]

\* A quotation is born open.
Nacer(c) ==
    /\ estado[c] = "ausente"
    /\ Mover(c, "vigente", "ninguno")

\* A customer decides about an open quotation only, and so at most once
\* unless somebody reopens it.
Responder(c) ==
    /\ estado[c] = "vigente"
    /\ \E d \in Decisiones : Mover(c, d, "magic_link")

\* The sweep expires an open quotation only.
Expirar(c) ==
    /\ estado[c] = "vigente"
    /\ Mover(c, "vencida", "cron")

\* A user moves a quotation from any state to any other.
CambiarManual(c) ==
    /\ estado[c] # "ausente"
    /\ \E e \in Estados \ {estado[c]} : Mover(c, e, "usuario")

Init ==
    /\ estado = [c \in Cots |-> "ausente"]
    /\ origen = [c \in Cots |-> "ninguno"]

Next ==
    \E c \in Cots : Nacer(c) \/ Responder(c) \/ Expirar(c) \/ CambiarManual(c)

Spec == Init /\ [][Next]_ciclo
=============================================================================
