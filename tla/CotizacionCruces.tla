-------------------------- MODULE CotizacionCruces --------------------------
(***************************************************************************)
(* Cotizacion with a record of what happened to a quotation while a manual *)
(* change of it was under way, between the read and the conditional write  *)
(* of cambiarEstadoManual.  The code keeps no such record: its write tells *)
(* what changed in between from the state alone, and a state may be left   *)
(* and come back.  The record restricts nothing and only tells what        *)
(* RespuestaNoPisada is about.                                             *)
(***************************************************************************)
EXTENDS Cotizacion

VARIABLES
    respondidas,    \* the changes whose quotation the customer answered meanwhile
    reabiertas      \* the changes whose quotation was opened again meanwhile

cruces == <<respondidas, reabiertas>>

TypeCruces == respondidas \subseteq Peticiones /\ reabiertas \subseteq Peticiones

\* The manual change of p has read the document and has not written it yet.
EnCambio(p) == pet[p].pc \in {"fechar", "cambiar"}

\* What may happen to quotation c in a step: the customer answers it through
\* the link, or it goes back to vigente.
Contestada(c) ==
    /\ cot[c].estado = "vigente"
    /\ cot'[c].estado \in Decisiones /\ cot'[c].origen = "magic_link"

Reabierta(c) == cot[c].estado # "vigente" /\ cot'[c].estado = "vigente"

\* The changes that are under way before and after a step.
SiguenCambiando == {p \in Peticiones : EnCambio(p) /\ EnCambio(p)'}

Anota ==
    /\ respondidas' =
        {p \in SiguenCambiando : p \in respondidas \/ Contestada(pet[p].cot)}
    /\ reabiertas' =
        {p \in SiguenCambiando : p \in reabiertas \/ Reabierta(pet[p].cot)}

InitCruces == Init /\ respondidas = {} /\ reabiertas = {}

NextCruces == Next /\ Anota

SpecCruces == InitCruces /\ [][NextCruces]_<<vars, cruces>>

-----------------------------------------------------------------------------
\* The decision of a customer is replaced only by a manual change that read
\* it.  The write of cambiarEstadoManual compares the state alone, which leaves
\* one way round: if the customer answered while the change was under way, the
\* quotation had also been opened again since the change read it, and the
\* customer had decided again what it had read.
RespuestaNoPisada ==
    [][\A c \in Cots :
        (cot[c].origen = "magic_link" /\ cot'[c].origen # "magic_link") =>
            \E p \in Peticiones :
                /\ En(p, "cambiar") /\ ~En(p, "cambiar")'
                /\ pet[p].cot = c /\ pet[p].leido = cot[c].estado
                /\ p \in respondidas => p \in reabiertas]_<<vars, cruces>>

\* While nobody opens its quotation again, a change under way has read the open
\* quotation if it is still open or was answered meanwhile, and an answer that
\* came meanwhile has closed it.
LeidoAntes ==
    \A p \in Peticiones : EnCambio(p) /\ p \notin reabiertas =>
        LET e == cot[pet[p].cot].estado IN
        /\ (p \in respondidas \/ e = "vigente") => pet[p].leido = "vigente"
        /\ p \in respondidas => e # "vigente"
=============================================================================
