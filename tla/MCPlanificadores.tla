-------------------------- MODULE MCPlanificadores --------------------------
(***************************************************************************)
(* Counters, with three requests over two keys of which one has older      *)
(* folios that leave a gap; and the two scheduled sweeps, of Cotizacion    *)
(* and of Recordatorio, with the fairness of the scheduler.  They share no *)
(* state, so a behaviour is of one of the three and the others are stopped *)
(* from the start.                                                         *)
(***************************************************************************)
EXTENDS Counters, TLC

CONSTANTS Cots, Peticiones, Crons, Fechas, Vigencia, PlazoAbierto, MaxEnvios, MaxSaldo,
          Avisadas, Barridos, Plazos, MaxTiempo

VARIABLES parte, now, cot, pet, emitidos, entregado, saldo,
          hora, rec, put, barrido, correos

C == INSTANCE Cotizacion WITH Observadas <- {}
R == INSTANCE Recordatorio WITH Cots <- Avisadas, now <- hora

varsC == <<now, cot, pet, emitidos, entregado, saldo>>
varsR == <<hora, rec, put, barrido, correos>>

MCLegacy == [k \in Keys |-> IF k = CHOOSE x \in Keys : TRUE THEN {1, 3} ELSE {}]

Parado == [pc |-> "parado"]

SinFolios == Init /\ \A r \in Requests : req[r].key = CHOOSE k \in Keys : TRUE

SinCotizaciones ==
    /\ now = 0 /\ cot = [c \in Cots |-> [estado |-> "ausente"]]
    /\ pet = [p \in Peticiones \cup Crons |-> Parado]
    /\ emitidos = 0 /\ entregado = [c \in Cots |-> 0] /\ saldo = [c \in Cots |-> 0]

SinRecordatorios ==
    /\ hora = 0 /\ rec = [c \in Avisadas |-> R!Ausente]
    /\ put = [p \in Peticiones |-> Parado] /\ barrido = [b \in Barridos |-> Parado]
    /\ correos = [c \in Avisadas |-> 0]

InitPartes ==
    \/ parte = "folios" /\ Init /\ SinCotizaciones /\ SinRecordatorios
    \/ parte = "cotizaciones" /\ SinFolios /\ C!Init /\ SinRecordatorios
    \/ parte = "recordatorios" /\ SinFolios /\ SinCotizaciones /\ R!Init

NextPartes ==
    /\ UNCHANGED parte
    /\ \/ parte = "folios" /\ Next /\ UNCHANGED <<varsC, varsR>>
       \/ parte = "cotizaciones" /\ C!Next /\ UNCHANGED <<vars, varsR>>
       \/ parte = "recordatorios" /\ R!Next /\ UNCHANGED <<vars, varsC>>

SpecJusta ==
    /\ InitPartes /\ [][NextPartes]_<<parte, vars, varsC, varsR>>
    /\ C!EquidadCron /\ R!EquidadBarrido

\* An open quotation whose date has passed is marked or changed by somebody: it
\* does not stay open and overdue for ever (cotizaciones.service.ts:1941).
VencidasSeMarcan == C!VencidasSeMarcan

\* A reminder whose date has come fires, or is moved or removed by somebody
\* (recordatorios.service.ts:466).
PendientesSeAtienden == R!PendientesSeAtienden
=============================================================================
