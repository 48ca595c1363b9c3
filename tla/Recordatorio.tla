---------------------------- MODULE Recordatorio ----------------------------
(***************************************************************************)
(* The reminder to quote again (recordatorios.service.ts): users program,  *)
(* move, remove and close it, repeating a quotation cancels it, and an     *)
(* hourly sweep fires what is due and writes to the team.  Nothing stops a *)
(* sweep from starting while the previous one, or that of another host,    *)
(* still runs.                                                             *)
(*                                                                         *)
(* A request or sweep is a sequence of round trips; each action is one of  *)
(* them, atomic on one document.  Operations of a single conditional write *)
(* have no locals and are one action.                                      *)
(***************************************************************************)
EXTENDS Integers

CONSTANTS
    Cots,           \* the quotations, each with at most one reminder
    Peticiones,     \* the PUT requests that can be in flight together
    Barridos,       \* the sweeps that can run together
    Plazos,         \* how far ahead a recipe may put the date
    MaxTiempo       \* bound: the clock stops there

ASSUME PlazosAssumption == Plazos \subseteq Nat \ {0}

VARIABLES
    now,            \* the clock of the hosts
    rec,            \* rec[c]: the stored reminder of c
    put,            \* put[p]: progress and locals of an upsert
    barrido,        \* barrido[b]: progress and locals of a sweep
    correos         \* correos[c]: emails about the reminder of c that SMTP took

vars == <<now, rec, put, barrido, correos>>

\* ESTADOS_RECORDATORIO, and those upsert may program from.
Estados == {"programado", "disparado", "cancelado", "cerrado"}
Reprogramables == {"programado", "cancelado"}

Ausente == [estado |-> "ausente", everDisparado |-> FALSE, fecha |-> 0]
Libre == [pc |-> "libre"]

Documento ==
    {Ausente} \cup [estado : Estados, everDisparado : BOOLEAN, fecha : Nat \ {0}]

Put ==
    {Libre} \cup [pc : {"actualizar", "buscar", "insertar", "reintentar"},
                  cot : Cots, fecha : Nat \ {0}]

Barrido ==
    {Libre} \cup [pc : {"recorrer"}, lote : SUBSET Cots]
            \cup [pc : {"correo"}, lote : SUBSET Cots, cot : Cots]

TypeOK ==
    /\ now \in Nat
    /\ rec \in [Cots -> Documento]
    /\ put \in [Peticiones -> Put]
    /\ barrido \in [Barridos -> Barrido]
    /\ correos \in [Cots -> Nat]

Init ==
    /\ now = 0
    /\ rec = [c \in Cots |-> Ausente]
    /\ put = [p \in Peticiones |-> Libre]
    /\ barrido = [b \in Barridos |-> Libre]
    /\ correos = [c \in Cots |-> 0]

\* The step of the life of a reminder its document stands for.
Ciclo == INSTANCE CicloRecordatorio WITH
            fase <- [c \in Cots |->
                        IF rec[c].everDisparado THEN "avisado"
                        ELSE IF rec[c].estado = "programado" THEN "armado" ELSE "quieto"]

-----------------------------------------------------------------------------
SeguirPut(p, registro) == put' = [put EXCEPT ![p] = registro]

SeguirBarrido(b, registro) == barrido' = [barrido EXCEPT ![b] = registro]

Pendiente(c) == rec[c].estado = "programado" /\ rec[c].fecha <= now

(* Programming: PUT /cotizaciones/:id/recordatorio *)

\* calcularFechaDisparoUtc: whatever the recipe, the date is in the future of
\* the moment of the computation, or the request ends in an error.
FechasDisparo == {now + d : d \in Plazos}

\* upsert reads the quotation and the tenant's time zone and computes the date.
UpsertCalcula(p, c) ==
    /\ put[p].pc = "libre"
    /\ \E f \in FechasDisparo :
        SeguirPut(p, [pc |-> "actualizar", cot |-> c, fecha |-> f])
    /\ UNCHANGED <<now, rec, barrido, correos>>

\* Faulty variant: allowedFilter looks at the state only.
PermitidoSinBandera(c) == rec[c].estado \in Reprogramables

\* allowedFilter
Permitido(c) == rec[c].estado \in Reprogramables /\ ~rec[c].everDisparado

\* The conditional findOneAndUpdate, tried first and again after a duplicate
\* key.  Without a match the first goes on to look for the document; the
\* second ends in a conflict.
UpsertActualiza(p) ==
    /\ put[p].pc \in {"actualizar", "reintentar"}
    /\ LET r == put[p] IN
        IF Permitido(r.cot)
        THEN /\ rec' = [rec EXCEPT ![r.cot].estado = "programado",
                                   ![r.cot].fecha = r.fecha]
             /\ SeguirPut(p, Libre)
        ELSE /\ SeguirPut(p, IF r.pc = "actualizar"
                             THEN [r EXCEPT !.pc = "buscar"] ELSE Libre)
             /\ UNCHANGED rec
    /\ UNCHANGED <<now, barrido, correos>>

\* A document that is there means a conflict, whatever its state is by now.
UpsertBusca(p) ==
    /\ put[p].pc = "buscar"
    /\ SeguirPut(p, IF rec[put[p].cot].estado = "ausente"
                    THEN [put[p] EXCEPT !.pc = "insertar"] ELSE Libre)
    /\ UNCHANGED <<now, rec, barrido, correos>>

\* Faulty variant: no unique index; the later insert hides the earlier one.
UpsertInsertaSinIndice(p) ==
    /\ put[p].pc = "insertar"
    /\ rec' = [rec EXCEPT ![put[p].cot] = [estado |-> "programado",
                                           everDisparado |-> FALSE,
                                           fecha |-> put[p].fecha]]
    /\ SeguirPut(p, Libre)
    /\ UNCHANGED <<now, barrido, correos>>

\* The unique index refuses a second document of the same quotation.
UpsertInserta(p) ==
    /\ put[p].pc = "insertar"
    /\ LET r == put[p] IN
        IF rec[r.cot].estado = "ausente"
        THEN /\ rec' = [rec EXCEPT ![r.cot] = [estado |-> "programado",
                                               everDisparado |-> FALSE,
                                               fecha |-> r.fecha]]
             /\ SeguirPut(p, Libre)
        ELSE SeguirPut(p, [r EXCEPT !.pc = "reintentar"]) /\ UNCHANGED rec
    /\ UNCHANGED <<now, barrido, correos>>

-----------------------------------------------------------------------------
(* Removing and closing *)

Pasar(c, desde, hasta) ==
    /\ rec[c].estado \in desde
    /\ rec' = [rec EXCEPT ![c].estado = hasta]
    /\ UNCHANGED <<now, put, barrido, correos>>

\* Faulty variant: DELETE creates what it does not find.
CancelarUpsert(c) == Pasar(c, {"programado", "ausente"}, "cancelado")

\* DELETE: only what has not fired.
Cancelar(c) == Pasar(c, {"programado"}, "cancelado")

\* Repeating the quotation cancels its reminder, fired or not.
CancelarPorRepetir(c) == Pasar(c, {"programado", "disparado"}, "cancelado")

\* A fired reminder is marked as attended.
Cerrar(c) == Pasar(c, {"disparado"}, "cerrado")

-----------------------------------------------------------------------------
(* The sweep *)

\* What a sweep does after a document: the next one, if there is one.
Resto(lote) == IF lote = {} THEN Libre ELSE [pc |-> "recorrer", lote |-> lote]

\* Faulty variant: the query excludes what is due right now.
BarridoIniciaAntes(b) ==
    /\ barrido[b].pc = "libre"
    /\ LET lote == {c \in Cots : Pendiente(c) /\ rec[c].fecha < now} IN
        lote # {} /\ SeguirBarrido(b, Resto(lote))
    /\ UNCHANGED <<now, rec, put, correos>>

\* The query of handleCronDispararRecordatorios: the cursor brings what is due
\* in one batch.  A sweep that finds nothing does nothing.
BarridoInicia(b) ==
    /\ barrido[b].pc = "libre"
    /\ LET lote == {c \in Cots : Pendiente(c)} IN
        lote # {} /\ SeguirBarrido(b, Resto(lote))
    /\ UNCHANGED <<now, rec, put, correos>>

\* Faulty variant: the write that fires is conditional on the state only.
DispararSinFecha(b, c) ==
    /\ barrido[b].pc = "recorrer" /\ c \in barrido[b].lote
    /\ LET lote == barrido[b].lote \ {c} IN
        IF rec[c].estado = "programado"
        THEN /\ rec' = [rec EXCEPT ![c].estado = "disparado", ![c].everDisparado = TRUE]
             /\ SeguirBarrido(b, [pc |-> "correo", lote |-> lote, cot |-> c])
        ELSE SeguirBarrido(b, Resto(lote)) /\ UNCHANGED rec
    /\ UNCHANGED <<now, put, correos>>

\* procesarDisparoRecordatorio takes the time again and fires what is still
\* programmed and due.
Disparar(b, c) ==
    /\ barrido[b].pc = "recorrer" /\ c \in barrido[b].lote
    /\ LET lote == barrido[b].lote \ {c} IN
        IF Pendiente(c)
        THEN /\ rec' = [rec EXCEPT ![c].estado = "disparado", ![c].everDisparado = TRUE]
             /\ SeguirBarrido(b, [pc |-> "correo", lote |-> lote, cot |-> c])
        ELSE SeguirBarrido(b, Resto(lote)) /\ UNCHANGED rec
    /\ UNCHANGED <<now, put, correos>>

\* enviarCorreoDisparo reaches SMTP.
CorreoSale(b) ==
    /\ barrido[b].pc = "correo"
    /\ correos' = [correos EXCEPT ![barrido[b].cot] = @ + 1]
    /\ SeguirBarrido(b, Resto(barrido[b].lote))
    /\ UNCHANGED <<now, rec, put>>

\* No recipients, no folio, or an error, which is only logged.
CorreoFalla(b) ==
    /\ barrido[b].pc = "correo"
    /\ SeguirBarrido(b, Resto(barrido[b].lote))
    /\ UNCHANGED <<now, rec, put, correos>>

-----------------------------------------------------------------------------
\* The database fails or the process stops.
AbortarPut(p) ==
    /\ put[p].pc # "libre"
    /\ SeguirPut(p, Libre)
    /\ UNCHANGED <<now, rec, barrido, correos>>

AbortarBarrido(b) ==
    /\ barrido[b].pc # "libre"
    /\ SeguirBarrido(b, Libre)
    /\ UNCHANGED <<now, rec, put, correos>>

Tic ==
    /\ now < MaxTiempo
    /\ now' = now + 1
    /\ UNCHANGED <<rec, put, barrido, correos>>

Next ==
    \/ \E p \in Peticiones, c \in Cots : UpsertCalcula(p, c)
    \/ \E p \in Peticiones :
        UpsertActualiza(p) \/ UpsertBusca(p) \/ UpsertInserta(p) \/ AbortarPut(p)
    \/ \E c \in Cots : Cancelar(c) \/ CancelarPorRepetir(c) \/ Cerrar(c)
    \/ \E b \in Barridos, c \in Cots : Disparar(b, c)
    \/ \E b \in Barridos :
        BarridoInicia(b) \/ CorreoSale(b) \/ CorreoFalla(b) \/ AbortarBarrido(b)
    \/ Tic

Spec == Init /\ [][Next]_vars

\* The scheduler starts the sweep every hour, an attempt to send an email ends
\* (the SMTP client has timeouts), and a sweep interrupted now and then reaches
\* each due document in the end.
EquidadBarrido ==
    \A b \in Barridos :
        /\ WF_vars(BarridoInicia(b))
        /\ WF_vars(CorreoSale(b) \/ CorreoFalla(b))
        /\ \A c \in Cots : SF_vars(Disparar(b, c))

SpecJusta == Spec /\ EquidadBarrido

-----------------------------------------------------------------------------
\* The team gets at most one email per quotation, ever: neither two sweeps at
\* once, nor programming again after a repetition cancelled a fired reminder,
\* sends a second one.
UnSoloCorreo == \A c \in Cots : correos[c] <= 1

\* Requests and sweeps, interleaved in any way, keep the promises of
\* CicloRecordatorio: a reminder that has fired stays so and is not armed again.
CicloCumplido == Ciclo!Spec

\* A sweep fires a reminder only at the date stored at that moment: a user who
\* postpones or removes it while the sweep holds it in its batch is heeded.
DisparoEnFecha ==
    [][\A c \in Cots :
        (rec'[c].everDisparado /\ ~rec[c].everDisparado) => Pendiente(c)]_vars

\* A reminder that is due does not stay so: it fires, or somebody moves or
\* removes it.
PendientesSeAtienden == \A c \in Cots : Pendiente(c) ~> ~Pendiente(c)

\* The flag agrees with the state in the states that decide it.
BanderaCoherente ==
    \A c \in Cots :
        /\ rec[c].estado \in {"disparado", "cerrado"} => rec[c].everDisparado
        /\ rec[c].estado = "programado" => ~rec[c].everDisparado

\* The sweep that fired a reminder is the only one that may write about it, and
\* it has not yet.
CorreoReservado ==
    /\ \A c \in Cots : correos[c] <= (IF rec[c].everDisparado THEN 1 ELSE 0)
    /\ \A b \in Barridos : barrido[b].pc = "correo" =>
        /\ rec[barrido[b].cot].everDisparado
        /\ correos[barrido[b].cot] = 0
        /\ \A a \in Barridos \ {b} :
            barrido[a].pc = "correo" => barrido[a].cot # barrido[b].cot

\* The inductive invariant of RecordatorioProofs.
IndInv == TypeOK /\ BanderaCoherente /\ CorreoReservado
=============================================================================
