----------------------------- MODULE Cotizacion -----------------------------
(***************************************************************************)
(* The life of a quotation as cotizaciones.service.ts runs it: users       *)
(* change its state and its fields, customers answer through the emailed   *)
(* link, the sweep expires what is overdue, and the quotation is emailed   *)
(* and emailed again.                                                      *)
(*                                                                         *)
(* A request is a sequence of round trips to MongoDB and to SMTP.  Each    *)
(* action is one of them, atomic on one document as a findOneAndUpdate is; *)
(* between two of them everything else may happen.  What a request carries *)
(* across its awaits is its record in `pet`.  Requests that end in an      *)
(* error before writing anything leave no trace and are not steps.         *)
(***************************************************************************)
EXTENDS Integers

CONSTANTS
    Cots,           \* the quotations
    Peticiones,     \* the HTTP requests that can be in flight together
    Crons,          \* the scheduled sweeps (one per running host)
    Observadas,     \* the quotations whose deliveries are recorded in entregado
    Fechas,         \* the instants a user may give as fechaVencimiento
    Vigencia,       \* vigenciaDefaultDias of the tenant
    PlazoAbierto,   \* the 365 days of a link without vigencia
    MaxTiempo,      \* bound: the clock stops there
    MaxEnvios,      \* bound: magic tokens issued
    MaxSaldo        \* bound: times a quotation is opened and not answered

ASSUME FechasAssumption == Fechas \subseteq Nat \ {0}
ASSUME PlazosAssumption == Vigencia \in Nat \ {0} /\ PlazoAbierto \in Nat \ {0}

Procesos == Peticiones \cup Crons

VARIABLES
    now,            \* the clock of the hosts
    cot,            \* cot[c]: the stored document
    pet,            \* pet[p]: progress and local variables of p
    emitidos,       \* magic tokens are numbered as crypto.randomBytes makes them
    entregado,      \* entregado[c]: the last link of c SMTP took, with its date
    saldo           \* saldo[c]: times c was made vigente, less the internal
                    \* notifications of an answer sent for it

vars == <<now, cot, pet, emitidos, entregado, saldo>>

Ciclo == INSTANCE CicloCotizacion WITH
            estado <- [c \in Cots |-> cot[c].estado],
            origen <- [c \in Cots |-> cot[c].origen]

Estados == {"vigente", "vencida", "aceptada", "rechazada", "cancelada"}
Decisiones == {"aceptada", "rechazada"}

\* The fields the life of a quotation depends on.  Dates and tokens are
\* numbers, 0 when the field is null or absent; actor, fechaAceptacion and
\* fechaRechazo say whether the field is set.
Documento ==
    [estado : Estados \cup {"ausente"},
     origen : {"ninguno", "usuario", "magic_link", "cron"},
     actor : BOOLEAN, fechaAceptacion : BOOLEAN, fechaRechazo : BOOLEAN,
     sinVigencia : BOOLEAN, creacion : Nat, vence : Nat,
     token : Nat, tokenVence : Nat]

\* What each request keeps across an await.
Peticion ==
    [pc : {"libre"}]
    \cup [pc : {"leer"}, cot : Cots, destino : Estados, fecha : Nat]
    \cup [pc : {"fechar", "cambiar"}, cot : Cots, leido : Estados, destino : Estados,
          fecha : Nat, resto : Nat]
    \cup [pc : {"restar"}, cot : Cots, resto : Nat]
    \cup [pc : {"responder"}, token : Nat, decision : Decisiones, hora : Nat]
    \cup [pc : {"avisar"}, cot : Cots]
    \cup [pc : {"barrer"}, hora : Nat, faltan : SUBSET Cots]
    \cup [pc : {"emitir"}, cot : Cots, vence : Nat]
    \cup [pc : {"enviar", "limpiar"}, cot : Cots, token : Nat, vence : Nat]

TypeOK ==
    /\ now \in Nat
    /\ cot \in [Cots -> Documento]
    /\ pet \in [Procesos -> Peticion]
    /\ emitidos \in Nat
    /\ entregado \in [Cots -> [token : Nat, vence : Nat]]
    /\ saldo \in [Cots -> Int]

Libre == [pc |-> "libre"]

Init ==
    /\ now = 1
    /\ cot = [c \in Cots |->
                [estado |-> "ausente", origen |-> "ninguno", actor |-> FALSE,
                 fechaAceptacion |-> FALSE, fechaRechazo |-> FALSE,
                 sinVigencia |-> FALSE, creacion |-> 0, vence |-> 0,
                 token |-> 0, tokenVence |-> 0]]
    /\ pet = [p \in Procesos |-> Libre]
    /\ emitidos = 0
    /\ entregado = [c \in Cots |-> [token |-> 0, vence |-> 0]]
    /\ saldo = [c \in Cots |-> 0]

-----------------------------------------------------------------------------
En(p, paso) == pet[p].pc = paso

Seguir(p, registro) == pet' = [pet EXCEPT ![p] = registro]

Guardar(c, doc) == cot' = [cot EXCEPT ![c] = doc]

Existe(c) == cot[c].estado # "ausente"

\* Overdue at instant t, as the answer and the sweep judge it.
Vencido(doc, t) == ~doc.sinVigencia /\ doc.vence # 0 /\ doc.vence < t

\* resolveVencimiento: no date, the one given, which must not be before today,
\* or the default one.
VencimientoInicial(sin) ==
    IF sin THEN {0} ELSE {v \in Fechas \cup {now + Vigencia} : v >= now}

\* createAdminCotizacion, and the copy repetirCotizacion makes.
Crear(c) ==
    /\ ~Existe(c)
    /\ \E sin \in BOOLEAN : \E v \in VencimientoInicial(sin) :
        Guardar(c, [cot[c] EXCEPT !.estado = "vigente", !.creacion = now,
                                  !.sinVigencia = sin, !.vence = v])
    /\ saldo' = [saldo EXCEPT ![c] = @ + 1]
    /\ UNCHANGED <<now, pet, emitidos, entregado>>

-----------------------------------------------------------------------------
(* Manual changes *)

\* cambiarEstadoManual, from the document it read to the next await.  It throws
\* when nothing would change.  Only reopening needs the time and a date.
Cambio(c, destino, fecha, resto) ==
    LET e == cot[c].estado IN
    IF e = destino THEN Libre
    ELSE [pc |-> IF destino = "vigente" THEN "fechar" ELSE "cambiar",
          cot |-> c, leido |-> e, destino |-> destino,
          fecha |-> IF destino = "vigente" THEN fecha ELSE 0, resto |-> resto]

\* Faulty variant: findOne does not throw for a quotation that is not there.
CambiarLeeSin404(p, c) ==
    /\ En(p, "libre")
    /\ \E d \in Estados, f \in Fechas \cup {0} : Seguir(p, Cambio(c, d, f, 0))
    /\ UNCHANGED <<now, cot, emitidos, entregado, saldo>>

\* PATCH :id/estado, with or without a date, and its shortcuts (aceptar,
\* rechazar, marcar-vencida) read the document.
CambiarLee(p, c) ==
    /\ En(p, "libre") /\ Existe(c)
    /\ \E d \in Estados, f \in Fechas \cup {0} : Seguir(p, Cambio(c, d, f, 0))
    /\ UNCHANGED <<now, cot, emitidos, entregado, saldo>>

\* update: the state it aims at is the given one or follows from the date.
\* When that differs from what it reads it calls cambiarEstadoManual; a date
\* that call does not use is left for the last write.
UpdateLee(p, c) ==
    /\ En(p, "libre") /\ Existe(c)
    /\ \E e \in {"vigente", "vencida", "no"}, f \in Fechas \cup {0} :
        LET destino == IF e # "no" THEN e
                       ELSE IF f < now THEN "vencida" ELSE "vigente"
            cambia  == (e # "no" \/ f # 0) /\ destino # cot[c].estado
        IN  /\ cambia \/ f # 0
            /\ Seguir(p, IF cambia
                         THEN [pc |-> "leer", cot |-> c, destino |-> destino, fecha |-> f]
                         ELSE [pc |-> "restar", cot |-> c, resto |-> f])
    /\ UNCHANGED <<now, cot, emitidos, entregado, saldo>>

\* cambiarEstadoManual, called by update, reads the document again.
UpdateRelee(p) ==
    /\ En(p, "leer")
    /\ LET r == pet[p] IN
        Seguir(p, Cambio(r.cot, r.destino, r.fecha,
                         IF r.destino = "vigente" THEN 0 ELSE r.fecha))
    /\ UNCHANGED <<now, cot, emitidos, entregado, saldo>>

\* After resolving the user's name it takes the time.  The date given must be
\* in the future (it throws otherwise); without one the default applies.
CambiarFecha(p) ==
    /\ En(p, "fechar")
    /\ LET r == pet[p]
           v == IF r.fecha = 0 THEN now + Vigencia ELSE r.fecha
       IN  Seguir(p, IF v <= now THEN Libre
                     ELSE [r EXCEPT !.pc = "cambiar", !.fecha = v])
    /\ UNCHANGED <<now, cot, emitidos, entregado, saldo>>

\* Faulty variant: reopening leaves the dates of the earlier answer.
MarcadoSinLimpiar(d, destino, fecha) ==
    [d EXCEPT !.estado = destino, !.origen = "usuario", !.actor = TRUE,
              !.fechaAceptacion = IF destino = "vigente" THEN @ ELSE destino = "aceptada",
              !.fechaRechazo = IF destino = "vigente" THEN @ ELSE destino = "rechazada",
              !.vence = IF destino = "vigente" THEN fecha ELSE @]

\* The $set of a manual change on document d.  A stored sinVigencia and the
\* magic token are left as they are.
Marcado(d, destino, fecha) ==
    [d EXCEPT !.estado = destino, !.origen = "usuario", !.actor = TRUE,
              !.fechaAceptacion = (destino = "aceptada"),
              !.fechaRechazo = (destino = "rechazada"),
              !.vence = IF destino = "vigente" THEN fecha ELSE @]

\* Faulty variant: the write does not depend on the state read before.
CambiarEscribeSiempre(p) ==
    /\ En(p, "cambiar")
    /\ LET r == pet[p]
           c == r.cot
       IN  /\ r.destino = "vigente" => saldo[c] < MaxSaldo
           /\ Guardar(c, Marcado(cot[c], r.destino, r.fecha))
           /\ saldo' = IF r.destino = "vigente"
                       THEN [saldo EXCEPT ![c] = @ + 1] ELSE saldo
    /\ Seguir(p, Libre)
    /\ UNCHANGED <<now, emitidos, entregado>>

\* The write is conditional on the state read before; when it does not match
\* the request ends in an error.
CambiarEscribe(p) ==
    /\ En(p, "cambiar")
    /\ LET r == pet[p]
           c == r.cot
       IN  IF cot[c].estado # r.leido
           THEN Seguir(p, Libre) /\ UNCHANGED <<cot, saldo>>
           ELSE /\ r.destino = "vigente" => saldo[c] < MaxSaldo
                /\ Guardar(c, Marcado(cot[c], r.destino, r.fecha))
                /\ saldo' = IF r.destino = "vigente"
                            THEN [saldo EXCEPT ![c] = @ + 1] ELSE saldo
                /\ Seguir(p, IF r.resto = 0 THEN Libre
                             ELSE [pc |-> "restar", cot |-> c, resto |-> r.resto])
    /\ UNCHANGED <<now, emitidos, entregado>>

\* The last write of update sets the other fields, the date among them,
\* whatever the state has become.
UpdateEscribe(p) ==
    /\ En(p, "restar")
    /\ LET r == pet[p] IN Guardar(r.cot, [cot[r.cot] EXCEPT !.vence = r.resto])
    /\ Seguir(p, Libre)
    /\ UNCHANGED <<now, emitidos, entregado, saldo>>

-----------------------------------------------------------------------------
(* Answers through the magic link *)

\* responderByMagicToken reads by token (the link must not have expired),
\* then takes the time and goes on only with an open quotation.  Every other
\* case is answered without writing.
ResponderLee(p, c) ==
    /\ En(p, "libre")
    /\ cot[c].token # 0 /\ cot[c].tokenVence >= now
    /\ cot[c].estado = "vigente"
    /\ ~Vencido(cot[c], now)
    /\ \E d \in Decisiones :
        Seguir(p, [pc |-> "responder", token |-> cot[c].token, decision |-> d, hora |-> now])
    /\ UNCHANGED <<now, cot, emitidos, entregado, saldo>>

\* Faulty variants: the write of an answer does not check the state again, or
\* does not check the deadline again.
RespondiblesSinEstado(r) ==
    {c \in Cots : /\ cot[c].token = r.token
                  /\ cot[c].sinVigencia \/ cot[c].vence >= r.hora}
RespondiblesSinPlazo(r) ==
    {c \in Cots : cot[c].token = r.token /\ cot[c].estado = "vigente"}

\* The documents the conditional write of an answer matches.
Respondibles(r) ==
    {c \in Cots : /\ cot[c].token = r.token
                  /\ cot[c].estado = "vigente"
                  /\ cot[c].sinVigencia \/ cot[c].vence >= r.hora}

\* Faulty variant: no $unset of the user who changed the state before.
RespondidoSinUnset(d, decision) ==
    [d EXCEPT !.estado = decision, !.origen = "magic_link",
              !.fechaAceptacion = @ \/ decision = "aceptada",
              !.fechaRechazo = @ \/ decision = "rechazada"]

\* The $set and $unset of an answer: only its own date is touched.
Respondido(d, decision) ==
    [d EXCEPT !.estado = decision, !.origen = "magic_link", !.actor = FALSE,
              !.fechaAceptacion = @ \/ decision = "aceptada",
              !.fechaRechazo = @ \/ decision = "rechazada"]

\* When nothing matches, the document is read again to word the error.
ResponderEscribe(p) ==
    /\ En(p, "responder")
    /\ LET r == pet[p] IN
        \/ \E c \in Respondibles(r) :
            /\ Guardar(c, Respondido(cot[c], r.decision))
            /\ Seguir(p, [pc |-> "avisar", cot |-> c])
        \/ Respondibles(r) = {} /\ Seguir(p, Libre) /\ UNCHANGED cot
    /\ UNCHANGED <<now, emitidos, entregado, saldo>>

\* notifyRespuestaMagicLink makes one attempt; its failure is only logged.
Avisar(p) ==
    /\ En(p, "avisar")
    /\ saldo' = [saldo EXCEPT ![pet[p].cot] = @ - 1]
    /\ Seguir(p, Libre)
    /\ UNCHANGED <<now, cot, emitidos, entregado>>

-----------------------------------------------------------------------------
(* The sweep: markExpiredQuotations, by the daily cron or over HTTP *)

\* Faulty variant: the sweep compares with the start of the day before.
BarrerIniciaAyer(p) ==
    /\ En(p, "libre")
    /\ Seguir(p, [pc |-> "barrer", hora |-> now - 1, faltan |-> Cots])
    /\ UNCHANGED <<now, cot, emitidos, entregado, saldo>>

BarrerInicia(p) ==
    /\ En(p, "libre")
    /\ Seguir(p, [pc |-> "barrer", hora |-> now, faltan |-> Cots])
    /\ UNCHANGED <<now, cot, emitidos, entregado, saldo>>

\* Faulty variant: the state is not part of the filter.
BarrerVisitaSinEstado(p, c) ==
    /\ En(p, "barrer") /\ c \in pet[p].faltan
    /\ IF Vencido(cot[c], pet[p].hora)
       THEN Guardar(c, [cot[c] EXCEPT !.estado = "vencida", !.origen = "cron",
                                      !.actor = FALSE])
       ELSE UNCHANGED cot
    /\ Seguir(p, IF pet[p].faltan = {c} THEN Libre
                 ELSE [pet[p] EXCEPT !.faltan = @ \ {c}])
    /\ UNCHANGED <<now, emitidos, entregado, saldo>>

\* updateMany visits the documents one by one and is atomic on each.
BarrerVisita(p, c) ==
    /\ En(p, "barrer") /\ c \in pet[p].faltan
    /\ IF cot[c].estado = "vigente" /\ Vencido(cot[c], pet[p].hora)
       THEN Guardar(c, [cot[c] EXCEPT !.estado = "vencida", !.origen = "cron",
                                      !.actor = FALSE])
       ELSE UNCHANGED cot
    /\ Seguir(p, IF pet[p].faltan = {c} THEN Libre
                 ELSE [pet[p] EXCEPT !.faltan = @ \ {c}])
    /\ UNCHANGED <<now, emitidos, entregado, saldo>>

-----------------------------------------------------------------------------
(* Emailing the quotation *)

\* resolveMagicExpiresAt: until when the link of document d is good, 0 when the
\* document has no date to tell.
MagicVence(d) == IF d.sinVigencia THEN d.creacion + PlazoAbierto ELSE d.vence

\* enviarCorreoConPdf reads the quotation, in whatever state, and computes the
\* end of the link; without one it throws.
EnviarLee(p, c) ==
    /\ En(p, "libre") /\ Existe(c)
    /\ MagicVence(cot[c]) # 0
    /\ Seguir(p, [pc |-> "emitir", cot |-> c, vence |-> MagicVence(cot[c])])
    /\ UNCHANGED <<now, cot, emitidos, entregado, saldo>>

\* issueMagicToken replaces the token, if there is one, before the email goes.
EmitirToken(p) ==
    /\ En(p, "emitir") /\ emitidos < MaxEnvios
    /\ LET r == pet[p] IN
        /\ Guardar(r.cot, [cot[r.cot] EXCEPT !.token = emitidos + 1,
                                             !.tokenVence = r.vence])
        /\ Seguir(p, [pc |-> "enviar", cot |-> r.cot, token |-> emitidos + 1,
                      vence |-> r.vence])
    /\ emitidos' = emitidos + 1
    /\ UNCHANGED <<now, entregado, saldo>>

\* SMTP takes the email.
SmtpAcepta(p) ==
    /\ En(p, "enviar")
    /\ entregado' = [c \in Cots |->
                        IF c = pet[p].cot /\ c \in Observadas
                        THEN [token |-> pet[p].token, vence |-> pet[p].vence]
                        ELSE entregado[c]]
    /\ Seguir(p, Libre)
    /\ UNCHANGED <<now, cot, emitidos, saldo>>

\* SMTP, or the credentials, fail.
SmtpFalla(p) ==
    /\ En(p, "enviar")
    /\ Seguir(p, [pet[p] EXCEPT !.pc = "limpiar"])
    /\ UNCHANGED <<now, cot, emitidos, entregado, saldo>>

\* The $unset that follows a failure does not look at which token is stored.
Limpiar(p) ==
    /\ En(p, "limpiar")
    /\ LET c == pet[p].cot IN Guardar(c, [cot[c] EXCEPT !.token = 0, !.tokenVence = 0])
    /\ Seguir(p, Libre)
    /\ UNCHANGED <<now, emitidos, entregado, saldo>>

-----------------------------------------------------------------------------
\* The database fails or the process stops: the request ends where it was.
Abortar(p) ==
    /\ ~En(p, "libre")
    /\ Seguir(p, Libre)
    /\ UNCHANGED <<now, cot, emitidos, entregado, saldo>>

Tic ==
    /\ now < MaxTiempo
    /\ now' = now + 1
    /\ UNCHANGED <<cot, pet, emitidos, entregado, saldo>>

Next ==
    \/ \E c \in Cots : Crear(c)
    \/ \E p \in Peticiones, c \in Cots :
        CambiarLee(p, c) \/ UpdateLee(p, c) \/ ResponderLee(p, c) \/ EnviarLee(p, c)
    \/ \E p \in Peticiones :
        \/ UpdateRelee(p) \/ CambiarFecha(p) \/ CambiarEscribe(p) \/ UpdateEscribe(p)
        \/ ResponderEscribe(p) \/ Avisar(p)
        \/ EmitirToken(p) \/ SmtpAcepta(p) \/ SmtpFalla(p) \/ Limpiar(p)
    \/ \E p \in Procesos : BarrerInicia(p) \/ Abortar(p)
    \/ \E p \in Procesos, c \in Cots : BarrerVisita(p, c)
    \/ Tic

Spec == Init /\ [][Next]_vars

\* The scheduler starts the sweep again and again, and a sweep that is
\* interrupted now and then gets through to each document in the end.
\* Nothing else is promised: users and customers may stop at any point.
EquidadCron ==
    \A p \in Crons :
        /\ WF_vars(BarrerInicia(p))
        /\ \A c \in Cots : SF_vars(BarrerVisita(p, c))

SpecJusta == Spec /\ EquidadCron

-----------------------------------------------------------------------------
\* The dates of acceptance and of rejection agree with the state at all times,
\* although an answer touches only its own date and relies on every way back
\* to vigente having cleared both (cambiarEstadoManual, responderByMagicToken).
RespuestaCoherente ==
    \A c \in Cots :
        /\ cot[c].fechaAceptacion <=> cot[c].estado = "aceptada"
        /\ cot[c].fechaRechazo <=> cot[c].estado = "rechazada"

\* The provenance shown beside a state is that of the change that led to it:
\* a user is named exactly when a user made it, and the sweep and the customer
\* own only the states they can reach.
ProcedenciaCoherente ==
    \A c \in Cots :
        /\ cot[c].actor <=> cot[c].origen = "usuario"
        /\ cot[c].origen = "cron" => cot[c].estado = "vencida"
        /\ cot[c].origen = "magic_link" => cot[c].estado \in Decisiones
        /\ cot[c].origen = "ninguno" => cot[c].estado \in {"ausente", "vigente"}
        /\ cot[c].estado = "ausente" => cot[c].origen = "ninguno"

\* The requests, interleaved in any way, keep the promises of CicloCotizacion:
\* customers and sweep act on open quotations only, and whatever leaves another
\* state is the act of a user.
CicloCumplido == Ciclo!Spec

\* The internal notification of an answer goes out at most once for each time
\* the quotation was open, however many tabs or double clicks answer it.
AvisoPorApertura == \A c \in Cots : saldo[c] >= 0

\* An answer is recorded only through the token stored at that moment and
\* within the deadline stored at that moment, even if the quotation was emailed
\* again or update shortened its date after the request read it; and the sweep
\* expires nothing that was extended while it ran.
PlazoRespetado ==
    [][\A c \in Cots : cot'[c].estado # cot[c].estado =>
        /\ cot'[c].origen = "magic_link" =>
            \E p \in Peticiones :
                /\ En(p, "responder") /\ pet[p].token = cot[c].token
                /\ ~Vencido(cot[c], pet[p].hora)
        /\ cot'[c].origen = "cron" => Vencido(cot[c], now)]_vars

\* An overdue open quotation does not stay so: the sweep, or somebody, deals
\* with it.
VencidasSeMarcan ==
    \A c \in Cots :
        (cot[c].estado = "vigente" /\ Vencido(cot[c], now))
            ~> ~(cot[c].estado = "vigente" /\ Vencido(cot[c], now))

\* What the requests carry over their awaits: a quotation update has read is
\* still there, a manual change under way is a change, and the time a sweep
\* took is not in the future.
LocalesValidos ==
    \A p \in Procesos :
        /\ En(p, "leer") => Existe(pet[p].cot)
        /\ pet[p].pc \in {"fechar", "cambiar"} => pet[p].leido # pet[p].destino
        /\ En(p, "barrer") => pet[p].hora <= now

\* The inductive invariant of CotizacionProofs.
IndInv ==
    /\ TypeOK
    /\ LocalesValidos
    /\ RespuestaCoherente
    /\ ProcedenciaCoherente

-----------------------------------------------------------------------------
(* Statements of the repository that the code does not keep *)

\* cotizacion.schema.ts: fechaVencimiento is absent or null when sinVigencia.
SinVigenciaSinFecha == \A c \in Cots : cot[c].sinVigencia => cot[c].vence = 0

\* The email of a quotation says that its link is valid until the date it
\* shows: until then, and while no other email of the quotation is on its way,
\* the last link delivered is the one that opens it.
EnlaceVivo ==
    \A c \in Cots :
        (/\ entregado[c].token # 0 /\ now <= entregado[c].vence
         /\ \A p \in Peticiones :
                pet[p].pc \in {"enviar", "limpiar"} => pet[p].cot # c)
        => cot[c].token = entregado[c].token

\* "El enlace ha expirado (vigencia superada)": when the stored link is
\* refused for its age, the open quotation behind it is overdue.
EnlaceSigueVigencia ==
    \A c \in Cots :
        (cot[c].estado = "vigente" /\ cot[c].token # 0 /\ cot[c].tokenVence < now
            /\ ~cot[c].sinVigencia)
        => Vencido(cot[c], now)
=============================================================================
