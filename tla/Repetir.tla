------------------------------- MODULE Repetir -------------------------------
(***************************************************************************)
(* Repeating a quotation (repetirCotizacion): the lines of the original    *)
(* are resolved against the catalogue, a copy is saved, and then, one      *)
(* after the other and whatever happens to each, the reminder of the       *)
(* original is cancelled, that of the copy is armed and the original is    *)
(* cancelled.                                                              *)
(*                                                                         *)
(* It composes what Cotizacion and Recordatorio promise: meanwhile others  *)
(* take steps of CicloCotizacion with the quotations, and program, remove, *)
(* fire and close reminders in one step each (Recordatorio has them by     *)
(* round trips).  The folio is that of Counters.  Customers, dates and     *)
(* templates, which are copied as they are, are left out.                  *)
(***************************************************************************)
EXTENDS Naturals, Sequences

CONSTANTS
    Cots,           \* quotations
    Original,       \* the one that is repeated
    Servicios,
    ServicioDe,     \* its lines: the service of each, in order
    Catalogos,      \* catalogues to start from
    Cuerpos,        \* bodies of requests (RepetirCotizacionDto)
    Peticiones,     \* requests; each one is made once
    Tocadas,        \* bound: the quotations that others touch meanwhile
    MaxAjenos,      \* bound: how often they do
    Nada

\* sust: what the body replaces each service by; rearmar: "no", with the recipe of
\* the original's reminder, or with one in the body.
Cuerpo == [modo : {"originales", "actualizados"}, omitir : SUBSET Servicios,
           sust : [Servicios -> Servicios \cup {Nada}],
           cancelar : BOOLEAN, rearmar : {"no", "copia", "receta"}]

ASSUME ConstantsAssumption ==
    /\ Original \in Cots /\ Nada \notin Cots /\ Nada \notin Servicios
    /\ ServicioDe \in Seq(Servicios)
    /\ Catalogos \subseteq [Servicios -> {"activo", "inactivo", "ajeno"}]
    /\ Cuerpos \subseteq Cuerpo
    /\ Tocadas \subseteq Cots /\ MaxAjenos \in Nat
    /\ \A d \in Cuerpos, s \in Servicios : d.sust[s] = Nada \/ s \notin d.omitir

Lineas == DOMAIN ServicioDe

VARIABLES
    estado, origen,     \* of each quotation, as in CicloCotizacion
    items,              \* items[c]: the item of each line, of a copy
    rec,                \* the reminder of each quotation
    servicio,           \* servicio[s]: "activo", "inactivo" or "ajeno"
    pet,                \* pet[p]: progress and locals of a request
    copia,              \* copia[p]: the quotation a request knows to have saved
    respuesta,          \* respuesta[p]: originalCancelada of a success
    ajenos,             \* steps others have taken
    hubo,               \* history: requests that go on, or answered so, since whose
                        \* save the original has been cancelled
    mudas,              \* history: requests that could not cancel the reminder
    rearmadas           \* history: the original's reminder was armed by a user since a
                        \* repetition cancelled it

vars == <<estado, origen, items, rec, servicio, pet, copia, respuesta, ajenos, hubo, mudas,
          rearmadas>>

Ciclo == INSTANCE CicloCotizacion

Item == [servicio : Servicios, precio : {"original", "catalogo"}]

Recordatorio == [estado : {"ausente", "programado", "disparado", "cancelado", "cerrado"},
                 avisado : BOOLEAN]

\* linea: the next line to resolve; aviso: some line has a warning; antes: the state
\* cambiarEstadoManual read.
PasosAntes == {"lineas", "receta", "guarda"}
PasosDespues == {"relee", "aviso", "rearma", "lee", "cambiaLee", "cambiaEscribe", "confirma"}
Pasos == PasosAntes \cup PasosDespues

Peticion ==
    [pc : {"libre", "hecha"}]
    \cup [pc : Pasos, cuerpo : Cuerpos, linea : Nat, aviso : BOOLEAN,
          items : [Lineas -> Item \cup {Nada}], antes : Ciclo!Estados \cup {Nada}]

TypeOK ==
    /\ estado \in [Cots -> Ciclo!Estados \cup {"ausente"}]
    /\ origen \in [Cots -> {"ninguno", "usuario", "magic_link", "cron"}]
    /\ items \in [Cots -> [Lineas -> Item \cup {Nada}]]
    /\ rec \in [Cots -> Recordatorio]
    /\ servicio \in [Servicios -> {"activo", "inactivo", "ajeno"}]
    /\ pet \in [Peticiones -> Peticion]
    /\ copia \in [Peticiones -> Cots \cup {Nada}]
    /\ respuesta \in [Peticiones -> {"ninguna", "si", "no"}]
    /\ ajenos \in Nat
    /\ hubo \subseteq Peticiones /\ mudas \subseteq Peticiones
    /\ rearmadas \in BOOLEAN

SinItems == [l \in Lineas |-> Nada]
SinRecordatorio == [estado |-> "ausente", avisado |-> FALSE]

\* A quotation that is open or was decided, with its reminder, or without.
Init ==
    /\ \E e \in {"vigente", "aceptada"} :
        /\ estado = [c \in Cots |-> IF c = Original THEN e ELSE "ausente"]
        /\ origen = [c \in Cots |-> IF c = Original /\ e = "aceptada" THEN "magic_link"
                                    ELSE "ninguno"]
    /\ items = [c \in Cots |-> IF c = Original
                  THEN [l \in Lineas |-> [servicio |-> ServicioDe[l], precio |-> "original"]]
                  ELSE SinItems]
    /\ \E r \in {"ausente", "programado"} :
        rec = [c \in Cots |-> [SinRecordatorio EXCEPT !.estado = IF c = Original THEN r ELSE @]]
    /\ servicio \in Catalogos
    /\ pet = [p \in Peticiones |-> [pc |-> "libre"]]
    /\ copia = [p \in Peticiones |-> Nada]
    /\ respuesta = [p \in Peticiones |-> "ninguna"]
    /\ ajenos = 0 /\ hubo = {} /\ mudas = {} /\ rearmadas = FALSE

documentos == <<estado, origen, items, copia>>
historia == <<mudas, rearmadas>>

Avanza(p, pc) == pet' = [pet EXCEPT ![p].pc = pc]

Responde(p, r) ==
    /\ pet' = [pet EXCEPT ![p] = [pc |-> "hecha"]]
    /\ respuesta' = [respuesta EXCEPT ![p] = r]

\* An error, or no response
Termina(p) ==
    /\ pet' = [pet EXCEPT ![p] = [pc |-> "hecha"]]
    /\ UNCHANGED respuesta

-----------------------------------------------------------------------------
(* Up to the copy *)

\* The findOne of the original, which may be in any state
Pedir(p, d) ==
    /\ pet[p].pc = "libre"
    /\ pet' = [pet EXCEPT ![p] =
        [pc |-> IF d.rearmar = "copia" THEN "receta" ELSE "lineas", cuerpo |-> d,
         linea |-> 1, aviso |-> FALSE, items |-> SinItems, antes |-> Nada]]
    /\ UNCHANGED <<documentos, rec, servicio, respuesta, historia>>

\* resolveRecetaRearme: the recipe is that of the original's reminder, if it has
\* one.  One with an exact date is refused (Falla).
LeeReceta(p) ==
    /\ pet[p].pc = "receta"
    /\ IF rec[Original].estado # "ausente"
       THEN Avanza(p, "lineas") /\ UNCHANGED respuesta
       ELSE Termina(p)
    /\ UNCHANGED <<documentos, rec, servicio, historia>>

\* What becomes of a line: an item, no item, a warning or an error
De(l, d) == LET s == ServicioDe[l] IN IF d.sust[s] # Nada THEN d.sust[s] ELSE s

Omitida(l, d) == ServicioDe[l] \in d.omitir
Sustituida(l, d) == d.sust[ServicioDe[l]] # Nada

Resuelta(l, d) ==
    /\ servicio[De(l, d)] # "ajeno"
    /\ Sustituida(l, d) \/ d.modo = "actualizados" => servicio[De(l, d)] = "activo"

ItemDe(l, d) ==
    [servicio |-> De(l, d),
     precio |-> IF Sustituida(l, d) \/ d.modo = "actualizados" THEN "catalogo" ELSE "original"]

\* buildRepetirItems: one line after the other, each with its read of the service
ResuelveLinea(p) ==
    /\ pet[p].pc = "lineas" /\ pet[p].linea \in Lineas
    /\ LET d == pet[p].cuerpo
           l == pet[p].linea
           sigue == [pet[p] EXCEPT !.linea = l + 1] IN
        pet' = [pet EXCEPT ![p] =
            CASE Omitida(l, d) -> sigue
              [] ~Omitida(l, d) /\ Resuelta(l, d) -> [sigue EXCEPT !.items[l] = ItemDe(l, d)]
              [] ~Omitida(l, d) /\ ~Resuelta(l, d) ->
                    IF Sustituida(l, d) THEN [pc |-> "hecha"] ELSE [sigue EXCEPT !.aviso = TRUE]]
    /\ UNCHANGED <<documentos, rec, servicio, respuesta, historia>>

\* Any warning, or no item, is an error.
Valida(p) ==
    /\ pet[p].pc = "lineas" /\ pet[p].linea \notin Lineas
    /\ IF pet[p].aviso \/ pet[p].items = SinItems THEN Termina(p)
       ELSE Avanza(p, "guarda") /\ UNCHANGED respuesta
    /\ UNCHANGED <<documentos, rec, servicio, historia>>

\* The folio, the dates, the recipe of the reminder, and the save.  The save may be
\* applied and its answer lost: the request ends in an error and the copy stays.
Guarda(p) ==
    /\ pet[p].pc = "guarda"
    /\ \E c \in Cots :
        /\ Ciclo!Nacer(c)
        /\ items' = [items EXCEPT ![c] = pet[p].items]
        /\ \/ /\ copia' = [copia EXCEPT ![p] = c]
              /\ Avanza(p, "relee") /\ UNCHANGED respuesta
           \/ Termina(p) /\ UNCHANGED copia
    /\ UNCHANGED <<rec, servicio, historia>>

\* previewRepetirCotizacion ends before the copy.  Anything that fails before the
\* reminder is cancelled is an error, and so is a process that ends: what was done
\* stays.
Falla(p) ==
    /\ pet[p].pc \in Pasos
    /\ Termina(p)
    /\ mudas' = mudas \cup {q \in {p} : pet[p].pc \in {"relee", "aviso"}}
    /\ UNCHANGED <<documentos, rec, servicio, rearmadas>>

\* findOne of the copy, for the response
Relee(p) ==
    /\ pet[p].pc = "relee"
    /\ Avanza(p, "aviso")
    /\ UNCHANGED <<documentos, rec, servicio, respuesta, historia>>

-----------------------------------------------------------------------------
(* After the copy: every failure is logged or part of the response *)

TrasAviso(d) == IF d.rearmar # "no" THEN "rearma" ELSE "lee"

\* Faulty variant: the reminder of the copy is the one that is cancelled.
CancelaAvisoDeCopia(p) ==
    /\ pet[p].pc = "aviso"
    /\ rec' = IF rec[copia[p]].estado \in {"programado", "disparado"}
              THEN [rec EXCEPT ![copia[p]].estado = "cancelado"] ELSE rec
    /\ Avanza(p, TrasAviso(pet[p].cuerpo))
    /\ UNCHANGED <<documentos, servicio, respuesta, historia>>

\* cancelarPorRepetir: what is programmed or fired becomes cancelled.  An error
\* is logged, and the original's reminder may stay.
CancelaAviso(p) ==
    /\ pet[p].pc = "aviso"
    /\ \/ /\ rec' = IF rec[Original].estado \in {"programado", "disparado"}
                    THEN [rec EXCEPT ![Original].estado = "cancelado"] ELSE rec
          /\ rearmadas' = FALSE
          /\ UNCHANGED mudas
       \/ mudas' = mudas \cup {p} /\ UNCHANGED <<rec, rearmadas>>
    /\ Avanza(p, TrasAviso(pet[p].cuerpo))
    /\ UNCHANGED <<documentos, servicio, respuesta>>

\* What upsert programs from
Programable(c) == ~rec[c].avisado /\ rec[c].estado \in {"ausente", "programado", "cancelado"}

Programado(c) == [rec EXCEPT ![c].estado = "programado"]

\* programarEnCotizacionNueva, or an error that is logged
Rearma(p) ==
    /\ pet[p].pc = "rearma"
    /\ \/ /\ Programable(copia[p])
          /\ rec' = Programado(copia[p])
       \/ UNCHANGED rec
    /\ Avanza(p, "lee")
    /\ UNCHANGED <<documentos, servicio, respuesta, historia>>

\* The original is read again, if it is to be cancelled.
LeeOriginal(p) ==
    /\ pet[p].pc = "lee"
    /\ CASE ~pet[p].cuerpo.cancelar -> Responde(p, "no")
         [] pet[p].cuerpo.cancelar /\ estado[Original] = "cancelada" -> Responde(p, "si")
         [] OTHER -> Avanza(p, "cambiaLee") /\ UNCHANGED respuesta
    /\ UNCHANGED <<documentos, rec, servicio, historia>>

\* cambiarEstadoManual: the state is read once more,
CambiaLee(p) ==
    /\ pet[p].pc = "cambiaLee"
    /\ IF estado[Original] = "cancelada" THEN Avanza(p, "confirma")
       ELSE pet' = [pet EXCEPT ![p].pc = "cambiaEscribe", ![p].antes = estado[Original]]
    /\ UNCHANGED <<documentos, rec, servicio, respuesta, historia>>

\* and is what the write asks for.  The write may be applied and its answer lost.
CambiaEscribe(p) ==
    /\ pet[p].pc = "cambiaEscribe"
    /\ \/ /\ estado[Original] = pet[p].antes
          /\ Ciclo!Mover(Original, "cancelada", "usuario")
          /\ Responde(p, "si") \/ (Avanza(p, "confirma") /\ UNCHANGED respuesta)
       \/ /\ Avanza(p, "confirma")
          /\ UNCHANGED <<estado, origen, respuesta>>
    /\ UNCHANGED <<items, copia, rec, servicio, historia>>

\* Faulty variant: whatever went wrong, the original is said to be cancelled.
ConfirmaSiempre(p) ==
    /\ pet[p].pc = "confirma"
    /\ Responde(p, "si")
    /\ UNCHANGED <<documentos, rec, servicio, historia>>

\* The catch: another request may have cancelled it.
Confirma(p) ==
    /\ pet[p].pc = "confirma"
    /\ \/ Responde(p, IF estado[Original] = "cancelada" THEN "si" ELSE "no")
       \/ Responde(p, "no")
    /\ UNCHANGED <<documentos, rec, servicio, historia>>

\* An error of a read goes to the catch.
FallaCambio(p) ==
    /\ pet[p].pc \in {"lee", "cambiaLee"}
    /\ pet[p].cuerpo.cancelar
    /\ Avanza(p, "confirma")
    /\ UNCHANGED <<documentos, rec, servicio, respuesta, historia>>

-----------------------------------------------------------------------------
(* What others do *)

OtroCiclo(c) ==
    /\ Ciclo!Responder(c) \/ Ciclo!Expirar(c) \/ Ciclo!CambiarManual(c)
    /\ UNCHANGED <<items, copia, rec, servicio, pet, respuesta, historia>>

\* Reminders are programmed and removed by users, fired by the sweep and closed.
OtroRecordatorio(c) ==
    /\ estado[c] # "ausente"
    /\ \/ /\ Programable(c)
          /\ rec' = Programado(c)
          /\ rearmadas' = (rearmadas \/ c = Original)
       \/ /\ rec[c].estado = "programado"
          /\ \/ rec' = [rec EXCEPT ![c].estado = "cancelado"]
             \/ rec' = [rec EXCEPT ![c].estado = "disparado", ![c].avisado = TRUE]
          /\ UNCHANGED rearmadas
       \/ /\ rec[c].estado = "disparado"
          /\ rec' = [rec EXCEPT ![c].estado = "cerrado"]
          /\ UNCHANGED rearmadas
    /\ UNCHANGED <<documentos, servicio, pet, respuesta, mudas>>

\* A service is switched on or off.
OtroCatalogo(s) ==
    /\ servicio[s] # "ajeno"
    /\ servicio' = [servicio EXCEPT ![s] = IF @ = "activo" THEN "inactivo" ELSE "activo"]
    /\ UNCHANGED <<documentos, rec, pet, respuesta, historia>>

PasoPropio ==
    \E p \in Peticiones :
        \/ \E d \in Cuerpos : Pedir(p, d)
        \/ LeeReceta(p) \/ Valida(p) \/ Guarda(p) \/ Falla(p) \/ Relee(p)
        \/ ResuelveLinea(p) \/ CancelaAviso(p) \/ Rearma(p) \/ LeeOriginal(p)
        \/ CambiaLee(p) \/ CambiaEscribe(p) \/ Confirma(p) \/ FallaCambio(p)

PasoAjeno ==
    /\ ajenos < MaxAjenos
    /\ \/ \E c \in Tocadas : OtroCiclo(c) \/ OtroRecordatorio(c)
       \/ \E s \in Servicios : OtroCatalogo(s)

\* Whether the original is cancelled is followed for the requests that have a copy.
Next ==
    /\ \/ PasoPropio /\ UNCHANGED ajenos
       \/ PasoAjeno /\ ajenos' = ajenos + 1
    /\ hubo' = {p \in Peticiones :
        /\ pet'[p].pc \in PasosDespues \/ respuesta'[p] = "si"
        /\ p \in hubo \/ (pet[p].pc \in PasosDespues /\ estado'[Original] = "cancelada")}

Spec == Init /\ [][Next]_vars

-----------------------------------------------------------------------------
(* Properties *)

\* A response that says that the original is cancelled is true: the original was
\* cancelled after the copy was made, by this request or by another
\* (cotizaciones.service.ts:1175).
RespuestaVeraz == \A p \in Peticiones : respuesta[p] = "si" => p \in hubo

\* A copy has an item for every line that the body did not leave out, of the
\* service and at the price that the body asked for, although the catalogue
\* changes while it is made.
CopiaFiel ==
    \A p \in Peticiones : pet[p].pc \in PasosDespues =>
        \A l \in Lineas : LET d == pet[p].cuerpo IN
            items[copia[p]][l] = IF Omitida(l, d) THEN Nada ELSE ItemDe(l, d)

\* The team is not reminded of an original that was repeated: its reminder does not
\* wait any more, unless it could not be cancelled, the request did not get there
\* or a user armed it again (cotizaciones.service.ts:1142).
OrigenCallado ==
    \A p \in Peticiones \ mudas :
        copia[p] # Nada /\ pet[p].pc \notin {"relee", "aviso"} /\ ~rearmadas
            => rec[Original].estado # "programado"
=============================================================================
