-------------------------- MODULE CotizacionProofs --------------------------
(* Theorems about Cotizacion, for any number of quotations, requests and   *)
(* sweeps, and any dates.                                                  *)
EXTENDS CotizacionCruces, FiniteSetTheorems, TLAPS

(* What the operators on documents and requests return. *)

\* A manual change stores a document of the schema.
LEMMA MarcadoTipo ==
    ASSUME NEW d \in Documento, NEW destino \in Estados, NEW fecha \in Nat
    PROVE  Marcado(d, destino, fecha) \in Documento
BY DEF Marcado, Documento, Estados

\* An answer stores a document of the schema.
LEMMA RespondidoTipo ==
    ASSUME NEW d \in Documento, NEW decision \in Decisiones
    PROVE  Respondido(d, decision) \in Documento
BY DEF Respondido, Documento, Estados, Decisiones

\* Issuing a token, or removing it, stores a document of the schema.
LEMMA ConTokenTipo ==
    ASSUME NEW d \in Documento, NEW t \in Nat, NEW v \in Nat
    PROVE  [d EXCEPT !.token = t, !.tokenVence = v] \in Documento
BY DEF Documento

\* What cambiarEstadoManual keeps after its read.
LEMMA CambioTipo ==
    ASSUME TypeOK, NEW c \in Cots, Existe(c), NEW destino \in Estados,
           NEW fecha \in Nat, NEW resto \in Nat
    PROVE  Cambio(c, destino, fecha, resto) \in Peticion
<1>1. cot[c].estado \in Estados
    BY DEF TypeOK, Documento, Existe
<1>2. CASE cot[c].estado = destino
    BY <1>2 DEF Cambio, Libre, Peticion
<1>3. CASE cot[c].estado # destino
  <2>1. Cambio(c, destino, fecha, resto)
          \in [pc : {"fechar", "cambiar"}, cot : Cots, leido : Estados,
               destino : Estados, fecha : Nat, resto : Nat]
        BY <1>1, <1>3 DEF Cambio
  <2> QED
        BY <2>1 DEF Peticion
<1> QED
    BY <1>2, <1>3

\* The locals of a request, from the await it is at.
LEMMA PeticionLocales ==
    ASSUME NEW r \in Peticion
    PROVE  /\ r.pc \in {"leer", "fechar", "cambiar", "restar", "avisar", "emitir",
                        "enviar", "limpiar"} => r.cot \in Cots
           /\ r.pc \in {"leer", "fechar", "cambiar"} =>
                r.destino \in Estados /\ r.fecha \in Nat
           /\ r.pc \in {"fechar", "cambiar"} => r.leido \in Estados
           /\ r.pc \in {"fechar", "cambiar", "restar"} => r.resto \in Nat
           /\ r.pc = "responder" =>
                r.token \in Nat /\ r.decision \in Decisiones /\ r.hora \in Nat
           /\ r.pc = "barrer" => r.hora \in Nat /\ r.faltan \in SUBSET Cots
           /\ r.pc \in {"emitir", "enviar", "limpiar"} => r.vence \in Nat
           /\ r.pc \in {"enviar", "limpiar"} => r.token \in Nat
BY DEF Peticion

\* A request that moves on keeps the types of the others.
LEMMA SeguirTipo ==
    ASSUME TypeOK, NEW p \in Procesos, NEW r \in Peticion, Seguir(p, r)
    PROVE  pet' \in [Procesos -> Peticion]
BY DEF TypeOK, Seguir

\* A write to one document keeps the types of the others.
LEMMA GuardarTipo ==
    ASSUME TypeOK, NEW c \in Cots, NEW d \in Documento, Guardar(c, d)
    PROVE  cot' \in [Cots -> Documento]
BY DEF TypeOK, Guardar

\* A request that has ended.
LEMMA LibreTipo == Libre \in Peticion
BY DEF Libre, Peticion

(* Types *)

\* The initial database and the requests of the start are well typed.
LEMMA InitTypeOK == Init => TypeOK
BY LibreTipo DEF Init, TypeOK, Documento, Estados

\* Every round trip stores documents of the schema and keeps its locals typed.
LEMMA NextTypeOK == TypeOK /\ LocalesValidos /\ [Next]_vars => TypeOK'
<1> SUFFICES ASSUME TypeOK, LocalesValidos, [Next]_vars PROVE TypeOK'
    OBVIOUS
<1>0. \A p \in Procesos : pet[p] \in Peticion
    BY DEF TypeOK
<1>1. ASSUME NEW c \in Cots, Crear(c) PROVE TypeOK'
  <2>1. PICK sin \in BOOLEAN, v \in {0} \cup Fechas \cup {now + Vigencia} :
            Guardar(c, [cot[c] EXCEPT !.estado = "vigente", !.creacion = now,
                                      !.sinVigencia = sin, !.vence = v])
        BY <1>1 DEF Crear, VencimientoInicial
  <2>2. v \in Nat /\ now \in Nat /\ cot[c] \in Documento
        BY FechasAssumption, PlazosAssumption DEF TypeOK
  <2>3. [cot[c] EXCEPT !.estado = "vigente", !.creacion = now,
                       !.sinVigencia = sin, !.vence = v] \in Documento
        BY <2>2 DEF Documento, Estados
  <2>4. cot' \in [Cots -> Documento]
        BY <2>1, <2>3, GuardarTipo
  <2>5. saldo' \in [Cots -> Int]
        BY <1>1 DEF Crear, TypeOK
  <2>6. UNCHANGED <<now, pet, emitidos, entregado>>
        BY <1>1 DEF Crear
  <2> QED
        BY <2>4, <2>5, <2>6 DEF TypeOK
<1>2. ASSUME NEW p \in Peticiones, NEW c \in Cots, CambiarLee(p, c) PROVE TypeOK'
  <2>1. PICK d \in Estados, f \in Fechas \cup {0} : Seguir(p, Cambio(c, d, f, 0))
        BY <1>2 DEF CambiarLee
  <2>2. Cambio(c, d, f, 0) \in Peticion
        BY <1>2, CambioTipo, FechasAssumption DEF CambiarLee
  <2>3. pet' \in [Procesos -> Peticion]
        BY <2>1, <2>2, SeguirTipo DEF Procesos
  <2> QED
        BY <1>2, <2>3 DEF CambiarLee, TypeOK
<1>3. ASSUME NEW p \in Peticiones, NEW c \in Cots, UpdateLee(p, c) PROVE TypeOK'
  <2>1. PICK r : /\ Seguir(p, r)
                 /\ \/ \E d \in Estados, f \in Nat :
                         r = [pc |-> "leer", cot |-> c, destino |-> d, fecha |-> f]
                    \/ \E f \in Nat : r = [pc |-> "restar", cot |-> c, resto |-> f]
        BY <1>3, FechasAssumption DEF UpdateLee, Estados
  <2>2. r \in Peticion
        BY <2>1 DEF Peticion
  <2>3. pet' \in [Procesos -> Peticion]
        BY <2>1, <2>2, SeguirTipo DEF Procesos
  <2> QED
        BY <1>3, <2>3 DEF UpdateLee, TypeOK
<1>4. ASSUME NEW p \in Peticiones, NEW c \in Cots, ResponderLee(p, c) PROVE TypeOK'
  <2>1. PICK d \in Decisiones :
            Seguir(p, [pc |-> "responder", token |-> cot[c].token, decision |-> d,
                       hora |-> now])
        BY <1>4 DEF ResponderLee
  <2>2. [pc |-> "responder", token |-> cot[c].token, decision |-> d, hora |-> now]
          \in Peticion
        BY DEF Peticion, TypeOK, Documento
  <2>3. pet' \in [Procesos -> Peticion]
        BY <2>1, <2>2, SeguirTipo DEF Procesos
  <2> QED
        BY <1>4, <2>3 DEF ResponderLee, TypeOK
<1>5. ASSUME NEW p \in Peticiones, NEW c \in Cots, EnviarLee(p, c) PROVE TypeOK'
  <2>1. PICK v \in Nat : Seguir(p, [pc |-> "emitir", cot |-> c, vence |-> v])
        BY <1>5, PlazosAssumption DEF EnviarLee, MagicVence, TypeOK, Documento
  <2>2. [pc |-> "emitir", cot |-> c, vence |-> v] \in Peticion
        BY DEF Peticion
  <2>3. pet' \in [Procesos -> Peticion]
        BY <2>1, <2>2, SeguirTipo DEF Procesos
  <2> QED
        BY <1>5, <2>3 DEF EnviarLee, TypeOK
<1>6. ASSUME NEW p \in Peticiones, UpdateRelee(p) PROVE TypeOK'
  <2> DEFINE r == pet[p]
  <2>1. r \in Peticion /\ r.pc = "leer" /\ r.cot \in Cots
        /\ r.destino \in Estados /\ r.fecha \in Nat
        BY <1>0, <1>6, PeticionLocales DEF UpdateRelee, En, Procesos
  <2>2. PICK n \in Nat : Seguir(p, Cambio(r.cot, r.destino, r.fecha, n))
        BY <1>6, <2>1 DEF UpdateRelee
  <2>3. Cambio(r.cot, r.destino, r.fecha, n) \in Peticion
        BY <1>6, <2>1, CambioTipo DEF UpdateRelee, LocalesValidos, Procesos
  <2>4. pet' \in [Procesos -> Peticion]
        BY <2>2, <2>3, SeguirTipo DEF Procesos
  <2> QED
        BY <1>6, <2>4 DEF UpdateRelee, TypeOK
<1>7. ASSUME NEW p \in Peticiones, CambiarFecha(p) PROVE TypeOK'
  <2> DEFINE r == pet[p]
             v == IF r.fecha = 0 THEN now + Vigencia ELSE r.fecha
  <2>1. r.cot \in Cots /\ r.leido \in Estados /\ r.destino \in Estados
        /\ v \in Nat /\ r.resto \in Nat
        BY <1>0, <1>7, PeticionLocales, PlazosAssumption
        DEF CambiarFecha, En, Procesos, TypeOK
  <2>2. [r EXCEPT !.pc = "cambiar", !.fecha = v] \in Peticion
    <3>1. r \in [pc : {"fechar", "cambiar"}, cot : Cots, leido : Estados,
                 destino : Estados, fecha : Nat, resto : Nat]
          BY <1>0, <1>7 DEF CambiarFecha, En, Procesos, Peticion
    <3>2. [r EXCEPT !.pc = "cambiar", !.fecha = v]
            \in [pc : {"fechar", "cambiar"}, cot : Cots, leido : Estados,
                 destino : Estados, fecha : Nat, resto : Nat]
          BY <2>1, <3>1
    <3> QED
          BY <3>2 DEF Peticion
  <2>3. pet' \in [Procesos -> Peticion]
        BY <1>7, <2>2, LibreTipo, SeguirTipo DEF CambiarFecha, Procesos
  <2> QED
        BY <1>7, <2>3 DEF CambiarFecha, TypeOK
<1>8. ASSUME NEW p \in Peticiones, CambiarEscribe(p) PROVE TypeOK'
  <2> DEFINE r == pet[p]
  <2>1. /\ r.cot \in Cots /\ r.destino \in Estados /\ r.fecha \in Nat
        /\ r.resto \in Nat /\ cot[r.cot] \in Documento
        BY <1>0, <1>8, PeticionLocales DEF CambiarEscribe, En, Procesos, TypeOK
  <2>2. [pc |-> "restar", cot |-> r.cot, resto |-> r.resto] \in Peticion
        BY <2>1 DEF Peticion
  <2>3. pet' \in [Procesos -> Peticion]
        BY <1>8, <2>2, LibreTipo, SeguirTipo DEF CambiarEscribe, Procesos
  <2>4. cot' \in [Cots -> Documento]
        BY <1>8, <2>1, MarcadoTipo, GuardarTipo DEF CambiarEscribe, TypeOK
  <2>5. saldo' \in [Cots -> Int]
        BY <1>8, <2>1 DEF CambiarEscribe, TypeOK
  <2> QED
        BY <1>8, <2>3, <2>4, <2>5 DEF CambiarEscribe, TypeOK
<1>9. ASSUME NEW p \in Peticiones, UpdateEscribe(p) PROVE TypeOK'
  <2> DEFINE r == pet[p]
  <2>1. r.cot \in Cots /\ r.resto \in Nat /\ cot[r.cot] \in Documento
        BY <1>0, <1>9, PeticionLocales DEF UpdateEscribe, En, Procesos, TypeOK
  <2>2. [cot[r.cot] EXCEPT !.vence = r.resto] \in Documento
        BY <2>1 DEF Documento
  <2>3. cot' \in [Cots -> Documento]
        BY <1>9, <2>1, <2>2, GuardarTipo DEF UpdateEscribe
  <2>4. pet' \in [Procesos -> Peticion]
        BY <1>9, LibreTipo, SeguirTipo DEF UpdateEscribe, Procesos
  <2> QED
        BY <1>9, <2>3, <2>4 DEF UpdateEscribe, TypeOK
<1>10. ASSUME NEW p \in Peticiones, ResponderEscribe(p) PROVE TypeOK'
  <2> DEFINE r == pet[p]
  <2>1. r.decision \in Decisiones
        BY <1>0, <1>10, PeticionLocales DEF ResponderEscribe, En, Procesos
  <2>2. CASE Respondibles(r) = {} /\ Seguir(p, Libre) /\ UNCHANGED cot
        BY <1>10, <2>2, LibreTipo, SeguirTipo DEF ResponderEscribe, TypeOK, Procesos
  <2>3. ASSUME NEW c \in Respondibles(r), Guardar(c, Respondido(cot[c], r.decision)),
               Seguir(p, [pc |-> "avisar", cot |-> c])
        PROVE  TypeOK'
    <3>1. c \in Cots /\ cot[c] \in Documento
          BY DEF Respondibles, TypeOK
    <3>2. cot' \in [Cots -> Documento]
          BY <2>1, <2>3, <3>1, RespondidoTipo, GuardarTipo
    <3>3. [pc |-> "avisar", cot |-> c] \in Peticion
          BY <3>1 DEF Peticion
    <3>4. pet' \in [Procesos -> Peticion]
          BY <2>3, <3>3, SeguirTipo DEF Procesos
    <3> QED
          BY <1>10, <3>2, <3>4 DEF ResponderEscribe, TypeOK
  <2> QED
        BY <1>10, <2>2, <2>3 DEF ResponderEscribe
<1>11. ASSUME NEW p \in Peticiones, Avisar(p) PROVE TypeOK'
  <2>1. pet' \in [Procesos -> Peticion]
        BY <1>11, LibreTipo, SeguirTipo DEF Avisar, Procesos
  <2>2. pet[p].cot \in Cots
        BY <1>0, <1>11, PeticionLocales DEF Avisar, En, Procesos
  <2>3. saldo' \in [Cots -> Int]
        BY <1>11, <2>2 DEF Avisar, TypeOK
  <2> QED
        BY <1>11, <2>1, <2>3 DEF Avisar, TypeOK
<1>12. ASSUME NEW p \in Procesos, BarrerInicia(p) PROVE TypeOK'
  <2>1. [pc |-> "barrer", hora |-> now, faltan |-> Cots] \in Peticion
        BY DEF Peticion, TypeOK
  <2>2. pet' \in [Procesos -> Peticion]
        BY <1>12, <2>1, SeguirTipo DEF BarrerInicia
  <2> QED
        BY <1>12, <2>2 DEF BarrerInicia, TypeOK
<1>13. ASSUME NEW p \in Procesos, NEW c \in Cots, BarrerVisita(p, c) PROVE TypeOK'
  <2> DEFINE r == pet[p]
  <2>1. r \in [pc : {"barrer"}, hora : Nat, faltan : SUBSET Cots] /\ cot[c] \in Documento
        BY <1>0, <1>13 DEF BarrerVisita, En, Peticion, TypeOK
  <2>2. [r EXCEPT !.faltan = @ \ {c}] \in Peticion
        BY <2>1 DEF Peticion
  <2>3. pet' \in [Procesos -> Peticion]
        BY <1>13, <2>2, LibreTipo, SeguirTipo DEF BarrerVisita
  <2>4. [cot[c] EXCEPT !.estado = "vencida", !.origen = "cron", !.actor = FALSE]
          \in Documento
        BY <2>1 DEF Documento, Estados
  <2>5. cot' \in [Cots -> Documento]
        BY <1>13, <2>4, GuardarTipo DEF BarrerVisita, TypeOK
  <2> QED
        BY <1>13, <2>3, <2>5 DEF BarrerVisita, TypeOK
<1>14. ASSUME NEW p \in Peticiones, EmitirToken(p) PROVE TypeOK'
  <2> DEFINE r == pet[p]
  <2>1. r.cot \in Cots /\ r.vence \in Nat /\ cot[r.cot] \in Documento
        /\ emitidos \in Nat /\ emitidos + 1 \in Nat
        BY <1>0, <1>14, PeticionLocales DEF EmitirToken, En, Procesos, TypeOK
  <2>2. [cot[r.cot] EXCEPT !.token = emitidos + 1, !.tokenVence = r.vence] \in Documento
        BY <2>1, ConTokenTipo
  <2>3. [pc |-> "enviar", cot |-> r.cot, token |-> emitidos + 1, vence |-> r.vence]
          \in Peticion
        BY <2>1 DEF Peticion
  <2>4. cot' \in [Cots -> Documento]
        BY <1>14, <2>1, <2>2, GuardarTipo DEF EmitirToken
  <2>5. pet' \in [Procesos -> Peticion]
        BY <1>14, <2>3, SeguirTipo DEF EmitirToken, Procesos
  <2> QED
        BY <1>14, <2>1, <2>4, <2>5 DEF EmitirToken, TypeOK
<1>15. ASSUME NEW p \in Peticiones, SmtpAcepta(p) PROVE TypeOK'
  <2> DEFINE r == pet[p]
  <2>1. r.vence \in Nat /\ r.token \in Nat
        BY <1>0, <1>15, PeticionLocales DEF SmtpAcepta, En, Procesos
  <2>2. pet' \in [Procesos -> Peticion]
        BY <1>15, LibreTipo, SeguirTipo DEF SmtpAcepta, Procesos
  <2> QED
        BY <1>15, <2>1, <2>2 DEF SmtpAcepta, TypeOK
<1>16. ASSUME NEW p \in Peticiones, SmtpFalla(p) PROVE TypeOK'
  <2> DEFINE r == pet[p]
  <2>1. r \in [pc : {"enviar", "limpiar"}, cot : Cots, token : Nat, vence : Nat]
        BY <1>0, <1>16 DEF SmtpFalla, En, Procesos, Peticion
  <2>2. [r EXCEPT !.pc = "limpiar"] \in Peticion
        BY <2>1 DEF Peticion
  <2>3. pet' \in [Procesos -> Peticion]
        BY <1>16, <2>2, SeguirTipo DEF SmtpFalla, Procesos
  <2> QED
        BY <1>16, <2>3 DEF SmtpFalla, TypeOK
<1>17. ASSUME NEW p \in Peticiones, Limpiar(p) PROVE TypeOK'
  <2> DEFINE c == pet[p].cot
  <2>1. c \in Cots /\ cot[c] \in Documento
        BY <1>0, <1>17, PeticionLocales DEF Limpiar, En, Procesos, TypeOK
  <2>2. [cot[c] EXCEPT !.token = 0, !.tokenVence = 0] \in Documento
        BY <2>1, ConTokenTipo
  <2>3. cot' \in [Cots -> Documento]
        BY <1>17, <2>1, <2>2, GuardarTipo DEF Limpiar
  <2>4. pet' \in [Procesos -> Peticion]
        BY <1>17, LibreTipo, SeguirTipo DEF Limpiar, Procesos
  <2> QED
        BY <1>17, <2>3, <2>4 DEF Limpiar, TypeOK
<1>18. ASSUME NEW p \in Procesos, Abortar(p) PROVE TypeOK'
  <2>1. pet' \in [Procesos -> Peticion]
        BY <1>18, LibreTipo, SeguirTipo DEF Abortar
  <2> QED
        BY <1>18, <2>1 DEF Abortar, TypeOK
<1>19. CASE Tic
    BY <1>19 DEF Tic, TypeOK
<1>20. CASE UNCHANGED vars
    BY <1>20 DEF vars, TypeOK
<1> QED
    BY <1>1, <1>2, <1>3, <1>4, <1>5, <1>6, <1>7, <1>8, <1>9, <1>10, <1>11, <1>12,
       <1>13, <1>14, <1>15, <1>16, <1>17, <1>18, <1>19, <1>20 DEF Next

-----------------------------------------------------------------------------
(* What a step does to the life of the documents.  The four kinds of change *)
(* are stated on the fields alone, so that the invariants and the           *)
(* refinement follow from them without looking at the actions again.        *)

Intacto(c) ==
    /\ cot'[c].estado = cot[c].estado /\ cot'[c].origen = cot[c].origen
    /\ cot'[c].actor = cot[c].actor
    /\ cot'[c].fechaAceptacion = cot[c].fechaAceptacion
    /\ cot'[c].fechaRechazo = cot[c].fechaRechazo

Nace(c) ==
    /\ cot[c].estado = "ausente" /\ cot'[c].estado = "vigente"
    /\ cot'[c].origen = cot[c].origen /\ cot'[c].actor = cot[c].actor
    /\ cot'[c].fechaAceptacion = cot[c].fechaAceptacion
    /\ cot'[c].fechaRechazo = cot[c].fechaRechazo

Responde(c, p) ==
    /\ cot[c].estado = "vigente" /\ cot'[c].estado \in Decisiones
    /\ cot'[c].origen = "magic_link" /\ cot'[c].actor = FALSE
    /\ cot'[c].fechaAceptacion =
        (cot[c].fechaAceptacion \/ cot'[c].estado = "aceptada")
    /\ cot'[c].fechaRechazo = (cot[c].fechaRechazo \/ cot'[c].estado = "rechazada")
    /\ En(p, "responder") /\ pet[p].token = cot[c].token
    /\ ~Vencido(cot[c], pet[p].hora)

Expira(c) ==
    /\ cot[c].estado = "vigente" /\ Vencido(cot[c], now) /\ cot'[c].estado = "vencida"
    /\ cot'[c].origen = "cron" /\ cot'[c].actor = FALSE
    /\ cot'[c].fechaAceptacion = cot[c].fechaAceptacion
    /\ cot'[c].fechaRechazo = cot[c].fechaRechazo

Marca(c, p) ==
    /\ cot[c].estado # "ausente" /\ cot'[c].estado \in Estados \ {cot[c].estado}
    /\ cot'[c].origen = "usuario" /\ cot'[c].actor = TRUE
    /\ cot'[c].fechaAceptacion = (cot'[c].estado = "aceptada")
    /\ cot'[c].fechaRechazo = (cot'[c].estado = "rechazada")
    /\ En(p, "cambiar") /\ ~En(p, "cambiar")'
    /\ pet[p].cot = c /\ pet[p].leido = cot[c].estado

CambiaUno(c) ==
    /\ \A x \in Cots \ {c} : cot'[x] = cot[x]
    /\ \/ Nace(c) \/ Expira(c)
       \/ \E p \in Peticiones : Responde(c, p) \/ Marca(c, p)

Paso == (\A c \in Cots : Intacto(c)) \/ (\E c \in Cots : CambiaUno(c))

\* Every step leaves the life of all documents as it is or makes one of the
\* four changes to one of them.
LEMMA PasoDeVida == TypeOK /\ LocalesValidos /\ [Next]_vars => Paso
<1> SUFFICES ASSUME TypeOK, LocalesValidos, [Next]_vars PROVE Paso
    OBVIOUS
<1>0. /\ \A p \in Procesos : pet[p] \in Peticion
      /\ \A c \in Cots : cot[c] \in Documento
      /\ cot = [c \in Cots |-> cot[c]] /\ DOMAIN pet = Procesos
    BY DEF TypeOK
<1>1. CASE UNCHANGED cot
    BY <1>1 DEF Paso, Intacto
<1>2. ASSUME NEW c \in Cots, Crear(c) PROVE Paso
  <2>1. PICK sin, v :
            Guardar(c, [cot[c] EXCEPT !.estado = "vigente", !.creacion = now,
                                      !.sinVigencia = sin, !.vence = v])
        BY <1>2 DEF Crear
  <2>2. cot'[c] = [cot[c] EXCEPT !.estado = "vigente", !.creacion = now,
                                 !.sinVigencia = sin, !.vence = v]
        /\ \A x \in Cots \ {c} : cot'[x] = cot[x]
        BY <1>0, <2>1 DEF Guardar
  <2>3. Nace(c)
        BY <1>0, <1>2, <2>2 DEF Nace, Crear, Existe, Documento
  <2> QED
        BY <2>2, <2>3 DEF Paso, CambiaUno
<1>3. ASSUME NEW p \in Peticiones, CambiarEscribe(p) PROVE Paso
  <2> DEFINE r == pet[p]
             c == r.cot
  <2>1. /\ c \in Cots /\ r.destino \in Estados /\ r.leido \in Estados /\ r.fecha \in Nat
        /\ r.leido # r.destino /\ p \in Procesos
        BY <1>0, <1>3, PeticionLocales DEF CambiarEscribe, En, Procesos, LocalesValidos
  <2>2. CASE cot[c].estado # r.leido
        BY <1>1, <1>3, <2>2 DEF CambiarEscribe
  <2>3. CASE cot[c].estado = r.leido
    <3>1. cot'[c] = Marcado(cot[c], r.destino, r.fecha)
          /\ \A x \in Cots \ {c} : cot'[x] = cot[x]
          BY <1>0, <1>3, <2>1, <2>3 DEF CambiarEscribe, Guardar
    <3>2. ~En(p, "cambiar")'
          BY <1>0, <1>3, <2>1, <2>3 DEF CambiarEscribe, Seguir, Libre, En
    <3>3. /\ cot'[c].estado = r.destino /\ cot'[c].origen = "usuario"
          /\ cot'[c].actor = TRUE
          /\ cot'[c].fechaAceptacion = (r.destino = "aceptada")
          /\ cot'[c].fechaRechazo = (r.destino = "rechazada")
          BY <1>0, <2>1, <3>1 DEF Marcado, Documento
    <3>4. Marca(c, p)
          BY <1>3, <2>1, <2>3, <3>2, <3>3 DEF Marca, CambiarEscribe, Estados
    <3> QED
          BY <2>1, <3>1, <3>4 DEF Paso, CambiaUno
  <2> QED
        BY <2>2, <2>3
<1>4. ASSUME NEW p \in Peticiones, UpdateEscribe(p) PROVE Paso
  <2> DEFINE c == pet[p].cot
  <2>1. c \in Cots
        BY <1>0, <1>4, PeticionLocales DEF UpdateEscribe, En, Procesos
  <2>2. cot' = [cot EXCEPT ![c] = [cot[c] EXCEPT !.vence = pet[p].resto]]
        BY <1>4 DEF UpdateEscribe, Guardar
  <2>3. \A x \in Cots : Intacto(x)
        BY <1>0, <2>1, <2>2 DEF Intacto, Documento
  <2> QED
        BY <2>3 DEF Paso
<1>5. ASSUME NEW p \in Peticiones, ResponderEscribe(p) PROVE Paso
  <2> DEFINE r == pet[p]
  <2>1. r.decision \in Decisiones /\ r.hora \in Nat /\ En(p, "responder")
        BY <1>0, <1>5, PeticionLocales DEF ResponderEscribe, En, Procesos
  <2>2. CASE UNCHANGED cot
        BY <1>1, <2>2
  <2>3. ASSUME NEW c \in Respondibles(r), Guardar(c, Respondido(cot[c], r.decision))
        PROVE  Paso
    <3>1. /\ c \in Cots /\ cot[c] \in Documento /\ cot[c].token = r.token
          /\ cot[c].estado = "vigente" /\ (cot[c].sinVigencia \/ cot[c].vence >= r.hora)
          BY <1>0 DEF Respondibles
    <3>2. cot'[c] = Respondido(cot[c], r.decision)
          /\ \A x \in Cots \ {c} : cot'[x] = cot[x]
          BY <1>0, <2>3, <3>1 DEF Guardar
    <3>3. ~Vencido(cot[c], r.hora)
          BY <2>1, <3>1 DEF Vencido, Documento
    <3>4. Responde(c, p)
          BY <2>1, <3>1, <3>2, <3>3 DEF Responde, Respondido, Documento
    <3> QED
          BY <3>1, <3>2, <3>4 DEF Paso, CambiaUno
  <2> QED
        BY <1>5, <2>2, <2>3 DEF ResponderEscribe
<1>6. ASSUME NEW p \in Procesos, NEW c \in Cots, BarrerVisita(p, c) PROVE Paso
  <2>1. CASE UNCHANGED cot
        BY <1>1, <2>1
  <2>2. CASE /\ cot[c].estado = "vigente" /\ Vencido(cot[c], pet[p].hora)
             /\ Guardar(c, [cot[c] EXCEPT !.estado = "vencida", !.origen = "cron",
                                          !.actor = FALSE])
    <3>1. cot'[c] = [cot[c] EXCEPT !.estado = "vencida", !.origen = "cron",
                                   !.actor = FALSE]
          /\ \A x \in Cots \ {c} : cot'[x] = cot[x]
          BY <1>0, <2>2 DEF Guardar
    <3>2. pet[p].hora \in Nat /\ pet[p].hora <= now /\ now \in Nat
          BY <1>0, <1>6, PeticionLocales DEF BarrerVisita, LocalesValidos, En, TypeOK
    <3>3. Vencido(cot[c], now)
          BY <1>0, <2>2, <3>2 DEF Vencido, Documento
    <3>4. Expira(c)
          BY <1>0, <2>2, <3>1, <3>3 DEF Expira, Documento
    <3> QED
          BY <3>1, <3>4 DEF Paso, CambiaUno
  <2> QED
        BY <1>6, <2>1, <2>2 DEF BarrerVisita
<1>7. ASSUME NEW p \in Peticiones, EmitirToken(p) \/ Limpiar(p) PROVE Paso
  <2> DEFINE c == pet[p].cot
  <2>1. c \in Cots
        BY <1>0, <1>7, PeticionLocales DEF EmitirToken, Limpiar, En, Procesos
  <2>2. PICK t, v : cot' = [cot EXCEPT ![c] = [cot[c] EXCEPT !.token = t, !.tokenVence = v]]
        BY <1>7 DEF EmitirToken, Limpiar, Guardar
  <2>3. \A x \in Cots : Intacto(x)
        BY <1>0, <2>1, <2>2 DEF Intacto, Documento
  <2> QED
        BY <2>3 DEF Paso
<1> QED
    BY <1>1, <1>2, <1>3, <1>4, <1>5, <1>6, <1>7
    DEF Next, CambiarLee, UpdateLee, ResponderLee, EnviarLee, UpdateRelee, CambiarFecha,
        Avisar, SmtpAcepta, SmtpFalla, BarrerInicia, Abortar, Tic, vars

-----------------------------------------------------------------------------
(* The inductive invariant *)

\* Quotations are never deleted.
LEMMA ExisteSiempre ==
    ASSUME Paso, NEW c \in Cots, Existe(c)
    PROVE  Existe(c)'
BY DEF Paso, CambiaUno, Intacto, Nace, Responde, Expira, Marca, Existe, Estados, Decisiones

\* The clock does not go back.
LEMMA RelojAvanza == TypeOK /\ [Next]_vars => now' \in Nat /\ now <= now'
<1> SUFFICES ASSUME TypeOK, [Next]_vars PROVE now' \in Nat /\ now <= now'
    OBVIOUS
<1>1. CASE Tic
    BY <1>1 DEF Tic, TypeOK
<1>2. CASE UNCHANGED now
    BY <1>2 DEF TypeOK
<1> QED
    BY <1>1, <1>2
    DEF Next, vars, Crear, CambiarLee, UpdateLee, ResponderLee,
        EnviarLee, UpdateRelee, CambiarFecha, CambiarEscribe, UpdateEscribe,
        ResponderEscribe, Avisar, EmitirToken, SmtpAcepta, SmtpFalla, Limpiar,
        BarrerInicia, BarrerVisita, Abortar

\* The locals with which a request reaches its next await.
LocalesNuevos(r) ==
    \/ r.pc \notin {"leer", "fechar", "cambiar", "barrer"}
    \/ r.pc = "leer" /\ r.cot \in Cots /\ Existe(r.cot)
    \/ r.pc \in {"fechar", "cambiar"} /\ r.leido # r.destino
    \/ r.pc = "barrer" /\ r.hora <= now

\* cambiarEstadoManual goes on only with a change.
LEMMA CambioNuevo ==
    ASSUME NEW c, NEW destino, NEW fecha, NEW resto
    PROVE  LocalesNuevos(Cambio(c, destino, fecha, resto))
<1>1. CASE cot[c].estado = destino
    BY <1>1 DEF Cambio, Libre, LocalesNuevos
<1>2. CASE cot[c].estado # destino
    BY <1>2 DEF Cambio, LocalesNuevos
<1> QED
    BY <1>1, <1>2

\* In a step every request stays where it is or reaches an await with valid
\* locals.
LEMMA PasoDePeticion ==
    TypeOK /\ LocalesValidos /\ [Next]_vars =>
        \A p \in Procesos : pet'[p] = pet[p] \/ LocalesNuevos(pet'[p])
<1> SUFFICES ASSUME TypeOK, LocalesValidos, [Next]_vars
             PROVE  \A p \in Procesos : pet'[p] = pet[p] \/ LocalesNuevos(pet'[p])
    OBVIOUS
<1>0. \A p \in Procesos : pet[p] \in Peticion
    BY DEF TypeOK
<1>1. ASSUME NEW q \in Procesos, NEW r, LocalesNuevos(r), Seguir(q, r)
      PROVE  \A p \in Procesos : pet'[p] = pet[p] \/ LocalesNuevos(pet'[p])
    BY <1>1 DEF TypeOK, Seguir
<1>2. LocalesNuevos(Libre)
    BY DEF LocalesNuevos, Libre
<1>3. CASE UNCHANGED pet
    BY <1>3
<1>4. ASSUME NEW p \in Peticiones, NEW c \in Cots,
             CambiarLee(p, c) \/ UpdateLee(p, c) \/ ResponderLee(p, c) \/ EnviarLee(p, c)
      PROVE  \E r : LocalesNuevos(r) /\ Seguir(p, r)
  <2>1. CASE CambiarLee(p, c)
        BY <2>1, CambioNuevo DEF CambiarLee
  <2>2. CASE UpdateLee(p, c)
    <3>1. PICK r : /\ Seguir(p, r)
                   /\ \/ \E d, f : r = [pc |-> "leer", cot |-> c, destino |-> d, fecha |-> f]
                      \/ \E f : r = [pc |-> "restar", cot |-> c, resto |-> f]
          BY <2>2 DEF UpdateLee
    <3>2. Existe(c)
          BY <2>2 DEF UpdateLee
    <3> QED
          BY <3>1, <3>2 DEF LocalesNuevos
  <2>3. CASE ResponderLee(p, c)
    <3>1. PICK d : Seguir(p, [pc |-> "responder", token |-> cot[c].token,
                              decision |-> d, hora |-> now])
          BY <2>3 DEF ResponderLee
    <3> QED
          BY <3>1 DEF LocalesNuevos
  <2>4. CASE EnviarLee(p, c)
    <3>1. PICK v : Seguir(p, [pc |-> "emitir", cot |-> c, vence |-> v])
          BY <2>4 DEF EnviarLee
    <3> QED
          BY <3>1 DEF LocalesNuevos
  <2> QED
        BY <1>4, <2>1, <2>2, <2>3, <2>4
<1>5. ASSUME NEW p \in Peticiones,
             UpdateRelee(p) \/ CambiarFecha(p) \/ CambiarEscribe(p) \/ UpdateEscribe(p)
      PROVE  \E r : LocalesNuevos(r) /\ Seguir(p, r)
  <2>1. CASE UpdateRelee(p)
        BY <2>1, CambioNuevo DEF UpdateRelee
  <2>2. CASE CambiarFecha(p)
    <3> DEFINE r == pet[p]
    <3>1. /\ r \in [pc : {"fechar", "cambiar"}, cot : Cots, leido : Estados,
                    destino : Estados, fecha : Nat, resto : Nat]
          /\ r.leido # r.destino
          BY <1>0, <2>2 DEF CambiarFecha, En, Procesos, Peticion, LocalesValidos
    <3>2. \A v : LocalesNuevos([r EXCEPT !.pc = "cambiar", !.fecha = v])
          BY <3>1 DEF LocalesNuevos
    <3> QED
          BY <1>2, <2>2, <3>2 DEF CambiarFecha
  <2>3. CASE CambiarEscribe(p)
    <3>1. \A c, n : LocalesNuevos([pc |-> "restar", cot |-> c, resto |-> n])
          BY DEF LocalesNuevos
    <3> QED
          BY <1>2, <2>3, <3>1 DEF CambiarEscribe
  <2>4. CASE UpdateEscribe(p)
        BY <1>2, <2>4 DEF UpdateEscribe
  <2> QED
        BY <1>5, <2>1, <2>2, <2>3, <2>4
<1>6. ASSUME NEW p \in Peticiones,
             \/ ResponderEscribe(p) \/ Avisar(p) \/ EmitirToken(p)
             \/ SmtpAcepta(p) \/ SmtpFalla(p) \/ Limpiar(p)
      PROVE  \E r : LocalesNuevos(r) /\ Seguir(p, r)
  <2>1. CASE ResponderEscribe(p)
    <3>1. \A c : LocalesNuevos([pc |-> "avisar", cot |-> c])
          BY DEF LocalesNuevos
    <3> QED
          BY <1>2, <2>1, <3>1 DEF ResponderEscribe
  <2>2. CASE EmitirToken(p)
    <3>1. \A c, t, v : LocalesNuevos([pc |-> "enviar", cot |-> c, token |-> t, vence |-> v])
          BY DEF LocalesNuevos
    <3> QED
          BY <2>2, <3>1 DEF EmitirToken
  <2>3. CASE SmtpFalla(p)
    <3>1. pet[p] \in [pc : {"enviar", "limpiar"}, cot : Cots, token : Nat, vence : Nat]
          BY <1>0, <2>3 DEF SmtpFalla, En, Procesos, Peticion
    <3>2. LocalesNuevos([pet[p] EXCEPT !.pc = "limpiar"])
          BY <3>1 DEF LocalesNuevos
    <3> QED
          BY <2>3, <3>2 DEF SmtpFalla
  <2> QED
        BY <1>2, <1>6, <2>1, <2>2, <2>3 DEF Avisar, SmtpAcepta, Limpiar
<1>7. ASSUME NEW p \in Procesos, BarrerInicia(p) \/ Abortar(p)
      PROVE  \E r : LocalesNuevos(r) /\ Seguir(p, r)
  <2>1. LocalesNuevos([pc |-> "barrer", hora |-> now, faltan |-> Cots])
        BY DEF LocalesNuevos, TypeOK
  <2> QED
        BY <1>2, <1>7, <2>1 DEF BarrerInicia, Abortar
<1>8. ASSUME NEW p \in Procesos, NEW c \in Cots, BarrerVisita(p, c)
      PROVE  \E r : LocalesNuevos(r) /\ Seguir(p, r)
  <2>1. pet[p] \in [pc : {"barrer"}, hora : Nat, faltan : SUBSET Cots] /\ pet[p].hora <= now
        BY <1>0, <1>8 DEF BarrerVisita, En, Peticion, LocalesValidos
  <2>2. LocalesNuevos([pet[p] EXCEPT !.faltan = @ \ {c}])
        BY <2>1 DEF LocalesNuevos
  <2> QED
        BY <1>2, <1>8, <2>2 DEF BarrerVisita
<1>9. Peticiones \subseteq Procesos
    BY DEF Procesos
<1> QED
    BY <1>1, <1>3, <1>4, <1>5, <1>6, <1>7, <1>8, <1>9 DEF Next, Crear, Tic, vars

\* What a request carries over an await stays valid while others act.
LEMMA NextLocales ==
    TypeOK /\ LocalesValidos /\ [Next]_vars => LocalesValidos'
<1> SUFFICES ASSUME TypeOK, LocalesValidos, [Next]_vars, NEW p \in Procesos
             PROVE  /\ (En(p, "leer") => Existe(pet[p].cot))'
                    /\ (pet[p].pc \in {"fechar", "cambiar"} =>
                            pet[p].leido # pet[p].destino)'
                    /\ (En(p, "barrer") => pet[p].hora <= now)'
    BY DEF LocalesValidos
<1>1. Paso /\ now \in Nat /\ now' \in Nat /\ now <= now'
    BY PasoDeVida, RelojAvanza DEF TypeOK
<1>2. pet'[p] \in Peticion
    BY NextTypeOK DEF TypeOK
<1>3. (pet'[p].pc = "leer" => pet'[p].cot \in Cots)
      /\ (pet'[p].pc = "barrer" => pet'[p].hora \in Nat)
    BY <1>2, PeticionLocales
<1>4. CASE pet'[p] = pet[p]
    BY <1>1, <1>3, <1>4, ExisteSiempre DEF LocalesValidos, En
<1>5. CASE LocalesNuevos(pet'[p])
    BY <1>1, <1>3, <1>5, ExisteSiempre DEF LocalesNuevos, En
<1> QED
    BY <1>4, <1>5, PasoDePeticion

\* The initial states satisfy the inductive invariant.
LEMMA InitIndInv == Init => IndInv
<1> SUFFICES ASSUME Init PROVE IndInv
    OBVIOUS
<1>1. LocalesValidos
    BY DEF Init, LocalesValidos, En, Libre
<1>2. RespuestaCoherente /\ ProcedenciaCoherente
    BY DEF Init, RespuestaCoherente, ProcedenciaCoherente
<1> QED
    BY <1>1, <1>2, InitTypeOK DEF IndInv

\* Every step preserves the inductive invariant.
LEMMA NextIndInv == IndInv /\ [Next]_vars => IndInv'
<1> SUFFICES ASSUME IndInv, [Next]_vars PROVE IndInv'
    OBVIOUS
<1>1. TypeOK' /\ LocalesValidos' /\ Paso
    BY NextTypeOK, NextLocales, PasoDeVida DEF IndInv
<1>2. \A c \in Cots : cot[c] \in Documento /\ cot'[c] \in Documento
    BY <1>1 DEF IndInv, TypeOK
<1>3. RespuestaCoherente'
  <2> SUFFICES ASSUME NEW c \in Cots
               PROVE  /\ cot'[c].fechaAceptacion <=> cot'[c].estado = "aceptada"
                      /\ cot'[c].fechaRechazo <=> cot'[c].estado = "rechazada"
      BY DEF RespuestaCoherente
  <2>1. /\ cot[c].fechaAceptacion <=> cot[c].estado = "aceptada"
        /\ cot[c].fechaRechazo <=> cot[c].estado = "rechazada"
        BY DEF IndInv, RespuestaCoherente
  <2> QED
        BY <1>1, <1>2, <2>1
        DEF Paso, CambiaUno, Intacto, Nace, Responde, Expira, Marca, Decisiones
<1>4. ProcedenciaCoherente'
  <2> SUFFICES ASSUME NEW c \in Cots
               PROVE  /\ cot'[c].actor <=> cot'[c].origen = "usuario"
                      /\ cot'[c].origen = "cron" => cot'[c].estado = "vencida"
                      /\ cot'[c].origen = "magic_link" => cot'[c].estado \in Decisiones
                      /\ cot'[c].origen = "ninguno" =>
                            cot'[c].estado \in {"ausente", "vigente"}
                      /\ cot'[c].estado = "ausente" => cot'[c].origen = "ninguno"
      BY DEF ProcedenciaCoherente
  <2>1. /\ cot[c].actor <=> cot[c].origen = "usuario"
        /\ cot[c].origen = "cron" => cot[c].estado = "vencida"
        /\ cot[c].origen = "magic_link" => cot[c].estado \in Decisiones
        /\ cot[c].origen = "ninguno" => cot[c].estado \in {"ausente", "vigente"}
        /\ cot[c].estado = "ausente" => cot[c].origen = "ninguno"
        BY DEF IndInv, ProcedenciaCoherente
  <2>2. CASE Intacto(c) \/ cot'[c] = cot[c]
        BY <2>1, <2>2 DEF Intacto
  <2>3. CASE Nace(c)
        BY <2>1, <2>3 DEF Nace
  <2>4. CASE Expira(c)
        BY <2>4 DEF Expira
  <2>5. ASSUME NEW p \in Peticiones, Responde(c, p)
        PROVE  /\ cot'[c].origen = "magic_link" /\ cot'[c].estado \in Decisiones
               /\ cot'[c].actor = FALSE
        BY <2>5 DEF Responde
  <2>6. ASSUME NEW p \in Peticiones, Marca(c, p)
        PROVE  /\ cot'[c].origen = "usuario" /\ cot'[c].estado \in Estados
               /\ cot'[c].actor = TRUE
        BY <2>6 DEF Marca
  <2>7. \/ Intacto(c) \/ cot'[c] = cot[c] \/ Nace(c) \/ Expira(c)
        \/ \E p \in Peticiones : Responde(c, p) \/ Marca(c, p)
        BY <1>1 DEF Paso, CambiaUno
  <2> QED
        BY <2>2, <2>3, <2>4, <2>5, <2>6, <2>7 DEF Estados, Decisiones
<1> QED
    BY <1>1, <1>3, <1>4 DEF IndInv

-----------------------------------------------------------------------------
(* The notifications of an answer.  Each time a quotation is opened one may *)
(* be sent; the request that answers takes the opening over from the        *)
(* document, and carries it until it has notified or ended.                 *)

\* The requests about to notify an answer to c.
Avisando(c) == {p \in Peticiones : En(p, "avisar") /\ pet[p].cot = c}

\* The opening of c that nobody has answered.
Abierta(c) == IF cot[c].estado = "vigente" THEN 1 ELSE 0

\* The balance of c covers its opening and the notifications under way.
SaldoCubre ==
    \A c \in Cots : /\ IsFiniteSet(Avisando(c))
                    /\ Abierta(c) + Cardinality(Avisando(c)) <= saldo[c]

\* What a step does to them: nobody begins to notify and nothing is opened; a
\* quotation is opened; one is answered; an answer is notified.
Sigue ==
    /\ UNCHANGED saldo
    /\ \A c \in Cots : Avisando(c)' \subseteq Avisando(c) /\ Abierta(c)' <= Abierta(c)

Abre ==
    \E c \in Cots :
        /\ Abierta(c) = 0 /\ saldo' = [saldo EXCEPT ![c] = @ + 1]
        /\ \A x \in Cots : Avisando(x)' \subseteq Avisando(x)
        /\ \A x \in Cots \ {c} : Abierta(x)' = Abierta(x)

Contesta ==
    \E c \in Cots, p \in Peticiones :
        /\ UNCHANGED saldo
        /\ Abierta(c) = 1 /\ Abierta(c)' = 0
        /\ Avisando(c)' \subseteq Avisando(c) \cup {p}
        /\ \A x \in Cots \ {c} :
                Avisando(x)' \subseteq Avisando(x) /\ Abierta(x)' = Abierta(x)

Notifica ==
    \E c \in Cots : \E p \in Avisando(c) :
        /\ saldo' = [saldo EXCEPT ![c] = @ - 1]
        /\ Avisando(c)' \subseteq Avisando(c) \ {p}
        /\ \A x \in Cots : Avisando(x)' \subseteq Avisando(x) /\ Abierta(x)' = Abierta(x)

PasoDeAviso == Sigue \/ Abre \/ Contesta \/ Notifica

\* A request that goes on to anything but a notification leaves one less, at most.
LEMMA NoAvisa ==
    ASSUME TypeOK, NEW p \in Procesos, NEW r, r.pc # "avisar", Seguir(p, r)
    PROVE  \A x \in Cots : Avisando(x)' \subseteq Avisando(x)
<1>1. /\ pet'[p] = r
      /\ \A q \in Procesos \ {p} : pet'[q] = pet[q]
    BY DEF Seguir, TypeOK
<1> QED
    BY <1>1 DEF Avisando, En, Procesos

\* A write that does not open its document opens none.
LEMMA NoAbre ==
    ASSUME TypeOK, NEW c \in Cots, NEW d, Guardar(c, d),
           d.estado = cot[c].estado \/ d.estado # "vigente"
    PROVE  \A x \in Cots : Abierta(x)' <= Abierta(x)
<1>1. /\ cot'[c] = d
      /\ \A x \in Cots \ {c} : cot'[x] = cot[x]
    BY DEF Guardar, TypeOK
<1> QED
    BY <1>1 DEF Abierta

\* Every step does one of the four.
LEMMA PasoDelAviso == TypeOK /\ LocalesValidos /\ [Next]_vars => PasoDeAviso
<1> SUFFICES ASSUME TypeOK, LocalesValidos, [Next]_vars PROVE PasoDeAviso
    OBVIOUS
<1>0. /\ \A p \in Procesos : pet[p] \in Peticion
      /\ \A c \in Cots : cot[c] \in Documento /\ Abierta(c) \in {0, 1}
      /\ \A c \in Cots : Abierta(c) <= Abierta(c)
      /\ Peticiones \subseteq Procesos
    BY DEF TypeOK, Procesos, Abierta
<1>1. CASE UNCHANGED <<cot, pet, saldo>>
    BY <1>0, <1>1 DEF PasoDeAviso, Sigue, Avisando, Abierta, En
<1>2. ASSUME NEW p \in Procesos, NEW r, r.pc # "avisar", Seguir(p, r), UNCHANGED <<cot, saldo>>
      PROVE  PasoDeAviso
    BY <1>0, <1>2, NoAvisa DEF PasoDeAviso, Sigue, Abierta
<1>3. ASSUME NEW p \in Procesos, NEW r, r.pc # "avisar", Seguir(p, r), UNCHANGED saldo,
             NEW c \in Cots, NEW d, Guardar(c, d),
             d.estado = cot[c].estado \/ d.estado # "vigente"
      PROVE  PasoDeAviso
  <2>1. \A x \in Cots : Avisando(x)' \subseteq Avisando(x)
        BY <1>3, NoAvisa
  <2>2. \A x \in Cots : Abierta(x)' <= Abierta(x)
        BY <1>3, NoAbre
  <2> QED
        BY <1>3, <2>1, <2>2 DEF PasoDeAviso, Sigue
<1>4. Libre.pc # "avisar"
    BY DEF Libre
<1>5. ASSUME NEW c, NEW d, NEW f, NEW n PROVE Cambio(c, d, f, n).pc # "avisar"
  <2>1. CASE cot[c].estado = d
        BY <1>4, <2>1 DEF Cambio
  <2>2. CASE cot[c].estado # d
        BY <2>2 DEF Cambio
  <2> QED
        BY <2>1, <2>2
<1>6. ASSUME NEW c \in Cots, Crear(c) PROVE PasoDeAviso
  <2>1. PICK sin, v :
            Guardar(c, [cot[c] EXCEPT !.estado = "vigente", !.creacion = now,
                                      !.sinVigencia = sin, !.vence = v])
        BY <1>6 DEF Crear
  <2>2. /\ Abierta(c) = 0 /\ saldo' = [saldo EXCEPT ![c] = @ + 1] /\ pet' = pet
        /\ \A x \in Cots \ {c} : cot'[x] = cot[x]
        BY <1>6, <2>1 DEF Crear, Existe, Abierta, Guardar, TypeOK
  <2> QED
        BY <2>2 DEF PasoDeAviso, Abre, Abierta, Avisando, En
<1>7. ASSUME NEW p \in Peticiones, CambiarEscribe(p) PROVE PasoDeAviso
  <2> DEFINE r == pet[p]
             c == r.cot
  <2>1. /\ c \in Cots /\ r.destino \in Estados /\ r.leido # r.destino /\ p \in Procesos
        BY <1>0, <1>7, PeticionLocales DEF CambiarEscribe, En, LocalesValidos
  <2>2. PICK q : q.pc # "avisar" /\ Seguir(p, q)
    <3>1. \A n : [pc |-> "restar", cot |-> c, resto |-> n].pc # "avisar"
          OBVIOUS
    <3> QED
          BY <1>4, <1>7, <3>1 DEF CambiarEscribe
  <2>3. CASE cot[c].estado # r.leido
        BY <1>2, <1>7, <2>1, <2>2, <2>3 DEF CambiarEscribe
  <2>4. CASE cot[c].estado = r.leido
    <3>1. Guardar(c, Marcado(cot[c], r.destino, r.fecha))
          BY <1>7, <2>4 DEF CambiarEscribe
    <3>2. Marcado(cot[c], r.destino, r.fecha).estado = r.destino
          BY <1>0, <2>1 DEF Marcado, Documento
    <3>3. CASE r.destino = "vigente"
      <4>1. Abierta(c) = 0 /\ saldo' = [saldo EXCEPT ![c] = @ + 1]
            BY <1>7, <2>1, <2>4, <3>3 DEF CambiarEscribe, Abierta
      <4>2. \A x \in Cots \ {c} : cot'[x] = cot[x]
            BY <3>1 DEF Guardar, TypeOK
      <4>3. \A x \in Cots : Avisando(x)' \subseteq Avisando(x)
            BY <2>1, <2>2, NoAvisa
      <4> QED
            BY <2>1, <4>1, <4>2, <4>3 DEF PasoDeAviso, Abre, Abierta
    <3>4. CASE r.destino # "vigente"
      <4>1. UNCHANGED saldo
            BY <1>7, <2>4, <3>4 DEF CambiarEscribe
      <4> QED
            BY <1>3, <2>1, <2>2, <3>1, <3>2, <3>4, <4>1
    <3> QED
          BY <3>3, <3>4
  <2> QED
        BY <2>3, <2>4
<1>8. ASSUME NEW p \in Peticiones, ResponderEscribe(p) PROVE PasoDeAviso
  <2> DEFINE r == pet[p]
  <2>0. p \in Procesos /\ r.decision \in Decisiones /\ UNCHANGED saldo
        BY <1>0, <1>8, PeticionLocales DEF ResponderEscribe, En
  <2>1. CASE Seguir(p, Libre) /\ UNCHANGED cot
        BY <1>2, <1>4, <2>0, <2>1
  <2>2. ASSUME NEW c \in Respondibles(r), Guardar(c, Respondido(cot[c], r.decision)),
               Seguir(p, [pc |-> "avisar", cot |-> c])
        PROVE  PasoDeAviso
    <3>1. c \in Cots /\ cot[c] \in Documento /\ Abierta(c) = 1
          BY <1>0 DEF Respondibles, Abierta
    <3>2. Respondido(cot[c], r.decision).estado # "vigente"
          BY <2>0, <3>1 DEF Respondido, Documento, Decisiones
    <3>3. /\ cot'[c] = Respondido(cot[c], r.decision)
          /\ \A x \in Cots \ {c} : cot'[x] = cot[x]
          BY <2>2, <3>1 DEF Guardar, TypeOK
    <3>4. /\ pet'[p] = [pc |-> "avisar", cot |-> c]
          /\ \A q \in Procesos \ {p} : pet'[q] = pet[q]
          BY <2>0, <2>2 DEF Seguir, TypeOK
    <3>5. Abierta(c)' = 0 /\ \A x \in Cots \ {c} : Abierta(x)' = Abierta(x)
          BY <3>2, <3>3 DEF Abierta
    <3>6. /\ Avisando(c)' \subseteq Avisando(c) \cup {p}
          /\ \A x \in Cots \ {c} : Avisando(x)' \subseteq Avisando(x)
          BY <1>0, <3>4 DEF Avisando, En
    <3> QED
          BY <2>0, <3>1, <3>5, <3>6 DEF PasoDeAviso, Contesta
  <2> QED
        BY <1>8, <2>1, <2>2 DEF ResponderEscribe
<1>9. ASSUME NEW p \in Peticiones, Avisar(p) PROVE PasoDeAviso
  <2>0. PICK c \in Cots : c = pet[p].cot
        BY <1>0, <1>9, PeticionLocales DEF Avisar, En
  <2>1. p \in Avisando(c) /\ UNCHANGED cot /\ saldo' = [saldo EXCEPT ![c] = @ - 1]
        BY <1>9, <2>0 DEF Avisar, En, Avisando
  <2>2. /\ pet'[p] = Libre
        /\ \A q \in Procesos \ {p} : pet'[q] = pet[q]
        BY <1>0, <1>9 DEF Avisar, Seguir, TypeOK
  <2>3. /\ Avisando(c)' \subseteq Avisando(c) \ {p}
        /\ \A x \in Cots : Avisando(x)' \subseteq Avisando(x)
        BY <1>0, <1>4, <2>2 DEF Avisando, En
  <2> QED
        BY <2>1, <2>3 DEF PasoDeAviso, Notifica, Abierta
<1>10. ASSUME NEW p \in Peticiones, NEW c \in Cots,
              CambiarLee(p, c) \/ UpdateLee(p, c) \/ ResponderLee(p, c) \/ EnviarLee(p, c)
       PROVE  PasoDeAviso
  <2>1. PICK q : q.pc # "avisar" /\ Seguir(p, q)
    <3>1. CASE CambiarLee(p, c)
          BY <1>5, <3>1 DEF CambiarLee
    <3>2. CASE UpdateLee(p, c)
      <4>1. PICK q : /\ Seguir(p, q)
                     /\ \/ \E d, f : q = [pc |-> "leer", cot |-> c, destino |-> d, fecha |-> f]
                        \/ \E f : q = [pc |-> "restar", cot |-> c, resto |-> f]
            BY <3>2 DEF UpdateLee
      <4> QED
            BY <4>1
    <3>3. CASE ResponderLee(p, c)
      <4>1. PICK d : Seguir(p, [pc |-> "responder", token |-> cot[c].token,
                                decision |-> d, hora |-> now])
            BY <3>3 DEF ResponderLee
      <4> QED
            BY <4>1
    <3>4. CASE EnviarLee(p, c)
      <4>1. PICK v : Seguir(p, [pc |-> "emitir", cot |-> c, vence |-> v])
            BY <3>4 DEF EnviarLee
      <4> QED
            BY <4>1
    <3> QED
          BY <1>10, <3>1, <3>2, <3>3, <3>4
  <2>2. UNCHANGED <<cot, saldo>>
        BY <1>10 DEF CambiarLee, UpdateLee, ResponderLee, EnviarLee
  <2> QED
        BY <1>0, <1>2, <2>1, <2>2
<1>11. ASSUME NEW p \in Peticiones, UpdateRelee(p) \/ CambiarFecha(p) PROVE PasoDeAviso
  <2>1. PICK q : q.pc # "avisar" /\ Seguir(p, q)
    <3>1. CASE UpdateRelee(p)
          BY <1>5, <3>1 DEF UpdateRelee
    <3>2. CASE CambiarFecha(p)
      <4>1. pet[p] \in [pc : {"fechar", "cambiar"}, cot : Cots, leido : Estados,
                        destino : Estados, fecha : Nat, resto : Nat]
            BY <1>0, <3>2 DEF CambiarFecha, En, Peticion
      <4>2. \A v : [pet[p] EXCEPT !.pc = "cambiar", !.fecha = v].pc # "avisar"
            BY <4>1
      <4> QED
            BY <1>4, <3>2, <4>2 DEF CambiarFecha
    <3> QED
          BY <1>11, <3>1, <3>2
  <2>2. UNCHANGED <<cot, saldo>>
        BY <1>11 DEF UpdateRelee, CambiarFecha
  <2> QED
        BY <1>0, <1>2, <2>1, <2>2
<1>12. ASSUME NEW p \in Peticiones, UpdateEscribe(p) \/ EmitirToken(p) \/ Limpiar(p)
       PROVE  PasoDeAviso
  <2> DEFINE c == pet[p].cot
  <2>1. c \in Cots /\ cot[c] \in Documento
        BY <1>0, <1>12, PeticionLocales DEF UpdateEscribe, EmitirToken, Limpiar, En
  <2>2. PICK d : Guardar(c, d) /\ d.estado = cot[c].estado
    <3>1. \A v : [cot[c] EXCEPT !.vence = v].estado = cot[c].estado
          BY <2>1 DEF Documento
    <3>2. \A t, v : [cot[c] EXCEPT !.token = t, !.tokenVence = v].estado = cot[c].estado
          BY <2>1 DEF Documento
    <3>3. CASE UpdateEscribe(p)
          BY <3>1, <3>3 DEF UpdateEscribe
    <3>4. CASE EmitirToken(p)
          BY <3>2, <3>4 DEF EmitirToken
    <3>5. CASE Limpiar(p)
          BY <3>2, <3>5 DEF Limpiar
    <3> QED
          BY <1>12, <3>3, <3>4, <3>5
  <2>3. PICK q : q.pc # "avisar" /\ Seguir(p, q)
    <3>1. \A t, v : [pc |-> "enviar", cot |-> c, token |-> t, vence |-> v].pc # "avisar"
          OBVIOUS
    <3> QED
          BY <1>4, <1>12, <3>1 DEF UpdateEscribe, EmitirToken, Limpiar
  <2>4. UNCHANGED saldo
        BY <1>12 DEF UpdateEscribe, EmitirToken, Limpiar
  <2> QED
        BY <1>0, <1>3, <2>1, <2>2, <2>3, <2>4
<1>13. ASSUME NEW p \in Peticiones, SmtpAcepta(p) \/ SmtpFalla(p) PROVE PasoDeAviso
  <2>1. PICK q : q.pc # "avisar" /\ Seguir(p, q)
    <3>1. CASE SmtpAcepta(p)
          BY <1>4, <3>1 DEF SmtpAcepta
    <3>2. CASE SmtpFalla(p)
      <4>1. pet[p] \in [pc : {"enviar", "limpiar"}, cot : Cots, token : Nat, vence : Nat]
            BY <1>0, <3>2 DEF SmtpFalla, En, Peticion
      <4> QED
            BY <3>2, <4>1 DEF SmtpFalla
    <3> QED
          BY <1>13, <3>1, <3>2
  <2>2. UNCHANGED <<cot, saldo>>
        BY <1>13 DEF SmtpAcepta, SmtpFalla
  <2> QED
        BY <1>0, <1>2, <2>1, <2>2
<1>14. ASSUME NEW p \in Procesos, BarrerInicia(p) \/ Abortar(p) PROVE PasoDeAviso
  <2>1. [pc |-> "barrer", hora |-> now, faltan |-> Cots].pc # "avisar"
        OBVIOUS
  <2>2. PICK q : q.pc # "avisar" /\ Seguir(p, q)
        BY <1>4, <1>14, <2>1 DEF BarrerInicia, Abortar
  <2>3. UNCHANGED <<cot, saldo>>
        BY <1>14 DEF BarrerInicia, Abortar
  <2> QED
        BY <1>2, <2>2, <2>3
<1>15. ASSUME NEW p \in Procesos, NEW c \in Cots, BarrerVisita(p, c) PROVE PasoDeAviso
  <2>1. PICK q : q.pc # "avisar" /\ Seguir(p, q)
    <3>1. pet[p] \in [pc : {"barrer"}, hora : Nat, faltan : SUBSET Cots]
          BY <1>0, <1>15 DEF BarrerVisita, En, Peticion
    <3>2. [pet[p] EXCEPT !.faltan = @ \ {c}].pc # "avisar"
          BY <3>1
    <3> QED
          BY <1>4, <1>15, <3>2 DEF BarrerVisita
  <2>2. UNCHANGED saldo
        BY <1>15 DEF BarrerVisita
  <2>3. CASE UNCHANGED cot
        BY <1>2, <2>1, <2>2, <2>3
  <2>4. ASSUME ~UNCHANGED cot
        PROVE  \E d : Guardar(c, d) /\ d.estado # "vigente"
    <3>1. [cot[c] EXCEPT !.estado = "vencida", !.origen = "cron", !.actor = FALSE].estado
            # "vigente"
          BY <1>0 DEF Documento
    <3> QED
          BY <1>15, <2>4, <3>1 DEF BarrerVisita
  <2> QED
        BY <1>3, <2>1, <2>2, <2>3, <2>4
<1> QED
    BY <1>1, <1>6, <1>7, <1>8, <1>9, <1>10, <1>11, <1>12, <1>13, <1>14, <1>15
    DEF Next, Tic, vars

\* The balance keeps covering them.
LEMMA NextSaldo ==
    ASSUME TypeOK, TypeOK', SaldoCubre, PasoDeAviso
    PROVE  SaldoCubre'
<1>1. \A c \in Cots : /\ IsFiniteSet(Avisando(c)) /\ Cardinality(Avisando(c)) \in Nat
                      /\ Abierta(c) + Cardinality(Avisando(c)) <= saldo[c]
                      /\ Abierta(c) \in {0, 1} /\ Abierta(c)' \in {0, 1}
                      /\ saldo[c] \in Int /\ saldo'[c] \in Int
    BY FS_CardinalityType DEF SaldoCubre, Abierta, TypeOK
<1>2. ASSUME NEW c \in Cots, NEW S, IsFiniteSet(S), Avisando(c)' \subseteq S,
             Abierta(c)' + Cardinality(S) <= saldo'[c]
      PROVE  /\ IsFiniteSet(Avisando(c)')
             /\ Abierta(c)' + Cardinality(Avisando(c)') <= saldo'[c]
  <2>1. /\ IsFiniteSet(Avisando(c)') /\ Cardinality(Avisando(c)') <= Cardinality(S)
        /\ Cardinality(Avisando(c)') \in Nat /\ Cardinality(S) \in Nat
        BY <1>2, FS_Subset, FS_CardinalityType
  <2> QED
        BY <1>1, <1>2, <2>1
<1>3. ASSUME NEW c \in Cots, saldo'[c] = saldo[c], Avisando(c)' \subseteq Avisando(c),
             Abierta(c)' <= Abierta(c)
      PROVE  /\ IsFiniteSet(Avisando(c)')
             /\ Abierta(c)' + Cardinality(Avisando(c)') <= saldo'[c]
  <2>1. Abierta(c)' + Cardinality(Avisando(c)) <= saldo'[c]
        BY <1>1, <1>3
  <2> QED
        BY <1>1, <1>2, <1>3, <2>1
<1>4. \A c \in Cots : /\ IsFiniteSet(Avisando(c)')
                      /\ Abierta(c)' + Cardinality(Avisando(c)') <= saldo'[c]
  <2>1. CASE Sigue
        BY <1>3, <2>1 DEF Sigue
  <2>2. CASE Abre
    <3>1. PICK c \in Cots :
            /\ Abierta(c) = 0 /\ saldo' = [saldo EXCEPT ![c] = @ + 1]
            /\ \A x \in Cots : Avisando(x)' \subseteq Avisando(x)
            /\ \A x \in Cots \ {c} : Abierta(x)' = Abierta(x)
          BY <2>2 DEF Abre
    <3>2. saldo'[c] = saldo[c] + 1 /\ \A x \in Cots \ {c} : saldo'[x] = saldo[x]
          BY <3>1 DEF TypeOK
    <3>3. Abierta(c)' + Cardinality(Avisando(c)) <= saldo'[c]
          BY <1>1, <3>1, <3>2
    <3>4. \A x \in Cots \ {c} : Abierta(x)' <= Abierta(x)
          BY <1>1, <3>1
    <3> QED
          BY <1>1, <1>2, <1>3, <3>1, <3>2, <3>3, <3>4
  <2>3. CASE Contesta
    <3>1. PICK c \in Cots, p \in Peticiones :
            /\ UNCHANGED saldo
            /\ Abierta(c) = 1 /\ Abierta(c)' = 0
            /\ Avisando(c)' \subseteq Avisando(c) \cup {p}
            /\ \A x \in Cots \ {c} :
                    Avisando(x)' \subseteq Avisando(x) /\ Abierta(x)' = Abierta(x)
          BY <2>3 DEF Contesta
    <3>2. /\ IsFiniteSet(Avisando(c) \cup {p})
          /\ Cardinality(Avisando(c) \cup {p}) <= Cardinality(Avisando(c)) + 1
          /\ Cardinality(Avisando(c) \cup {p}) \in Nat
      <4>1. /\ IsFiniteSet(Avisando(c) \cup {p})
            /\ Cardinality(Avisando(c) \cup {p})
                 = IF p \in Avisando(c) THEN Cardinality(Avisando(c))
                   ELSE Cardinality(Avisando(c)) + 1
            BY <1>1, FS_AddElement
      <4> QED
            BY <1>1, <4>1
    <3>3. Abierta(c)' + Cardinality(Avisando(c) \cup {p}) <= saldo'[c]
          BY <1>1, <3>1, <3>2
    <3>4. \A x \in Cots \ {c} : Abierta(x)' <= Abierta(x)
          BY <1>1, <3>1
    <3> QED
          BY <1>2, <1>3, <3>1, <3>2, <3>3, <3>4
  <2>4. CASE Notifica
    <3>0. PICK c \in Cots : \E p \in Avisando(c) :
            /\ saldo' = [saldo EXCEPT ![c] = @ - 1]
            /\ Avisando(c)' \subseteq Avisando(c) \ {p}
            /\ \A x \in Cots : Avisando(x)' \subseteq Avisando(x) /\ Abierta(x)' = Abierta(x)
          BY <2>4 DEF Notifica
    <3>1. PICK p \in Avisando(c) :
            /\ saldo' = [saldo EXCEPT ![c] = @ - 1]
            /\ Avisando(c)' \subseteq Avisando(c) \ {p}
            /\ \A x \in Cots : Avisando(x)' \subseteq Avisando(x) /\ Abierta(x)' = Abierta(x)
          BY <3>0
    <3>2. saldo'[c] = saldo[c] - 1 /\ \A x \in Cots \ {c} : saldo'[x] = saldo[x]
          BY <3>1 DEF TypeOK
    <3>3. /\ IsFiniteSet(Avisando(c) \ {p})
          /\ Cardinality(Avisando(c) \ {p}) = Cardinality(Avisando(c)) - 1
          BY <1>1, FS_RemoveElement
    <3>4. Abierta(c)' + Cardinality(Avisando(c) \ {p}) <= saldo'[c]
          BY <1>1, <3>1, <3>2, <3>3
    <3>5. \A x \in Cots : Abierta(x)' <= Abierta(x)
          BY <1>1, <3>1
    <3> QED
          BY <1>2, <1>3, <3>1, <3>2, <3>3, <3>4, <3>5
  <2> QED
        BY <2>1, <2>2, <2>3, <2>4 DEF PasoDeAviso
<1> QED
    BY <1>4 DEF SaldoCubre

-----------------------------------------------------------------------------
(* What holds of every behaviour *)

\* The inductive invariant holds in every reachable state.
THEOREM Inductiva == Spec => []IndInv
BY InitIndInv, NextIndInv, PTL DEF Spec

\* Documents and requests keep their types.
THEOREM TipoCorrecto == Spec => []TypeOK
<1>1. IndInv => TypeOK
    BY DEF IndInv
<1> QED
    BY <1>1, Inductiva, PTL

\* The dates of acceptance and rejection always agree with the state, however
\* manual changes, answers and sweeps interleave.
THEOREM RespuestaEsCoherente == Spec => []RespuestaCoherente
<1>1. IndInv => RespuestaCoherente
    BY DEF IndInv
<1> QED
    BY <1>1, Inductiva, PTL

\* The stored provenance always is that of the change that led to the state.
THEOREM ProcedenciaEsCoherente == Spec => []ProcedenciaCoherente
<1>1. IndInv => ProcedenciaCoherente
    BY DEF IndInv
<1> QED
    BY <1>1, Inductiva, PTL

\* No opening of a quotation is notified twice: the balance of openings and
\* notifications covers those that are still to come.
THEOREM UnAvisoPorApertura == Spec => []AvisoPorApertura
<1>1. Init => SaldoCubre
  <2> SUFFICES ASSUME Init, NEW c \in Cots
               PROVE  /\ IsFiniteSet(Avisando(c))
                      /\ Abierta(c) + Cardinality(Avisando(c)) <= saldo[c]
      BY DEF SaldoCubre
  <2>1. Avisando(c) = {} /\ Abierta(c) = 0 /\ saldo[c] = 0
        BY DEF Init, Avisando, Abierta, En, Libre, Procesos
  <2>2. IsFiniteSet({}) /\ Cardinality({}) = 0
        BY FS_EmptySet
  <2> QED
        BY <2>1, <2>2
<1>2. IndInv /\ SaldoCubre /\ [Next]_vars => SaldoCubre'
    BY NextIndInv, PasoDelAviso, NextSaldo DEF IndInv
<1>3. TypeOK /\ SaldoCubre => AvisoPorApertura
  <2> SUFFICES ASSUME TypeOK, SaldoCubre, NEW c \in Cots PROVE saldo[c] >= 0
      BY DEF AvisoPorApertura
  <2>1. /\ Cardinality(Avisando(c)) \in Nat /\ Abierta(c) \in {0, 1} /\ saldo[c] \in Int
        /\ Abierta(c) + Cardinality(Avisando(c)) <= saldo[c]
        BY FS_CardinalityType DEF SaldoCubre, Abierta, TypeOK
  <2> QED
        BY <2>1
<1>4. IndInv => TypeOK
    BY DEF IndInv
<1> QED
    BY <1>1, <1>2, <1>3, <1>4, Inductiva, PTL DEF Spec

\* Customers answer through the stored token and in time, and the sweep expires
\* only what is overdue, by what is stored when they write.
THEOREM ElPlazoSeRespeta == Spec => PlazoRespetado
<1> DEFINE EnPlazo ==
        \A c \in Cots : cot'[c].estado # cot[c].estado =>
            /\ cot'[c].origen = "magic_link" =>
                \E p \in Peticiones :
                    /\ En(p, "responder") /\ pet[p].token = cot[c].token
                    /\ ~Vencido(cot[c], pet[p].hora)
            /\ cot'[c].origen = "cron" => Vencido(cot[c], now)
<1>1. IndInv /\ [Next]_vars => [EnPlazo]_vars
  <2> SUFFICES ASSUME IndInv, [Next]_vars, NEW c \in Cots, cot'[c].estado # cot[c].estado
               PROVE  /\ cot'[c].origen = "magic_link" =>
                        \E p \in Peticiones :
                            /\ En(p, "responder") /\ pet[p].token = cot[c].token
                            /\ ~Vencido(cot[c], pet[p].hora)
                      /\ cot'[c].origen = "cron" => Vencido(cot[c], now)
      OBVIOUS
  <2>1. \/ Nace(c) \/ Expira(c)
        \/ \E p \in Peticiones : Responde(c, p) \/ Marca(c, p)
      BY PasoDeVida DEF IndInv, Paso, CambiaUno, Intacto
  <2>2. CASE Nace(c)
      BY <2>2 DEF Nace, IndInv, ProcedenciaCoherente
  <2>3. CASE Expira(c)
      BY <2>3 DEF Expira
  <2>4. ASSUME NEW p \in Peticiones, Responde(c, p)
        PROVE  /\ cot'[c].origen = "magic_link" /\ En(p, "responder")
               /\ pet[p].token = cot[c].token /\ ~Vencido(cot[c], pet[p].hora)
      BY <2>4 DEF Responde
  <2>5. ASSUME NEW p \in Peticiones, Marca(c, p)
        PROVE  cot'[c].origen = "usuario"
      BY <2>5 DEF Marca
  <2> QED
      BY <2>1, <2>2, <2>3, <2>4, <2>5
<1> QED
    BY <1>1, Inductiva, PTL DEF Spec, PlazoRespetado

\* The requests, interleaved in any way, implement CicloCotizacion.
THEOREM CumpleElCiclo == Spec => CicloCumplido
<1>1. Init => Ciclo!Init
    BY DEF Init, Ciclo!Init
<1>2. IndInv /\ [Next]_vars => [Ciclo!Next]_(Ciclo!ciclo)
  <2> SUFFICES ASSUME IndInv, [Next]_vars PROVE [Ciclo!Next]_(Ciclo!ciclo)
      OBVIOUS
  <2>1. CASE \A c \in Cots : Intacto(c)
      BY <2>1 DEF Intacto, Ciclo!ciclo
  <2>2. ASSUME NEW c \in Cots, CambiaUno(c) PROVE Ciclo!Next
    <3>1. \A e, o : (cot'[c].estado = e /\ cot'[c].origen = o) => Ciclo!Mover(c, e, o)
        BY <2>2 DEF CambiaUno, Ciclo!Mover
    <3>2. CASE Nace(c)
        BY <3>1, <3>2 DEF Nace, Ciclo!Next, Ciclo!Nacer, IndInv, ProcedenciaCoherente
    <3>3. CASE Expira(c)
        BY <3>1, <3>3 DEF Expira, Ciclo!Next, Ciclo!Expirar
    <3>4. CASE \E p \in Peticiones : Responde(c, p)
        BY <3>1, <3>4 DEF Responde, Decisiones, Ciclo!Decisiones, Ciclo!Next, Ciclo!Responder
    <3>5. CASE \E p \in Peticiones : Marca(c, p)
        BY <3>1, <3>5 DEF Marca, Estados, Ciclo!Estados, Ciclo!Next, Ciclo!CambiarManual
    <3> QED
        BY <2>2, <3>2, <3>3, <3>4, <3>5 DEF CambiaUno
  <2> QED
      BY <2>1, <2>2, PasoDeVida DEF IndInv, Paso
<1> QED
    BY <1>1, <1>2, Inductiva, PTL DEF Spec, CicloCumplido, Ciclo!Spec
-----------------------------------------------------------------------------
(* The manual changes under way.  The read of cambiarEstadoManual is the     *)
(* only step that begins one, and until its write it keeps the quotation and *)
(* the state it read.                                                        *)

\* What a step does to request p: it is in no manual change after it, goes on
\* with the one it was in, or begins one by reading the document.
Ajena(r) == r.pc \notin {"fechar", "cambiar"}

Continua(p, r) == EnCambio(p) /\ r.cot = pet[p].cot /\ r.leido = pet[p].leido

Empieza(p, r) == ~EnCambio(p) /\ UNCHANGED cot /\ r.leido = cot[r.cot].estado

\* cambiarEstadoManual begins with the state it read.
LEMMA CambioEmpieza ==
    ASSUME NEW p, NEW c, NEW destino, NEW fecha, NEW resto,
           ~EnCambio(p), UNCHANGED cot
    PROVE  \/ Ajena(Cambio(c, destino, fecha, resto))
           \/ Empieza(p, Cambio(c, destino, fecha, resto))
<1>1. CASE cot[c].estado = destino
    BY <1>1 DEF Cambio, Libre, Ajena
<1>2. CASE cot[c].estado # destino
    BY <1>2 DEF Cambio, Empieza
<1> QED
    BY <1>1, <1>2

\* In a step every request stays where it is, ends or goes on with its change,
\* or begins one with what is stored.
LEMMA PasoDeCambio ==
    TypeOK /\ [Next]_vars =>
        \A p \in Peticiones : \/ pet'[p] = pet[p] \/ Ajena(pet'[p])
                              \/ Continua(p, pet'[p]) \/ Empieza(p, pet'[p])
<1> SUFFICES ASSUME TypeOK, [Next]_vars
             PROVE  \A p \in Peticiones : \/ pet'[p] = pet[p] \/ Ajena(pet'[p])
                                          \/ Continua(p, pet'[p]) \/ Empieza(p, pet'[p])
    OBVIOUS
<1>0. /\ \A p \in Procesos : pet[p] \in Peticion
      /\ Peticiones \subseteq Procesos /\ DOMAIN pet = Procesos
    BY DEF TypeOK, Procesos
<1>1. ASSUME NEW q \in Procesos, NEW r, Seguir(q, r),
             Ajena(r) \/ Continua(q, r) \/ Empieza(q, r)
      PROVE  \A p \in Peticiones : \/ pet'[p] = pet[p] \/ Ajena(pet'[p])
                                   \/ Continua(p, pet'[p]) \/ Empieza(p, pet'[p])
    BY <1>0, <1>1 DEF Seguir
<1>2. Ajena(Libre)
    BY DEF Ajena, Libre
<1>3. CASE UNCHANGED pet
    BY <1>3
<1>4. ASSUME NEW p \in Peticiones, NEW c \in Cots,
             CambiarLee(p, c) \/ UpdateLee(p, c) \/ ResponderLee(p, c) \/ EnviarLee(p, c)
      PROVE  \E r : Seguir(p, r) /\ (Ajena(r) \/ Continua(p, r) \/ Empieza(p, r))
  <2>0. ~EnCambio(p)
        BY <1>4 DEF CambiarLee, UpdateLee, ResponderLee, EnviarLee, En, EnCambio
  <2>1. CASE CambiarLee(p, c)
        BY <2>0, <2>1, CambioEmpieza DEF CambiarLee
  <2>2. CASE UpdateLee(p, c)
    <3>1. PICK r : /\ Seguir(p, r)
                   /\ \/ \E d, f : r = [pc |-> "leer", cot |-> c, destino |-> d, fecha |-> f]
                      \/ \E f : r = [pc |-> "restar", cot |-> c, resto |-> f]
          BY <2>2 DEF UpdateLee
    <3> QED
          BY <3>1 DEF Ajena
  <2>3. CASE ResponderLee(p, c)
    <3>1. PICK d : Seguir(p, [pc |-> "responder", token |-> cot[c].token,
                              decision |-> d, hora |-> now])
          BY <2>3 DEF ResponderLee
    <3> QED
          BY <3>1 DEF Ajena
  <2>4. CASE EnviarLee(p, c)
    <3>1. PICK v : Seguir(p, [pc |-> "emitir", cot |-> c, vence |-> v])
          BY <2>4 DEF EnviarLee
    <3> QED
          BY <3>1 DEF Ajena
  <2> QED
        BY <1>4, <2>1, <2>2, <2>3, <2>4
<1>5. ASSUME NEW p \in Peticiones,
             UpdateRelee(p) \/ CambiarFecha(p) \/ CambiarEscribe(p) \/ UpdateEscribe(p)
      PROVE  \E r : Seguir(p, r) /\ (Ajena(r) \/ Continua(p, r) \/ Empieza(p, r))
  <2>1. CASE UpdateRelee(p)
    <3>1. ~EnCambio(p)
          BY <2>1 DEF UpdateRelee, En, EnCambio
    <3> QED
          BY <2>1, <3>1, CambioEmpieza DEF UpdateRelee
  <2>2. CASE CambiarFecha(p)
    <3> DEFINE r == pet[p]
    <3>1. r \in [pc : {"fechar", "cambiar"}, cot : Cots, leido : Estados,
                 destino : Estados, fecha : Nat, resto : Nat]
          BY <1>0, <2>2 DEF CambiarFecha, En, Peticion
    <3>2. EnCambio(p)
          BY <2>2 DEF CambiarFecha, En, EnCambio
    <3>3. \A v : Continua(p, [r EXCEPT !.pc = "cambiar", !.fecha = v])
          BY <3>1, <3>2 DEF Continua
    <3> QED
          BY <1>2, <2>2, <3>3 DEF CambiarFecha
  <2>3. CASE CambiarEscribe(p)
    <3>1. \A c, n : Ajena([pc |-> "restar", cot |-> c, resto |-> n])
          BY DEF Ajena
    <3> QED
          BY <1>2, <2>3, <3>1 DEF CambiarEscribe
  <2>4. CASE UpdateEscribe(p)
        BY <1>2, <2>4 DEF UpdateEscribe
  <2> QED
        BY <1>5, <2>1, <2>2, <2>3, <2>4
<1>6. ASSUME NEW p \in Peticiones,
             \/ ResponderEscribe(p) \/ Avisar(p) \/ EmitirToken(p)
             \/ SmtpAcepta(p) \/ SmtpFalla(p) \/ Limpiar(p)
      PROVE  \E r : Seguir(p, r) /\ Ajena(r)
  <2>1. CASE ResponderEscribe(p)
    <3>1. \A c : Ajena([pc |-> "avisar", cot |-> c])
          BY DEF Ajena
    <3> QED
          BY <1>2, <2>1, <3>1 DEF ResponderEscribe
  <2>2. CASE EmitirToken(p)
    <3>1. \A c, t, v : Ajena([pc |-> "enviar", cot |-> c, token |-> t, vence |-> v])
          BY DEF Ajena
    <3> QED
          BY <2>2, <3>1 DEF EmitirToken
  <2>3. CASE SmtpFalla(p)
    <3>1. pet[p] \in [pc : {"enviar", "limpiar"}, cot : Cots, token : Nat, vence : Nat]
          BY <1>0, <2>3 DEF SmtpFalla, En, Peticion
    <3>2. Ajena([pet[p] EXCEPT !.pc = "limpiar"])
          BY <3>1 DEF Ajena
    <3> QED
          BY <2>3, <3>2 DEF SmtpFalla
  <2> QED
        BY <1>2, <1>6, <2>1, <2>2, <2>3 DEF Avisar, SmtpAcepta, Limpiar
<1>7. ASSUME NEW p \in Procesos, BarrerInicia(p) \/ Abortar(p)
      PROVE  \E r : Seguir(p, r) /\ Ajena(r)
  <2>1. Ajena([pc |-> "barrer", hora |-> now, faltan |-> Cots])
        BY DEF Ajena
  <2> QED
        BY <1>2, <1>7, <2>1 DEF BarrerInicia, Abortar
<1>8. ASSUME NEW p \in Procesos, NEW c \in Cots, BarrerVisita(p, c)
      PROVE  \E r : Seguir(p, r) /\ Ajena(r)
  <2>1. pet[p] \in [pc : {"barrer"}, hora : Nat, faltan : SUBSET Cots]
        BY <1>0, <1>8 DEF BarrerVisita, En, Peticion
  <2>2. Ajena([pet[p] EXCEPT !.faltan = @ \ {c}])
        BY <2>1 DEF Ajena
  <2> QED
        BY <1>2, <1>8, <2>2 DEF BarrerVisita
<1> QED
    BY <1>0, <1>1, <1>3, <1>4, <1>5, <1>6, <1>7, <1>8 DEF Next, Crear, Tic, vars

\* What the record says of the changes under way stays true.
LEMMA NextLeidoAntes ==
    TypeOK /\ LeidoAntes /\ [NextCruces]_<<vars, cruces>> => LeidoAntes'
<1> SUFFICES ASSUME TypeOK, LeidoAntes, [NextCruces]_<<vars, cruces>>
             PROVE  LeidoAntes'
    OBVIOUS
<1>1. CASE UNCHANGED <<vars, cruces>>
    BY <1>1 DEF LeidoAntes, EnCambio, vars, cruces
<1>2. CASE NextCruces
  <2> SUFFICES ASSUME NEW p \in Peticiones, EnCambio(p)', p \notin reabiertas'
               PROVE  LET e == cot'[pet'[p].cot].estado IN
                      /\ (p \in respondidas' \/ e = "vigente") => pet'[p].leido = "vigente"
                      /\ p \in respondidas' => e # "vigente"
      BY DEF LeidoAntes
  <2>1. ~Ajena(pet'[p])
        BY DEF Ajena, EnCambio
  <2>2. \/ pet'[p] = pet[p] \/ Continua(p, pet'[p]) \/ Empieza(p, pet'[p])
        BY <1>2, <2>1, PasoDeCambio DEF NextCruces
  <2>3. CASE pet'[p] = pet[p] \/ Continua(p, pet'[p])
    <3> DEFINE c == pet[p].cot
    <3>1. /\ EnCambio(p) /\ p \in SiguenCambiando
          /\ pet'[p].cot = c /\ pet'[p].leido = pet[p].leido
          BY <2>3 DEF Continua, EnCambio, SiguenCambiando
    <3>2. p \notin reabiertas /\ ~Reabierta(c)
          BY <1>2, <3>1 DEF NextCruces, Anota
    <3>3. p \in respondidas' => p \in respondidas \/ Contestada(c)
          BY <1>2, <3>1 DEF NextCruces, Anota
    <3>4. /\ (p \in respondidas \/ cot[c].estado = "vigente") => pet[p].leido = "vigente"
          /\ p \in respondidas => cot[c].estado # "vigente"
          BY <3>1, <3>2 DEF LeidoAntes
    <3> QED
          BY <3>1, <3>2, <3>3, <3>4 DEF Reabierta, Contestada, Decisiones
  <2>4. CASE Empieza(p, pet'[p])
    <3>1. p \notin respondidas'
          BY <1>2, <2>4 DEF Empieza, NextCruces, Anota, SiguenCambiando
    <3> QED
          BY <2>4, <3>1 DEF Empieza
  <2> QED
        BY <2>2, <2>3, <2>4
<1> QED
    BY <1>1, <1>2

\* Only a manual change that read the decision of a customer replaces it, but
\* for one during which the quotation was opened again and answered alike.
THEOREM LaRespuestaNoSePisa == SpecCruces => RespuestaNoPisada
<1> DEFINE NoPisa ==
        \A c \in Cots :
            (cot[c].origen = "magic_link" /\ cot'[c].origen # "magic_link") =>
                \E p \in Peticiones :
                    /\ En(p, "cambiar") /\ ~En(p, "cambiar")'
                    /\ pet[p].cot = c /\ pet[p].leido = cot[c].estado
                    /\ p \in respondidas => p \in reabiertas
           Inv == IndInv /\ LeidoAntes
<1>1. InitCruces => Inv
  <2>1. InitCruces => LeidoAntes
        BY DEF InitCruces, Init, LeidoAntes, EnCambio, Libre, Procesos
  <2> QED
        BY <2>1, InitIndInv DEF InitCruces
<1>2. Inv /\ [NextCruces]_<<vars, cruces>> => Inv'
  <2>1. [NextCruces]_<<vars, cruces>> => [Next]_vars
        BY DEF NextCruces
  <2>2. IndInv => TypeOK
        BY DEF IndInv
  <2> QED
        BY <2>1, <2>2, NextIndInv, NextLeidoAntes
<1>3. Inv /\ [NextCruces]_<<vars, cruces>> => [NoPisa]_<<vars, cruces>>
  <2> SUFFICES ASSUME IndInv, LeidoAntes, NextCruces, NEW c \in Cots,
                      cot[c].origen = "magic_link", cot'[c].origen # "magic_link"
               PROVE  \E p \in Peticiones :
                        /\ En(p, "cambiar") /\ ~En(p, "cambiar")'
                        /\ pet[p].cot = c /\ pet[p].leido = cot[c].estado
                        /\ p \in respondidas => p \in reabiertas
      OBVIOUS
  <2>1. \/ Nace(c) \/ Expira(c)
        \/ \E p \in Peticiones : Responde(c, p) \/ Marca(c, p)
      BY PasoDeVida DEF IndInv, Paso, CambiaUno, Intacto, NextCruces
  <2>2. cot[c].estado \in Decisiones
      BY DEF IndInv, ProcedenciaCoherente
  <2>3. ~Nace(c) /\ ~Expira(c)
      BY <2>2 DEF Nace, Expira, Decisiones
  <2>4. ~(\E p \in Peticiones : Responde(c, p))
      BY DEF Responde
  <2>5. PICK p \in Peticiones : Marca(c, p)
      BY <2>1, <2>3, <2>4
  <2>6. p \in respondidas /\ p \notin reabiertas => pet[p].leido = "vigente"
      BY <2>5 DEF LeidoAntes, EnCambio, Marca, En
  <2> QED
      BY <2>2, <2>5, <2>6 DEF Marca, Decisiones
<1> QED
    BY <1>1, <1>2, <1>3, PTL DEF SpecCruces, RespuestaNoPisada
=============================================================================
