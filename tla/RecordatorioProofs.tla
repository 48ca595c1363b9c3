------------------------- MODULE RecordatorioProofs -------------------------
(* Theorems about Recordatorio, for any number of quotations, requests and *)
(* sweeps, and any recipes.                                                *)
EXTENDS Recordatorio, TLAPS

(* Documents and locals *)

\* A reminder that is there has the fields of the schema.
LEMMA Existente ==
    ASSUME NEW d \in Documento, d.estado # "ausente"
    PROVE  d \in [estado : Estados, everDisparado : BOOLEAN, fecha : Nat \ {0}]
BY DEF Documento, Ausente

\* Changing the state of a stored reminder, and its date or its flag, stores a
\* document of the schema.
LEMMA CambioDeEstado ==
    ASSUME NEW d \in Documento, d.estado # "ausente", NEW e \in Estados
    PROVE  /\ [d EXCEPT !.estado = e] \in Documento
           /\ \A f \in Nat \ {0} : [d EXCEPT !.estado = e, !.fecha = f] \in Documento
           /\ \A v \in BOOLEAN : [d EXCEPT !.estado = e, !.everDisparado = v] \in Documento
<1> DEFINE D == [estado : Estados, everDisparado : BOOLEAN, fecha : Nat \ {0}]
<1>1. d \in D
    BY Existente
<1>2. [d EXCEPT !.estado = e] \in D
    BY <1>1
<1>3. ASSUME NEW f \in Nat \ {0} PROVE [d EXCEPT !.estado = e, !.fecha = f] \in D
    BY <1>1
<1>4. ASSUME NEW v \in BOOLEAN PROVE [d EXCEPT !.estado = e, !.everDisparado = v] \in D
    BY <1>1
<1> QED
    BY <1>2, <1>3, <1>4 DEF Documento

\* What a request keeps after it computed the date.
LEMMA PutLocales ==
    ASSUME NEW r \in Put, r.pc # "libre"
    PROVE  r \in [pc : {"actualizar", "buscar", "insertar", "reintentar"},
                  cot : Cots, fecha : Nat \ {0}]
BY DEF Put, Libre

\* What a sweep keeps while it goes through its batch.
LEMMA BarridoLocales ==
    ASSUME NEW r \in Barrido
    PROVE  /\ r.pc = "recorrer" => r.lote \in SUBSET Cots
           /\ r.pc = "correo" => r.lote \in SUBSET Cots /\ r.cot \in Cots
BY DEF Barrido, Libre

\* A sweep goes on with a batch or ends.
LEMMA RestoTipo ==
    ASSUME NEW lote \in SUBSET Cots
    PROVE  Resto(lote) \in Barrido /\ Resto(lote).pc # "correo"
BY DEF Resto, Barrido, Libre

(* The steps, seen from the reminders, the emails and the sweeps *)

\* The ways in which the document of c changes.
Igual(c) == rec'[c] = rec[c]

Programa(c) ==
    /\ ~rec[c].everDisparado /\ rec'[c].everDisparado = FALSE
    /\ rec'[c].estado = "programado"

Cancela(c) ==
    /\ rec[c].estado \in {"programado", "disparado"}
    /\ rec'[c].estado = "cancelado"
    /\ rec'[c].everDisparado = rec[c].everDisparado

Cierra(c) ==
    /\ rec[c].estado = "disparado" /\ rec'[c].estado = "cerrado"
    /\ rec'[c].everDisparado = rec[c].everDisparado

Dispara(c) ==
    /\ Pendiente(c)
    /\ rec'[c].estado = "disparado" /\ rec'[c].everDisparado = TRUE

CambiaUno(c) ==
    /\ \A x \in Cots \ {c} : Igual(x)
    /\ Programa(c) \/ Cancela(c) \/ Cierra(c) \/ Dispara(c)

Quieto == \A c \in Cots : Igual(c)

\* The sweeps that are about to send stay so; only b may change.
Sigue(b) == \A a \in Barridos \ {b} : barrido'[a] = barrido[a]

\* A step fires c in sweep b, sends or drops the email of sweep b, or leaves
\* flags and emails alone.
Paso ==
    \/ \E b \in Barridos, c \in Cots :
        /\ CambiaUno(c) /\ Dispara(c) /\ Sigue(b) /\ UNCHANGED correos
        /\ barrido'[b].pc = "correo" /\ barrido'[b].cot = c
    \/ \E b \in Barridos :
        /\ Quieto /\ Sigue(b) /\ barrido'[b].pc # "correo"
        /\ \/ UNCHANGED correos
           \/ /\ barrido[b].pc = "correo"
              /\ correos' = [correos EXCEPT ![barrido[b].cot] = @ + 1]
    \/ /\ UNCHANGED <<barrido, correos>>
       /\ \/ Quieto
          \/ \E c \in Cots : CambiaUno(c) /\ ~Dispara(c)

-----------------------------------------------------------------------------
(* Types *)

\* The initial state is well typed.
LEMMA InitTypeOK == Init => TypeOK
BY DEF Init, TypeOK, Documento, Put, Barrido

\* Every round trip stores documents of the schema and keeps its locals typed.
LEMMA NextTypeOK == TypeOK /\ [Next]_vars => TypeOK'
<1> SUFFICES ASSUME TypeOK, [Next]_vars PROVE TypeOK'
    OBVIOUS
<1>0. /\ \A p \in Peticiones : put[p] \in Put
      /\ \A b \in Barridos : barrido[b] \in Barrido
      /\ \A c \in Cots : rec[c] \in Documento
    BY DEF TypeOK
<1>a. Libre \in Put /\ Libre \in Barrido
    BY DEF Put, Barrido
<1>b. ASSUME NEW p \in Peticiones, NEW r \in Put, SeguirPut(p, r)
      PROVE  put' \in [Peticiones -> Put]
    BY <1>b DEF SeguirPut, TypeOK
<1>c. ASSUME NEW b \in Barridos, NEW r \in Barrido, SeguirBarrido(b, r)
      PROVE  barrido' \in [Barridos -> Barrido]
    BY <1>c DEF SeguirBarrido, TypeOK
<1>1. ASSUME NEW p \in Peticiones, NEW c \in Cots, UpsertCalcula(p, c) PROVE TypeOK'
  <2>1. PICK d \in Plazos :
            SeguirPut(p, [pc |-> "actualizar", cot |-> c, fecha |-> now + d])
        BY <1>1 DEF UpsertCalcula, FechasDisparo
  <2>2. [pc |-> "actualizar", cot |-> c, fecha |-> now + d] \in Put
        BY PlazosAssumption DEF Put, TypeOK
  <2> QED
        BY <1>1, <1>b, <2>1, <2>2 DEF UpsertCalcula, TypeOK
<1>2. ASSUME NEW p \in Peticiones, UpsertActualiza(p) PROVE TypeOK'
  <2> DEFINE r == put[p]
  <2>1. r \in [pc : {"actualizar", "buscar", "insertar", "reintentar"},
               cot : Cots, fecha : Nat \ {0}]
        BY <1>0, <1>2, PutLocales DEF UpsertActualiza
  <2>2. CASE Permitido(r.cot)
    <3>1. [rec[r.cot] EXCEPT !.estado = "programado", !.fecha = r.fecha] \in Documento
          BY <1>0, <2>1, <2>2, CambioDeEstado DEF Permitido, Reprogramables, Estados
    <3>2. rec' = [rec EXCEPT ![r.cot] =
                    [rec[r.cot] EXCEPT !.estado = "programado", !.fecha = r.fecha]]
          BY <1>2, <2>1, <2>2 DEF UpsertActualiza, TypeOK
    <3>3. rec' \in [Cots -> Documento]
          BY <2>1, <3>1, <3>2 DEF TypeOK
    <3> QED
          BY <1>2, <1>a, <1>b, <2>2, <3>3 DEF UpsertActualiza, TypeOK
  <2>3. CASE ~Permitido(r.cot)
    <3>1. [r EXCEPT !.pc = "buscar"] \in Put
          BY <2>1 DEF Put
    <3> QED
          BY <1>2, <1>a, <1>b, <2>3, <3>1 DEF UpsertActualiza, TypeOK
  <2> QED
        BY <2>2, <2>3
<1>3. ASSUME NEW p \in Peticiones, UpsertBusca(p) PROVE TypeOK'
  <2>1. put[p] \in [pc : {"actualizar", "buscar", "insertar", "reintentar"},
                    cot : Cots, fecha : Nat \ {0}]
        BY <1>0, <1>3, PutLocales DEF UpsertBusca
  <2>2. [put[p] EXCEPT !.pc = "insertar"] \in Put
        BY <2>1 DEF Put
  <2> QED
        BY <1>3, <1>a, <1>b, <2>2 DEF UpsertBusca, TypeOK
<1>4. ASSUME NEW p \in Peticiones, UpsertInserta(p) PROVE TypeOK'
  <2> DEFINE r == put[p]
  <2>1. r \in [pc : {"actualizar", "buscar", "insertar", "reintentar"},
               cot : Cots, fecha : Nat \ {0}]
        BY <1>0, <1>4, PutLocales DEF UpsertInserta
  <2>2. [r EXCEPT !.pc = "reintentar"] \in Put
        BY <2>1 DEF Put
  <2>3. put' \in [Peticiones -> Put]
        BY <1>4, <1>a, <1>b, <2>2 DEF UpsertInserta
  <2>4. [estado |-> "programado", everDisparado |-> FALSE, fecha |-> r.fecha] \in Documento
        BY <2>1 DEF Documento, Estados
  <2>5. rec' \in [Cots -> Documento]
        BY <1>4, <2>1, <2>4 DEF UpsertInserta, TypeOK
  <2> QED
        BY <1>4, <2>3, <2>5 DEF UpsertInserta, TypeOK
<1>5. ASSUME NEW c \in Cots, Cancelar(c) \/ CancelarPorRepetir(c) \/ Cerrar(c)
      PROVE  TypeOK'
  <2>1. PICK e \in Estados : /\ rec[c].estado # "ausente"
                             /\ rec' = [rec EXCEPT ![c] = [rec[c] EXCEPT !.estado = e]]
                             /\ UNCHANGED <<now, put, barrido, correos>>
        BY <1>5 DEF Cancelar, CancelarPorRepetir, Cerrar, Pasar, Estados
  <2>2. rec' \in [Cots -> Documento]
        BY <1>0, <2>1, CambioDeEstado DEF TypeOK
  <2> QED
        BY <2>1, <2>2 DEF TypeOK
<1>6. ASSUME NEW b \in Barridos, NEW c \in Cots, Disparar(b, c) PROVE TypeOK'
  <2> DEFINE lote == barrido[b].lote \ {c}
  <2>1. lote \in SUBSET Cots
        BY <1>0, <1>6, BarridoLocales DEF Disparar
  <2>2. [pc |-> "correo", lote |-> lote, cot |-> c] \in Barrido /\ Resto(lote) \in Barrido
        BY <2>1, RestoTipo DEF Barrido
  <2>3. barrido' \in [Barridos -> Barrido]
        BY <1>6, <1>c, <2>2 DEF Disparar
  <2>4. CASE Pendiente(c)
    <3>1. [rec[c] EXCEPT !.estado = "disparado", !.everDisparado = TRUE] \in Documento
          BY <1>0, <2>4, CambioDeEstado DEF Pendiente, Estados
    <3>2. rec' \in [Cots -> Documento]
          BY <1>6, <2>4, <3>1 DEF Disparar, TypeOK
    <3> QED
          BY <1>6, <2>3, <3>2 DEF Disparar, TypeOK
  <2>5. CASE ~Pendiente(c)
        BY <1>6, <2>3, <2>5 DEF Disparar, TypeOK
  <2> QED
        BY <2>4, <2>5
<1>7. ASSUME NEW b \in Barridos, BarridoInicia(b) PROVE TypeOK'
  <2>1. Resto({c \in Cots : Pendiente(c)}) \in Barrido
        BY RestoTipo
  <2> QED
        BY <1>7, <1>c, <2>1 DEF BarridoInicia, TypeOK
<1>8. ASSUME NEW b \in Barridos, CorreoSale(b) \/ CorreoFalla(b) PROVE TypeOK'
  <2>1. barrido[b].lote \in SUBSET Cots /\ barrido[b].cot \in Cots
        BY <1>0, <1>8, BarridoLocales DEF CorreoSale, CorreoFalla
  <2>2. barrido' \in [Barridos -> Barrido]
        BY <1>8, <1>c, <2>1, RestoTipo DEF CorreoSale, CorreoFalla
  <2>3. correos' \in [Cots -> Nat]
        BY <1>8, <2>1 DEF CorreoSale, CorreoFalla, TypeOK
  <2> QED
        BY <1>8, <2>2, <2>3 DEF CorreoSale, CorreoFalla, TypeOK
<1>9. ASSUME NEW p \in Peticiones, AbortarPut(p) PROVE TypeOK'
    BY <1>9, <1>a, <1>b DEF AbortarPut, TypeOK
<1>10. ASSUME NEW b \in Barridos, AbortarBarrido(b) PROVE TypeOK'
    BY <1>10, <1>a, <1>c DEF AbortarBarrido, TypeOK
<1>11. CASE Tic
    BY <1>11 DEF Tic, TypeOK
<1>12. CASE UNCHANGED vars
    BY <1>12 DEF vars, TypeOK
<1> QED
    BY <1>1, <1>2, <1>3, <1>4, <1>5, <1>6, <1>7, <1>8, <1>9, <1>10, <1>11, <1>12 DEF Next

-----------------------------------------------------------------------------
(* The classification of the steps *)

\* Every step is one of those of Paso.
LEMMA PasoDeRecordatorio == TypeOK /\ [Next]_vars => Paso
<1> SUFFICES ASSUME TypeOK, [Next]_vars PROVE Paso
    OBVIOUS
<1>0. /\ \A b \in Barridos : barrido[b] \in Barrido
      /\ \A c \in Cots : rec[c] \in Documento
      /\ \A p \in Peticiones : put[p] \in Put
    BY DEF TypeOK
<1>1. CASE UNCHANGED <<rec, barrido, correos>>
    BY <1>1 DEF Paso, Quieto, Igual
<1>2. ASSUME NEW p \in Peticiones, UpsertActualiza(p) PROVE Paso
  <2> DEFINE c == put[p].cot
  <2>1. c \in Cots
        BY <1>0, <1>2, PutLocales DEF UpsertActualiza
  <2>2. CASE Permitido(c)
    <3>1. rec' = [rec EXCEPT ![c] =
                    [rec[c] EXCEPT !.estado = "programado", !.fecha = put[p].fecha]]
          BY <1>2, <2>1, <2>2 DEF UpsertActualiza, TypeOK
    <3>2. rec[c] \in [estado : Estados, everDisparado : BOOLEAN, fecha : Nat \ {0}]
          BY <1>0, <2>1, <2>2, Existente DEF Permitido, Reprogramables
    <3>3. Programa(c) /\ \A x \in Cots \ {c} : Igual(x)
          BY <2>1, <2>2, <3>1, <3>2 DEF Programa, Igual, TypeOK, Permitido
    <3>4. ~Dispara(c)
          BY <3>3 DEF Programa, Dispara
    <3> QED
          BY <1>2, <2>1, <3>3, <3>4 DEF Paso, CambiaUno, UpsertActualiza
  <2>3. CASE ~Permitido(c)
        BY <1>1, <1>2, <2>3 DEF UpsertActualiza
  <2> QED
        BY <2>2, <2>3
<1>3. ASSUME NEW p \in Peticiones, UpsertInserta(p) PROVE Paso
  <2> DEFINE c == put[p].cot
  <2>1. c \in Cots
        BY <1>0, <1>3, PutLocales DEF UpsertInserta
  <2>2. CASE rec[c].estado = "ausente"
    <3>1. rec' = [rec EXCEPT ![c] = [estado |-> "programado", everDisparado |-> FALSE,
                                     fecha |-> put[p].fecha]]
          BY <1>3, <2>2 DEF UpsertInserta
    <3>2. ~rec[c].everDisparado
          BY <1>0, <2>1, <2>2 DEF Documento, Ausente, Estados
    <3>3. Programa(c) /\ \A x \in Cots \ {c} : Igual(x)
          BY <2>1, <3>1, <3>2 DEF Programa, Igual, TypeOK
    <3>4. ~Dispara(c)
          BY <3>3 DEF Programa, Dispara
    <3> QED
          BY <1>3, <2>1, <3>3, <3>4 DEF Paso, CambiaUno, UpsertInserta
  <2>3. CASE rec[c].estado # "ausente"
        BY <1>1, <1>3, <2>3 DEF UpsertInserta
  <2> QED
        BY <2>2, <2>3
<1>4. ASSUME NEW c \in Cots, Cancelar(c) \/ CancelarPorRepetir(c) \/ Cerrar(c)
      PROVE  Paso
  <2>1. PICK e \in {"cancelado", "cerrado"} :
            /\ rec' = [rec EXCEPT ![c] = [rec[c] EXCEPT !.estado = e]]
            /\ e = "cancelado" => rec[c].estado \in {"programado", "disparado"}
            /\ e = "cerrado" => rec[c].estado = "disparado"
            /\ UNCHANGED <<now, put, barrido, correos>>
        BY <1>4 DEF Cancelar, CancelarPorRepetir, Cerrar, Pasar
  <2>2. rec[c] \in [estado : Estados, everDisparado : BOOLEAN, fecha : Nat \ {0}]
        BY <1>0, <2>1, Existente
  <2>3. /\ rec'[c].estado = e /\ rec'[c].everDisparado = rec[c].everDisparado
        /\ \A x \in Cots \ {c} : Igual(x)
        BY <2>1, <2>2 DEF Igual, TypeOK
  <2>4. (Cancela(c) \/ Cierra(c)) /\ ~Dispara(c)
        BY <2>1, <2>3 DEF Cancela, Cierra, Dispara
  <2> QED
        BY <2>1, <2>3, <2>4 DEF Paso, CambiaUno
<1>5. ASSUME NEW b \in Barridos, NEW c \in Cots, Disparar(b, c) PROVE Paso
  <2> DEFINE lote == barrido[b].lote \ {c}
  <2>1. lote \in SUBSET Cots
        BY <1>0, <1>5, BarridoLocales DEF Disparar
  <2>2. CASE Pendiente(c)
    <3>1. /\ rec' = [rec EXCEPT ![c] =
                        [rec[c] EXCEPT !.estado = "disparado", !.everDisparado = TRUE]]
          /\ barrido' = [barrido EXCEPT ![b] =
                            [pc |-> "correo", lote |-> lote, cot |-> c]]
          BY <1>5, <2>2 DEF Disparar, SeguirBarrido, TypeOK
    <3>2. rec[c] \in [estado : Estados, everDisparado : BOOLEAN, fecha : Nat \ {0}]
          BY <1>0, <2>2, Existente DEF Pendiente
    <3>3. Dispara(c) /\ \A x \in Cots \ {c} : Igual(x)
          BY <2>2, <3>1, <3>2 DEF Dispara, Igual, TypeOK
    <3>4. Sigue(b) /\ barrido'[b].pc = "correo" /\ barrido'[b].cot = c
          BY <3>1 DEF Sigue, TypeOK
    <3> QED
          BY <1>5, <3>3, <3>4 DEF Paso, CambiaUno, Disparar
  <2>3. CASE ~Pendiente(c)
    <3>1. barrido' = [barrido EXCEPT ![b] = Resto(lote)]
          BY <1>5, <2>3 DEF Disparar, SeguirBarrido
    <3>2. Sigue(b) /\ barrido'[b].pc # "correo"
          BY <2>1, <3>1, RestoTipo DEF Sigue, TypeOK
    <3> QED
          BY <1>5, <2>3, <3>2 DEF Paso, Quieto, Igual, Disparar
  <2> QED
        BY <2>2, <2>3
<1>6. ASSUME NEW b \in Barridos, NEW r, r.pc # "correo", SeguirBarrido(b, r),
             UNCHANGED rec,
             \/ UNCHANGED correos
             \/ /\ barrido[b].pc = "correo"
                /\ correos' = [correos EXCEPT ![barrido[b].cot] = @ + 1]
      PROVE  Paso
    BY <1>6 DEF SeguirBarrido, Paso, Quieto, Igual, Sigue, TypeOK
<1>7. Libre.pc # "correo"
    BY DEF Libre
<1>8. ASSUME NEW b \in Barridos,
             \/ BarridoInicia(b) \/ CorreoSale(b) \/ CorreoFalla(b) \/ AbortarBarrido(b)
      PROVE  Paso
  <2>1. CASE BarridoInicia(b)
        BY <1>6, <2>1, RestoTipo DEF BarridoInicia
  <2>2. CASE CorreoSale(b) \/ CorreoFalla(b)
    <3>1. barrido[b].lote \in SUBSET Cots
          BY <1>0, <2>2, BarridoLocales DEF CorreoSale, CorreoFalla
    <3> QED
          BY <1>6, <2>2, <3>1, RestoTipo DEF CorreoSale, CorreoFalla
  <2>3. CASE AbortarBarrido(b)
        BY <1>6, <1>7, <2>3 DEF AbortarBarrido
  <2> QED
        BY <1>8, <2>1, <2>2, <2>3
<1> QED
    BY <1>1, <1>2, <1>3, <1>4, <1>5, <1>8
    DEF Next, UpsertCalcula, UpsertBusca, AbortarPut, Tic, vars

-----------------------------------------------------------------------------
(* The inductive invariant *)

\* It holds at the start.
LEMMA InitIndInv == Init => IndInv
<1> SUFFICES ASSUME Init PROVE IndInv
    OBVIOUS
<1>1. BanderaCoherente
    BY DEF Init, BanderaCoherente, Ausente
<1>2. CorreoReservado
    BY DEF Init, CorreoReservado, Ausente, Libre
<1> QED
    BY <1>1, <1>2, InitTypeOK DEF IndInv

\* The flag is never lowered.
LEMMA BanderaFija ==
    ASSUME Paso, NEW c \in Cots, rec[c].everDisparado
    PROVE  rec'[c].everDisparado
BY DEF Paso, Quieto, Igual, CambiaUno, Programa, Cancela, Cierra, Dispara

\* Every step keeps flag and state in agreement.
LEMMA NextBandera == BanderaCoherente /\ Paso => BanderaCoherente'
<1> SUFFICES ASSUME BanderaCoherente, Paso, NEW c \in Cots
             PROVE  /\ rec'[c].estado \in {"disparado", "cerrado"} => rec'[c].everDisparado
                    /\ rec'[c].estado = "programado" => ~rec'[c].everDisparado
    BY DEF BanderaCoherente
<1>1. Igual(c) \/ Programa(c) \/ Cancela(c) \/ Cierra(c) \/ Dispara(c)
    BY DEF Paso, Quieto, CambiaUno
<1> QED
    BY <1>1 DEF BanderaCoherente, Igual, Programa, Cancela, Cierra, Dispara

\* Every step keeps the right to write with the sweep that fired: who fires
\* finds the flag down, so that nobody else has it and nothing has been sent.
LEMMA NextCorreo == IndInv /\ Paso /\ TypeOK' => CorreoReservado'
<1> SUFFICES ASSUME IndInv, Paso, TypeOK' PROVE CorreoReservado'
    OBVIOUS
<1>0. /\ \A c \in Cots : correos[c] \in Nat
      /\ \A b \in Barridos : barrido[b].pc = "correo" => barrido[b].cot \in Cots
    BY BarridoLocales DEF IndInv, TypeOK
<1>1. /\ \A c \in Cots : correos[c] <= (IF rec[c].everDisparado THEN 1 ELSE 0)
      /\ \A b \in Barridos : barrido[b].pc = "correo" =>
            /\ rec[barrido[b].cot].everDisparado
            /\ correos[barrido[b].cot] = 0
            /\ \A a \in Barridos \ {b} :
                barrido[a].pc = "correo" => barrido[a].cot # barrido[b].cot
    BY DEF IndInv, CorreoReservado
<1>2. \A c \in Cots : correos[c] <= 1
    BY <1>0, <1>1
<1>3. CASE \E b \in Barridos, c \in Cots :
            /\ CambiaUno(c) /\ Dispara(c) /\ Sigue(b) /\ UNCHANGED correos
            /\ barrido'[b].pc = "correo" /\ barrido'[b].cot = c
  <2>1. PICK b \in Barridos, c \in Cots :
            /\ CambiaUno(c) /\ Dispara(c) /\ Sigue(b) /\ UNCHANGED correos
            /\ barrido'[b].pc = "correo" /\ barrido'[b].cot = c
        BY <1>3
  <2>2. ~rec[c].everDisparado
        BY <2>1 DEF Dispara, Pendiente, IndInv, BanderaCoherente
  <2>3. correos[c] = 0 /\ rec'[c].everDisparado
        BY <1>0, <1>1, <2>1, <2>2 DEF Dispara
  <2>4. \A a \in Barridos : barrido[a].pc = "correo" => barrido[a].cot # c
        BY <1>1, <2>2
  <2>5. \A x \in Cots : correos'[x] <= (IF rec'[x].everDisparado THEN 1 ELSE 0)
        BY <1>0, <1>1, <2>1, <2>3 DEF CambiaUno, Igual
  <2>6. ASSUME NEW a \in Barridos, barrido'[a].pc = "correo"
        PROVE  /\ rec'[barrido'[a].cot].everDisparado
               /\ correos'[barrido'[a].cot] = 0
               /\ \A x \in Barridos \ {a} :
                    barrido'[x].pc = "correo" => barrido'[x].cot # barrido'[a].cot
    <3>1. CASE a = b
          BY <2>1, <2>3, <2>4, <3>1 DEF Sigue
    <3>2. CASE a # b
      <4>1. barrido'[a] = barrido[a] /\ barrido[a].cot \in Cots /\ barrido[a].cot # c
            BY <1>0, <2>1, <2>4, <2>6, <3>2 DEF Sigue
      <4> QED
            BY <1>1, <2>1, <2>6, <3>2, <4>1 DEF Sigue, CambiaUno, Igual
    <3> QED
          BY <3>1, <3>2
  <2> QED
        BY <2>5, <2>6 DEF CorreoReservado
<1>4. CASE \E b \in Barridos :
            /\ Quieto /\ Sigue(b) /\ barrido'[b].pc # "correo"
            /\ \/ UNCHANGED correos
               \/ /\ barrido[b].pc = "correo"
                  /\ correos' = [correos EXCEPT ![barrido[b].cot] = @ + 1]
  <2>1. PICK b \in Barridos :
            /\ Quieto /\ Sigue(b) /\ barrido'[b].pc # "correo"
            /\ \/ UNCHANGED correos
               \/ /\ barrido[b].pc = "correo"
                  /\ correos' = [correos EXCEPT ![barrido[b].cot] = @ + 1]
        BY <1>4
  <2>2. \A a \in Barridos \ {b} : barrido[a].pc = "correo" =>
            correos'[barrido[a].cot] = 0
        BY <1>0, <1>1, <2>1 DEF IndInv, TypeOK
  <2>3. \A x \in Cots : correos'[x] <= (IF rec'[x].everDisparado THEN 1 ELSE 0)
        BY <1>0, <1>1, <2>1 DEF Quieto, Igual, IndInv, TypeOK
  <2> QED
        BY <1>0, <1>1, <2>1, <2>2, <2>3 DEF CorreoReservado, Sigue, Quieto, Igual
<1>5. CASE UNCHANGED <<barrido, correos>>
  <2>1. \A c \in Cots : rec[c].everDisparado => rec'[c].everDisparado
        BY BanderaFija
  <2> QED
        BY <1>0, <1>1, <1>5, <2>1 DEF CorreoReservado
<1> QED
    BY <1>3, <1>4, <1>5 DEF Paso

\* Every step preserves the inductive invariant.
LEMMA NextIndInv == IndInv /\ [Next]_vars => IndInv'
<1> SUFFICES ASSUME IndInv, [Next]_vars PROVE IndInv'
    OBVIOUS
<1>1. TypeOK' /\ Paso
    BY NextTypeOK, PasoDeRecordatorio DEF IndInv
<1> QED
    BY <1>1, NextBandera, NextCorreo DEF IndInv

-----------------------------------------------------------------------------
(* What holds of every behaviour *)

\* The inductive invariant holds in every reachable state.
THEOREM Inductiva == Spec => []IndInv
BY InitIndInv, NextIndInv, PTL DEF Spec

\* Documents, requests and sweeps keep their types.
THEOREM TipoCorrecto == Spec => []TypeOK
<1>1. IndInv => TypeOK
    BY DEF IndInv
<1> QED
    BY <1>1, Inductiva, PTL

\* At most one email goes out about the reminder of a quotation, whatever
\* users, repetitions and overlapping sweeps do.
THEOREM UnCorreoPorCotizacion == Spec => []UnSoloCorreo
<1>1. IndInv => UnSoloCorreo
  <2> SUFFICES ASSUME IndInv, NEW c \in Cots PROVE correos[c] <= 1
      BY DEF UnSoloCorreo
  <2>1. correos[c] \in Nat /\ correos[c] <= (IF rec[c].everDisparado THEN 1 ELSE 0)
      BY DEF IndInv, TypeOK, CorreoReservado
  <2> QED
      BY <2>1
<1> QED
    BY <1>1, Inductiva, PTL

\* A sweep fires by the date and the state stored when it writes.
THEOREM DisparaEnFecha == Spec => DisparoEnFecha
<1> DEFINE EnFecha ==
        \A c \in Cots :
            (rec'[c].everDisparado /\ ~rec[c].everDisparado) => Pendiente(c)
<1>1. IndInv /\ [Next]_vars => [EnFecha]_vars
  <2> SUFFICES ASSUME IndInv, [Next]_vars, NEW c \in Cots,
                      rec'[c].everDisparado, ~rec[c].everDisparado
               PROVE  Pendiente(c)
      OBVIOUS
  <2>1. Igual(c) \/ Programa(c) \/ Cancela(c) \/ Cierra(c) \/ Dispara(c)
      BY PasoDeRecordatorio DEF IndInv, Paso, Quieto, CambiaUno
  <2> QED
      BY <2>1 DEF Igual, Programa, Cancela, Cierra, Dispara
<1> QED
    BY <1>1, Inductiva, PTL DEF Spec, DisparoEnFecha

\* Recordatorio implements CicloRecordatorio: it reaches the team once.
THEOREM CumpleElCiclo == Spec => CicloCumplido
<1> DEFINE Fase(d) == IF d.everDisparado THEN "avisado"
                      ELSE IF d.estado = "programado" THEN "armado" ELSE "quieto"
           fase == [c \in Cots |-> Fase(rec[c])]
<1>1. Init => Ciclo!Init
    BY DEF Init, Ciclo!Init, Ausente
<1>2. IndInv /\ [Next]_vars => [Ciclo!Next]_fase
  <2> SUFFICES ASSUME IndInv, [Next]_vars PROVE [Ciclo!Next]_fase
      OBVIOUS
  <2>1. CASE Quieto
      BY <2>1 DEF Quieto, Igual
  <2>2. ASSUME NEW c \in Cots, CambiaUno(c) PROVE [Ciclo!Next]_fase
    <3>1. fase' = [fase EXCEPT ![c] = Fase(rec'[c])]
        BY <2>2 DEF CambiaUno, Igual
    <3>2. CASE Fase(rec'[c]) = Fase(rec[c])
        BY <3>1, <3>2
    <3>3. CASE Fase(rec'[c]) # Fase(rec[c])
      <4>1. \/ Fase(rec[c]) = "quieto" /\ Fase(rec'[c]) = "armado"
            \/ Fase(rec[c]) = "armado" /\ Fase(rec'[c]) \in {"quieto", "avisado"}
          BY <2>2, <3>3 DEF CambiaUno, Programa, Cancela, Cierra, Dispara, Pendiente,
                            IndInv, BanderaCoherente
      <4> QED
          BY <3>1, <4>1 DEF Ciclo!Next, Ciclo!Armar, Ciclo!Desarmar, Ciclo!Avisar
    <3> QED
        BY <3>2, <3>3
  <2>3. Quieto \/ \E c \in Cots : CambiaUno(c)
      BY PasoDeRecordatorio DEF IndInv, Paso
  <2> QED
      BY <2>1, <2>2, <2>3
<1> QED
    BY <1>1, <1>2, Inductiva, PTL DEF Spec, CicloCumplido, Ciclo!Spec
=============================================================================
