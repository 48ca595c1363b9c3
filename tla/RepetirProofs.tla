--------------------------- MODULE RepetirProofs ---------------------------
(* Theorems about Repetir, for any original, any lines and catalogue, any  *)
(* requests and any bodies.                                                *)
EXTENDS Repetir, TLAPS

(* Locals *)

\* What a request in flight keeps.
Ficha ==
    [pc : Pasos, cuerpo : Cuerpos, linea : Nat, aviso : BOOLEAN,
     items : [Lineas -> Item \cup {Nada}], antes : Ciclo!Estados \cup {Nada}]

LEMMA Fichas ==
    /\ \A r \in Peticion : r.pc \in Pasos => r \in Ficha
    /\ \A r \in Peticion : r.pc \in Pasos \cup {"libre", "hecha"}
    /\ Ficha \subseteq Peticion
    /\ [pc |-> "hecha"] \in Peticion /\ [pc |-> "hecha"].pc = "hecha"
    /\ "libre" \notin Pasos /\ "hecha" \notin Pasos
BY DEF Peticion, Ficha, Pasos, PasosAntes, PasosDespues

\* A step that only moves on keeps the rest.
LEMMA Avances ==
    ASSUME NEW r \in Ficha, NEW x \in Pasos
    PROVE  /\ [r EXCEPT !.pc = x] \in Ficha
           /\ [r EXCEPT !.pc = x].pc = x
           /\ [r EXCEPT !.pc = x].cuerpo = r.cuerpo
           /\ [r EXCEPT !.pc = x].linea = r.linea
           /\ [r EXCEPT !.pc = x].aviso = r.aviso
           /\ [r EXCEPT !.pc = x].items = r.items
           /\ [r EXCEPT !.pc = x].antes = r.antes
BY DEF Ficha

Igual(p) ==
    /\ pet'[p].cuerpo = pet[p].cuerpo /\ pet'[p].linea = pet[p].linea
    /\ pet'[p].aviso = pet[p].aviso /\ pet'[p].items = pet[p].items
    /\ pet'[p].antes = pet[p].antes

Otras(p) == \A q \in Peticiones \ {p} : pet'[q] = pet[q]

LEMMA TrasAvanza ==
    ASSUME TypeOK, NEW p \in Peticiones, NEW x \in Pasos, pet[p].pc \in Pasos, Avanza(p, x)
    PROVE  /\ pet' \in [Peticiones -> Peticion] /\ Otras(p)
           /\ pet'[p].pc = x /\ Igual(p)
<1>1. pet[p] \in Ficha
    BY Fichas DEF TypeOK
<1>2. pet' = [pet EXCEPT ![p] = [pet[p] EXCEPT !.pc = x]]
    BY DEF Avanza
<1>3. [pet[p] EXCEPT !.pc = x] \in Ficha
    BY <1>1, Avances
<1>4. pet' \in [Peticiones -> Peticion] /\ Otras(p) /\ pet'[p] = [pet[p] EXCEPT !.pc = x]
    BY <1>2, <1>3, Fichas DEF TypeOK, Otras
<1> QED
    BY <1>1, <1>4, Avances DEF Igual

LEMMA TrasTermina ==
    ASSUME TypeOK, NEW p \in Peticiones, pet' = [pet EXCEPT ![p] = [pc |-> "hecha"]]
    PROVE  /\ pet' \in [Peticiones -> Peticion] /\ Otras(p) /\ pet'[p].pc = "hecha"
BY Fichas DEF TypeOK, Otras

-----------------------------------------------------------------------------
(* The lines *)

\* What the body asks a line to become.
Esperado(l, d) == IF Omitida(l, d) THEN Nada ELSE ItemDe(l, d)

LEMMA LineasSon ==
    /\ Len(ServicioDe) \in Nat /\ Lineas = 1..Len(ServicioDe)
    /\ \A l \in Lineas : ServicioDe[l] \in Servicios
BY ConstantsAssumption DEF Lineas

LEMMA ItemBien ==
    ASSUME NEW l \in Lineas, NEW d \in Cuerpos
    PROVE  ItemDe(l, d) \in Item
<1>1. d \in Cuerpo /\ ServicioDe[l] \in Servicios
    BY LineasSon, ConstantsAssumption
<1>2. d.sust[ServicioDe[l]] \in Servicios \cup {Nada}
    BY <1>1 DEF Cuerpo
<1>3. De(l, d) \in Servicios
    BY <1>1, <1>2 DEF De
<1> QED
    BY <1>3 DEF ItemDe, Item

\* What resolving a line leaves.
Resuelve(p) ==
    /\ pet[p].pc = "lineas" /\ pet[p].linea \in Lineas
    /\ \/ pet'[p].pc = "hecha"
       \/ /\ pet'[p].pc = "lineas" /\ pet'[p].cuerpo = pet[p].cuerpo
          /\ pet'[p].linea = pet[p].linea + 1
          /\ \/ /\ pet'[p].aviso = pet[p].aviso
                /\ pet'[p].items =
                    [pet[p].items EXCEPT ![pet[p].linea] = Esperado(pet[p].linea, pet[p].cuerpo)]
             \/ /\ pet'[p].aviso = pet[p].aviso /\ pet'[p].items = pet[p].items
                /\ Omitida(pet[p].linea, pet[p].cuerpo)
             \/ pet'[p].aviso /\ pet'[p].items = pet[p].items

LEMMA TrasLinea ==
    ASSUME TypeOK, NEW p \in Peticiones, ResuelveLinea(p)
    PROVE  pet' \in [Peticiones -> Peticion] /\ Otras(p) /\ Resuelve(p)
<1> DEFINE r == pet[p]
           d == r.cuerpo
           l == r.linea
           sigue == [r EXCEPT !.linea = l + 1]
<1>1. r \in Ficha /\ r.pc = "lineas" /\ l \in Lineas /\ d \in Cuerpos
    BY Fichas DEF TypeOK, ResuelveLinea, Pasos, PasosAntes, Ficha
<1>2. /\ sigue \in Ficha /\ sigue.pc = "lineas" /\ sigue.cuerpo = d /\ sigue.linea = l + 1
      /\ sigue.aviso = r.aviso /\ sigue.items = r.items
    BY <1>1 DEF Ficha
<1>3. CASE Omitida(l, d)
  <2>1. pet' = [pet EXCEPT ![p] = sigue]
        BY <1>3 DEF ResuelveLinea
  <2> QED
        BY <1>1, <1>2, <1>3, <2>1, Fichas DEF TypeOK, Otras, Resuelve
<1>4. CASE ~Omitida(l, d) /\ Resuelta(l, d)
  <2> DEFINE s == [sigue EXCEPT !.items[l] = ItemDe(l, d)]
  <2>1. pet' = [pet EXCEPT ![p] = s]
        BY <1>4 DEF ResuelveLinea
  <2>2. [sigue.items EXCEPT ![l] = ItemDe(l, d)] \in [Lineas -> Item \cup {Nada}]
        BY <1>1, <1>2, ItemBien DEF Ficha
  <2>3. /\ s \in Ficha /\ s.pc = "lineas" /\ s.cuerpo = d /\ s.linea = l + 1
        /\ s.aviso = r.aviso /\ s.items = [r.items EXCEPT ![l] = ItemDe(l, d)]
        BY <1>2, <2>2 DEF Ficha
  <2>4. pet' \in [Peticiones -> Peticion] /\ Otras(p) /\ pet'[p] = s
        BY <2>1, <2>3, Fichas DEF TypeOK, Otras
  <2> QED
        BY <1>1, <1>4, <2>3, <2>4 DEF Resuelve, Esperado
<1>5. CASE ~Omitida(l, d) /\ ~Resuelta(l, d) /\ Sustituida(l, d)
  <2>1. pet' = [pet EXCEPT ![p] = [pc |-> "hecha"]]
        BY <1>5 DEF ResuelveLinea
  <2> QED
        BY <1>1, <2>1, TrasTermina DEF Resuelve
<1>6. CASE ~Omitida(l, d) /\ ~Resuelta(l, d) /\ ~Sustituida(l, d)
  <2> DEFINE s == [sigue EXCEPT !.aviso = TRUE]
  <2>1. pet' = [pet EXCEPT ![p] = s]
        BY <1>6 DEF ResuelveLinea
  <2>2. /\ s \in Ficha /\ s.pc = "lineas" /\ s.cuerpo = d /\ s.linea = l + 1
        /\ s.aviso /\ s.items = r.items
        BY <1>2 DEF Ficha
  <2> QED
        BY <1>1, <2>1, <2>2, Fichas DEF TypeOK, Otras, Resuelve
<1> QED
    BY <1>3, <1>4, <1>5, <1>6

-----------------------------------------------------------------------------
(* The steps of a request, seen from the documents *)

Callado == UNCHANGED <<estado, origen, items, copia, rec, respuesta, mudas, rearmadas>>

\* Up to the copy nothing is written.
Antes(p) ==
    /\ pet[p].pc \in PasosAntes \cup {"libre"} /\ Callado
    /\ \/ pet'[p].pc = "hecha"
       \/ /\ pet'[p].pc \in {"lineas", "receta"} /\ pet'[p].linea = 1
          /\ ~pet'[p].aviso /\ pet'[p].items = SinItems
       \/ pet[p].pc = "receta" /\ pet'[p].pc = "lineas" /\ Igual(p)
       \/ Resuelve(p)
       \/ /\ pet[p].pc = "lineas" /\ pet'[p].pc = "guarda" /\ Igual(p)
          /\ pet[p].linea \notin Lineas /\ ~pet[p].aviso

\* The copy is a new quotation, whether or not the request learns of it.
Copia(p) ==
    /\ pet[p].pc = "guarda"
    /\ \E c \in Cots :
        /\ estado[c] = "ausente" /\ Ciclo!Nacer(c) /\ estado'[c] = "vigente"
        /\ items' = [items EXCEPT ![c] = pet[p].items]
        /\ \/ pet'[p].pc = "relee" /\ Igual(p) /\ copia' = [copia EXCEPT ![p] = c]
           \/ pet'[p].pc = "hecha" /\ UNCHANGED copia
        /\ \A x \in Cots \ {c} : estado'[x] = estado[x]
    /\ UNCHANGED <<rec, respuesta, mudas, rearmadas>>

\* A request that stops after its copy.
Corta(p) ==
    /\ pet[p].pc \in PasosDespues /\ pet'[p].pc = "hecha"
    /\ mudas' = mudas \cup {q \in {p} : pet[p].pc \in {"relee", "aviso"}}
    /\ UNCHANGED <<estado, origen, items, copia, rec, respuesta, rearmadas>>

Ve(p) == pet[p].pc = "relee" /\ pet'[p].pc = "aviso" /\ Igual(p) /\ Callado

\* The reminder of the original is cancelled, or that failed.
Calla(p) ==
    /\ pet[p].pc = "aviso" /\ pet'[p].pc \in {"rearma", "lee"} /\ Igual(p)
    /\ \/ rec'[Original].estado # "programado"
       \/ p \in mudas' /\ UNCHANGED <<rec, rearmadas>>
    /\ mudas \subseteq mudas'
    /\ UNCHANGED <<estado, origen, items, copia, respuesta>>

\* That of the copy is armed.
Arma(p) ==
    /\ pet[p].pc = "rearma" /\ pet'[p].pc = "lee" /\ Igual(p)
    /\ copia[p] # Original => rec'[Original] = rec[Original]
    /\ UNCHANGED <<estado, origen, items, copia, respuesta, mudas, rearmadas>>

\* The original is cancelled, and the request answers.
PasosFin == {"lee", "cambiaLee", "cambiaEscribe", "confirma"}

Cancela ==
    /\ Original \in Cots /\ Ciclo!Mover(Original, "cancelada", "usuario")
    /\ estado'[Original] = "cancelada"
    /\ \A x \in Cots \ {Original} : estado'[x] = estado[x]

Fin(p) ==
    /\ pet[p].pc \in PasosFin
    /\ \/ pet'[p].pc = "hecha"
       \/ /\ pet'[p].pc \in PasosFin /\ pet'[p].cuerpo = pet[p].cuerpo
          /\ \/ pet'[p].antes = pet[p].antes /\ pet'[p].pc # "cambiaEscribe"
             \/ pet'[p].antes = estado[Original] /\ estado[Original] # "cancelada"
    /\ \/ UNCHANGED <<estado, origen>>
       \/ Cancela /\ pet[p].pc = "cambiaEscribe" /\ pet[p].antes = estado[Original]
    /\ respuesta'[p] = "si" => respuesta[p] = "si" \/ estado'[Original] = "cancelada"
    /\ \A q \in Peticiones \ {p} : respuesta'[q] = respuesta[q]
    /\ UNCHANGED <<items, copia, rec, mudas, rearmadas>>

PasoDe(p) ==
    /\ Otras(p)
    /\ Antes(p) \/ Copia(p) \/ Corta(p) \/ Ve(p) \/ Calla(p) \/ Arma(p) \/ Fin(p)

\* The types of what a step writes.
Tipado ==
    /\ estado \in [Cots -> Ciclo!Estados \cup {"ausente"}]
    /\ origen \in [Cots -> {"ninguno", "usuario", "magic_link", "cron"}]
    /\ items \in [Cots -> [Lineas -> Item \cup {Nada}]]
    /\ rec \in [Cots -> Recordatorio]
    /\ servicio \in [Servicios -> {"activo", "inactivo", "ajeno"}]
    /\ pet \in [Peticiones -> Peticion]
    /\ copia \in [Peticiones -> Cots \cup {Nada}]
    /\ respuesta \in [Peticiones -> {"ninguna", "si", "no"}]
    /\ mudas \subseteq Peticiones
    /\ rearmadas \in BOOLEAN

\* Up to the copy.
LEMMA SonAntes ==
    ASSUME TypeOK, NEW p \in Peticiones,
           \/ \E d \in Cuerpos : Pedir(p, d)
           \/ LeeReceta(p) \/ ResuelveLinea(p) \/ Valida(p)
           \/ Falla(p) /\ pet[p].pc \in PasosAntes
    PROVE  Tipado' /\ PasoDe(p)
<1>1. ASSUME NEW d \in Cuerpos, Pedir(p, d) PROVE Tipado' /\ PasoDe(p)
  <2> DEFINE r == [pc |-> IF d.rearmar = "copia" THEN "receta" ELSE "lineas", cuerpo |-> d,
                   linea |-> 1, aviso |-> FALSE, items |-> SinItems, antes |-> Nada]
  <2>1. r \in Ficha /\ r.pc \in {"lineas", "receta"} /\ r.linea = 1 /\ ~r.aviso
        /\ r.items = SinItems
        BY DEF Ficha, Pasos, PasosAntes, SinItems
  <2>2. pet' \in [Peticiones -> Peticion] /\ Otras(p) /\ pet'[p] = r
        BY <1>1, <2>1, Fichas DEF Pedir, TypeOK, Otras
  <2> QED
        BY <1>1, <2>1, <2>2
        DEF Pedir, documentos, historia, Callado, Antes, PasoDe, TypeOK, Tipado
<1>2. ASSUME LeeReceta(p) PROVE Tipado' /\ PasoDe(p)
  <2>1. /\ pet' \in [Peticiones -> Peticion] /\ Otras(p)
        /\ (pet'[p].pc = "lineas" /\ Igual(p)) \/ pet'[p].pc = "hecha"
        /\ UNCHANGED respuesta
        BY <1>2, TrasAvanza, TrasTermina
        DEF LeeReceta, Termina, Pasos, PasosAntes
  <2> QED
        BY <1>2, <2>1
        DEF LeeReceta, documentos, historia, Callado, Antes, PasosAntes, PasoDe, TypeOK, Tipado
<1>3. ASSUME ResuelveLinea(p) PROVE Tipado' /\ PasoDe(p)
    BY <1>3, TrasLinea
    DEF ResuelveLinea, documentos, historia, Callado, Antes, PasosAntes, PasoDe, TypeOK, Tipado
<1>4. ASSUME Valida(p) PROVE Tipado' /\ PasoDe(p)
  <2>1. /\ pet' \in [Peticiones -> Peticion] /\ Otras(p)
        /\ (pet'[p].pc = "guarda" /\ Igual(p) /\ ~pet[p].aviso) \/ pet'[p].pc = "hecha"
        /\ UNCHANGED respuesta
        BY <1>4, TrasAvanza, TrasTermina DEF Valida, Termina, Pasos, PasosAntes
  <2> QED
        BY <1>4, <2>1
        DEF Valida, documentos, historia, Callado, Antes, PasosAntes, PasoDe, TypeOK, Tipado
<1>5. ASSUME Falla(p), pet[p].pc \in PasosAntes PROVE Tipado' /\ PasoDe(p)
  <2>1. pet' \in [Peticiones -> Peticion] /\ Otras(p) /\ pet'[p].pc = "hecha"
        BY <1>5, TrasTermina DEF Falla, Termina
  <2>2. mudas' = mudas /\ UNCHANGED respuesta
        BY <1>5 DEF Falla, Termina, PasosAntes
  <2> QED
        BY <1>5, <2>1, <2>2 DEF Falla, documentos, Callado, Antes, PasoDe, TypeOK, Tipado
<1> QED
    BY <1>1, <1>2, <1>3, <1>4, <1>5

\* The copy and its reminders.
LEMMA SonDespues ==
    ASSUME TypeOK, NEW p \in Peticiones,
           \/ Guarda(p) \/ Relee(p) \/ CancelaAviso(p) \/ Rearma(p)
           \/ Falla(p) /\ pet[p].pc \in PasosDespues
    PROVE  Tipado' /\ PasoDe(p)
<1>1. ASSUME Guarda(p) PROVE Tipado' /\ PasoDe(p)
  <2>1. /\ pet' \in [Peticiones -> Peticion] /\ Otras(p) /\ UNCHANGED respuesta
        /\ (Avanza(p, "relee") /\ pet'[p].pc = "relee" /\ Igual(p))
           \/ (Termina(p) /\ pet'[p].pc = "hecha")
    <3>1. CASE Avanza(p, "relee") /\ UNCHANGED respuesta
          BY <1>1, <3>1, TrasAvanza DEF Guarda, Pasos, PasosAntes, PasosDespues
    <3>2. CASE Termina(p)
          BY <3>2, TrasTermina DEF Termina
    <3> QED
          BY <1>1, <3>1, <3>2 DEF Guarda
  <2>2. pet[p].items \in [Lineas -> Item \cup {Nada}]
        BY <1>1, Fichas DEF Guarda, TypeOK, Pasos, PasosAntes, Ficha
  <2>3. PICK c \in Cots :
            /\ Ciclo!Nacer(c)
            /\ items' = [items EXCEPT ![c] = pet[p].items]
            /\ \/ pet'[p].pc = "relee" /\ Igual(p) /\ copia' = [copia EXCEPT ![p] = c]
               \/ pet'[p].pc = "hecha" /\ UNCHANGED copia
    <3>1. PICK c \in Cots :
            /\ Ciclo!Nacer(c)
            /\ items' = [items EXCEPT ![c] = pet[p].items]
            /\ \/ copia' = [copia EXCEPT ![p] = c] /\ Avanza(p, "relee")
               \/ Termina(p) /\ UNCHANGED copia
          BY <1>1 DEF Guarda
    <3>2. Avanza(p, "relee") => pet'[p].pc = "relee" /\ Igual(p)
          BY <1>1, TrasAvanza DEF Guarda, Pasos, PasosAntes, PasosDespues
    <3>3. Termina(p) => pet'[p].pc = "hecha"
          BY TrasTermina DEF Termina
    <3> QED
          BY <3>1, <3>2, <3>3
  <2>4. /\ estado \in [Cots -> Ciclo!Estados \cup {"ausente"}]
        /\ estado[c] = "ausente"
        /\ estado' = [estado EXCEPT ![c] = "vigente"]
        /\ origen' = [origen EXCEPT ![c] = "ninguno"]
        BY <2>3 DEF Ciclo!Nacer, Ciclo!Mover, TypeOK
  <2>5. /\ estado' \in [Cots -> Ciclo!Estados \cup {"ausente"}] /\ estado'[c] = "vigente"
        /\ \A x \in Cots \ {c} : estado'[x] = estado[x]
        BY <2>4 DEF Ciclo!Estados
  <2>6. Tipado'
        BY <1>1, <2>1, <2>2, <2>3, <2>4, <2>5 DEF Guarda, historia, TypeOK, Tipado
  <2>7. Copia(p)
        BY <1>1, <2>1, <2>3, <2>4, <2>5 DEF Guarda, historia, Copia
  <2> QED
        BY <2>1, <2>6, <2>7 DEF PasoDe
<1>2. ASSUME Relee(p) PROVE Tipado' /\ PasoDe(p)
  <2>1. pet' \in [Peticiones -> Peticion] /\ Otras(p) /\ pet'[p].pc = "aviso" /\ Igual(p)
        BY <1>2, TrasAvanza DEF Relee, Pasos, PasosDespues
  <2> QED
        BY <1>2, <2>1 DEF Relee, documentos, historia, Callado, Ve, PasoDe, TypeOK, Tipado
<1>3. ASSUME CancelaAviso(p) PROVE Tipado' /\ PasoDe(p)
  <2>1. TrasAviso(pet[p].cuerpo) \in {"rearma", "lee"}
        BY DEF TrasAviso
  <2>2. /\ pet' \in [Peticiones -> Peticion] /\ Otras(p) /\ Igual(p)
        /\ pet'[p].pc \in {"rearma", "lee"}
        BY <1>3, <2>1, TrasAvanza DEF CancelaAviso, Pasos, PasosDespues
  <2>3. Original \in Cots /\ rec[Original] \in Recordatorio
        BY ConstantsAssumption DEF TypeOK
  <2>4. CASE /\ rec' = IF rec[Original].estado \in {"programado", "disparado"}
                       THEN [rec EXCEPT ![Original].estado = "cancelado"] ELSE rec
             /\ rearmadas' = FALSE /\ UNCHANGED mudas
    <3>1. /\ [rec[Original] EXCEPT !.estado = "cancelado"] \in Recordatorio
          /\ [rec[Original] EXCEPT !.estado = "cancelado"].estado = "cancelado"
          BY <2>3 DEF Recordatorio
    <3>2. rec' \in [Cots -> Recordatorio] /\ rec'[Original].estado # "programado"
          BY <2>3, <2>4, <3>1 DEF TypeOK
    <3> QED
          BY <1>3, <2>2, <2>4, <3>2 DEF CancelaAviso, documentos, Calla, PasoDe, TypeOK, Tipado
  <2>5. CASE mudas' = mudas \cup {p} /\ UNCHANGED <<rec, rearmadas>>
        BY <1>3, <2>2, <2>5 DEF CancelaAviso, documentos, Calla, PasoDe, TypeOK, Tipado
  <2> QED
        BY <1>3, <2>4, <2>5 DEF CancelaAviso
<1>4. ASSUME Rearma(p) PROVE Tipado' /\ PasoDe(p)
  <2>1. pet' \in [Peticiones -> Peticion] /\ Otras(p) /\ pet'[p].pc = "lee" /\ Igual(p)
        BY <1>4, TrasAvanza DEF Rearma, Pasos, PasosDespues
  <2>2. rec' \in [Cots -> Recordatorio]
        /\ (copia[p] # Original => rec'[Original] = rec[Original])
    <3>1. CASE UNCHANGED rec
          BY <3>1 DEF TypeOK
    <3>2. CASE rec' = [rec EXCEPT ![copia[p]].estado = "programado"]
      <4>1. \A c \in Cots : [rec[c] EXCEPT !.estado = "programado"] \in Recordatorio
            BY DEF TypeOK, Recordatorio
      <4> QED
            BY <3>2, <4>1, ConstantsAssumption DEF TypeOK
    <3> QED
          BY <1>4, <3>1, <3>2 DEF Rearma, Programado
  <2> QED
        BY <1>4, <2>1, <2>2
        DEF Rearma, documentos, historia, Arma, PasoDe, TypeOK, Tipado
<1>5. ASSUME Falla(p), pet[p].pc \in PasosDespues PROVE Tipado' /\ PasoDe(p)
  <2>1. pet' \in [Peticiones -> Peticion] /\ Otras(p) /\ pet'[p].pc = "hecha"
        BY <1>5, TrasTermina DEF Falla, Termina
  <2> QED
        BY <1>5, <2>1 DEF Falla, Termina, documentos, Corta, PasoDe, TypeOK, Tipado
<1> QED
    BY <1>1, <1>2, <1>3, <1>4, <1>5

\* The original.
LEMMA Originales ==
    ASSUME TypeOK, Ciclo!Mover(Original, "cancelada", "usuario")
    PROVE  /\ Cancela
           /\ estado' \in [Cots -> Ciclo!Estados \cup {"ausente"}]
           /\ origen' \in [Cots -> {"ninguno", "usuario", "magic_link", "cron"}]
BY ConstantsAssumption DEF TypeOK, Cancela, Ciclo!Mover, Ciclo!Estados

LEMMA SonFin ==
    ASSUME TypeOK, estado[Original] # "ausente", NEW p \in Peticiones,
           \/ LeeOriginal(p) \/ CambiaLee(p) \/ CambiaEscribe(p) \/ Confirma(p)
           \/ FallaCambio(p)
    PROVE  Tipado' /\ PasoDe(p)
<1> USE DEF documentos, historia, Pasos, PasosDespues, PasosFin, PasoDe
<1> DEFINE Resto == /\ UNCHANGED <<items, copia, rec, servicio, mudas, rearmadas>>
<1>1. ASSUME NEW r \in {"si", "no"}, Responde(p, r)
      PROVE  /\ pet' \in [Peticiones -> Peticion] /\ Otras(p) /\ pet'[p].pc = "hecha"
             /\ respuesta' \in [Peticiones -> {"ninguna", "si", "no"}] /\ respuesta'[p] = r
             /\ \A q \in Peticiones \ {p} : respuesta'[q] = respuesta[q]
    BY <1>1, TrasTermina DEF Responde, TypeOK
<1>2. ASSUME NEW x \in PasosFin, x # "cambiaEscribe", pet[p].pc \in PasosFin,
             Avanza(p, x), UNCHANGED respuesta
      PROVE  /\ pet' \in [Peticiones -> Peticion] /\ Otras(p) /\ pet'[p].pc = x
             /\ Igual(p)
             /\ respuesta' \in [Peticiones -> {"ninguna", "si", "no"}]
             /\ \A q \in Peticiones : respuesta'[q] = respuesta[q]
    BY <1>2, TrasAvanza DEF TypeOK
<1>3. ASSUME pet[p].pc \in PasosFin, Resto, UNCHANGED <<estado, origen>>,
             \/ Avanza(p, "cambiaLee") /\ UNCHANGED respuesta
             \/ Avanza(p, "confirma") /\ UNCHANGED respuesta
             \/ Responde(p, "no")
             \/ Responde(p, "si") /\ estado[Original] = "cancelada"
      PROVE  Tipado' /\ PasoDe(p)
  <2>1. CASE Avanza(p, "cambiaLee") /\ UNCHANGED respuesta
        BY <1>2, <1>3, <2>1 DEF Fin, Igual, TypeOK, Tipado
  <2>2. CASE Avanza(p, "confirma") /\ UNCHANGED respuesta
        BY <1>2, <1>3, <2>2 DEF Fin, Igual, TypeOK, Tipado
  <2>3. CASE Responde(p, "no")
        BY <1>1, <1>3, <2>3 DEF Fin, TypeOK, Tipado
  <2>4. CASE Responde(p, "si") /\ estado[Original] = "cancelada"
        BY <1>1, <1>3, <2>4 DEF Fin, TypeOK, Tipado
  <2> QED
        BY <1>3, <2>1, <2>2, <2>3, <2>4
<1>4. ASSUME LeeOriginal(p) PROVE Tipado' /\ PasoDe(p)
    BY <1>3, <1>4 DEF LeeOriginal
<1>5. ASSUME CambiaLee(p) PROVE Tipado' /\ PasoDe(p)
  <2>1. CASE estado[Original] = "cancelada"
        BY <1>3, <1>5, <2>1 DEF CambiaLee
  <2>2. CASE estado[Original] # "cancelada"
    <3> DEFINE r == [pet[p] EXCEPT !.pc = "cambiaEscribe", !.antes = estado[Original]]
    <3>1. pet' = [pet EXCEPT ![p] = r]
          BY <1>5, <2>2 DEF CambiaLee
    <3>2. pet[p] \in Ficha
          BY <1>5, Fichas DEF CambiaLee, TypeOK
    <3>3. estado[Original] \in Ciclo!Estados
          BY ConstantsAssumption DEF TypeOK
    <3>4. /\ r \in Ficha /\ r.pc = "cambiaEscribe" /\ r.cuerpo = pet[p].cuerpo
          /\ r.antes = estado[Original]
          BY <3>2, <3>3 DEF Ficha, PasosAntes
    <3>5. pet' \in [Peticiones -> Peticion] /\ Otras(p) /\ pet'[p] = r
          BY <3>1, <3>4, Fichas DEF TypeOK, Otras
    <3>6. pet[p].pc = "cambiaLee" /\ Resto /\ UNCHANGED <<estado, origen, respuesta>>
          BY <1>5 DEF CambiaLee
    <3> HIDE DEF r
    <3>7. Fin(p)
          BY <2>2, <3>4, <3>5, <3>6 DEF Fin
    <3> QED
          BY <3>5, <3>6, <3>7 DEF TypeOK, Tipado
  <2> QED
        BY <2>1, <2>2
<1>6. ASSUME CambiaEscribe(p) PROVE Tipado' /\ PasoDe(p)
  <2>1. CASE Avanza(p, "confirma") /\ UNCHANGED <<estado, origen, respuesta>>
        BY <1>3, <1>6, <2>1 DEF CambiaEscribe
  <2>2. CASE /\ estado[Original] = pet[p].antes
             /\ Ciclo!Mover(Original, "cancelada", "usuario")
             /\ Responde(p, "si") \/ (Avanza(p, "confirma") /\ UNCHANGED respuesta)
    <3>1. /\ Cancela
          /\ estado' \in [Cots -> Ciclo!Estados \cup {"ausente"}]
          /\ origen' \in [Cots -> {"ninguno", "usuario", "magic_link", "cron"}]
          BY <2>2, Originales
    <3>2. pet[p].pc = "cambiaEscribe" /\ Resto
          BY <1>6 DEF CambiaEscribe
    <3>3. CASE Responde(p, "si")
          BY <1>1, <2>2, <3>1, <3>2, <3>3 DEF Fin, Cancela, TypeOK, Tipado
    <3>4. CASE Avanza(p, "confirma") /\ UNCHANGED respuesta
          BY <1>2, <2>2, <3>1, <3>2, <3>4 DEF Fin, Igual, Cancela, TypeOK, Tipado
    <3> QED
          BY <2>2, <3>3, <3>4
  <2> QED
        BY <1>6, <2>1, <2>2 DEF CambiaEscribe
<1>7. ASSUME Confirma(p) PROVE Tipado' /\ PasoDe(p)
    BY <1>3, <1>7 DEF Confirma
<1>8. ASSUME FallaCambio(p) PROVE Tipado' /\ PasoDe(p)
    BY <1>3, <1>8 DEF FallaCambio
<1> QED
    BY <1>4, <1>5, <1>6, <1>7, <1>8

-----------------------------------------------------------------------------
(* Steps *)

\* A step of others: requests and copies stay, nothing disappears, and only a
\* user arms the reminder of the original.
DeOtros ==
    /\ UNCHANGED <<pet, copia, items, respuesta, mudas>>
    /\ Ciclo!Next \/ UNCHANGED <<estado, origen>>
    /\ \A x \in Cots : estado[x] # "ausente" => estado'[x] # "ausente"
    /\ rec'[Original].estado = "programado" =>
            rec[Original].estado = "programado" \/ rearmadas'
    /\ rearmadas => rearmadas'

LEMMA CiclosAjenos ==
    ASSUME TypeOK, NEW c \in Cots, OtroCiclo(c)
    PROVE  Tipado' /\ DeOtros
<1>1. PICK e \in Ciclo!Estados, o \in {"usuario", "magic_link", "cron"} : Ciclo!Mover(c, e, o)
    BY DEF OtroCiclo, Ciclo!Responder, Ciclo!Expirar, Ciclo!CambiarManual, Ciclo!Decisiones,
           Ciclo!Estados
<1>2. /\ estado' \in [Cots -> Ciclo!Estados \cup {"ausente"}]
      /\ origen' \in [Cots -> {"ninguno", "usuario", "magic_link", "cron"}]
      /\ \A x \in Cots : estado[x] # "ausente" => estado'[x] # "ausente"
    BY <1>1 DEF TypeOK, Ciclo!Mover, Ciclo!Estados
<1> QED
    BY <1>2 DEF OtroCiclo, Ciclo!Next, historia, DeOtros, TypeOK, Tipado

LEMMA RecordatoriosAjenos ==
    ASSUME TypeOK, NEW c \in Cots, OtroRecordatorio(c)
    PROVE  Tipado' /\ DeOtros
<1>1. /\ Original \in Cots /\ rec[c] \in Recordatorio
      /\ \A e \in {"programado", "cancelado", "disparado", "cerrado"}, b \in BOOLEAN :
            /\ [rec[c] EXCEPT !.estado = e] \in Recordatorio
            /\ [rec[c] EXCEPT !.estado = e].estado = e
            /\ [rec[c] EXCEPT !.estado = e, !.avisado = b] \in Recordatorio
            /\ [rec[c] EXCEPT !.estado = e, !.avisado = b].estado = e
  <2>1. Original \in Cots /\ rec[c] \in Recordatorio
        BY ConstantsAssumption DEF TypeOK
  <2> QED
        BY <2>1 DEF Recordatorio
<1> USE DEF documentos, DeOtros, TypeOK, Tipado
<1>2. CASE rec' = Programado(c) /\ rearmadas' = (rearmadas \/ c = Original)
    BY <1>1, <1>2 DEF OtroRecordatorio, Programado
<1>3. CASE /\ \/ rec' = [rec EXCEPT ![c].estado = "cancelado"]
              \/ rec' = [rec EXCEPT ![c].estado = "disparado", ![c].avisado = TRUE]
              \/ rec' = [rec EXCEPT ![c].estado = "cerrado"]
           /\ UNCHANGED rearmadas
  <2>1. /\ rec' \in [Cots -> Recordatorio]
        /\ rec'[Original].estado = "programado" => rec[Original].estado = "programado"
    <3>1. CASE rec' = [rec EXCEPT ![c].estado = "cancelado"]
          BY <1>1, <3>1
    <3>2. CASE rec' = [rec EXCEPT ![c].estado = "disparado", ![c].avisado = TRUE]
      <4>1. rec' = [rec EXCEPT ![c] = [@ EXCEPT !.estado = "disparado", !.avisado = TRUE]]
            BY <3>2
      <4> QED
            BY <1>1, <4>1
    <3>3. CASE rec' = [rec EXCEPT ![c].estado = "cerrado"]
          BY <1>1, <3>3
    <3> QED
          BY <1>3, <3>1, <3>2, <3>3
  <2> QED
        BY <1>3, <2>1 DEF OtroRecordatorio
<1> QED
    BY <1>2, <1>3 DEF OtroRecordatorio

LEMMA CatalogoAjeno ==
    ASSUME TypeOK, NEW s \in Servicios, OtroCatalogo(s)
    PROVE  Tipado' /\ DeOtros
BY DEF OtroCatalogo, documentos, historia, DeOtros, TypeOK, Tipado

\* What Next does to the history.
Cuenta ==
    hubo' = {p \in Peticiones :
        /\ pet'[p].pc \in PasosDespues \/ respuesta'[p] = "si"
        /\ p \in hubo \/ (pet[p].pc \in PasosDespues /\ estado'[Original] = "cancelada")}

\* A step is of one request or of others.
LEMMA Pasos1 ==
    ASSUME TypeOK, estado[Original] # "ausente", Next
    PROVE  TypeOK' /\ Cuenta /\ (DeOtros \/ \E p \in Peticiones : PasoDe(p))
<1>1. Cuenta /\ hubo' \subseteq Peticiones /\ ajenos' \in Nat
    BY DEF Next, Cuenta, TypeOK
<1>2. Tipado' /\ (DeOtros \/ \E p \in Peticiones : PasoDe(p))
  <2>1. CASE PasoPropio
    <3>1. PICK p \in Peticiones :
            \/ \E d \in Cuerpos : Pedir(p, d)
            \/ LeeReceta(p) \/ Valida(p) \/ Guarda(p) \/ Falla(p) \/ Relee(p)
            \/ ResuelveLinea(p) \/ CancelaAviso(p) \/ Rearma(p) \/ LeeOriginal(p)
            \/ CambiaLee(p) \/ CambiaEscribe(p) \/ Confirma(p) \/ FallaCambio(p)
          BY <2>1 DEF PasoPropio
    <3>2. Falla(p) => pet[p].pc \in PasosAntes \cup PasosDespues
          BY DEF Falla, Pasos
    <3> QED
          BY <3>1, <3>2, SonAntes, SonDespues, SonFin
  <2>2. CASE PasoAjeno
        BY <2>2, CiclosAjenos, RecordatoriosAjenos, CatalogoAjeno, ConstantsAssumption
        DEF PasoAjeno
  <2> QED
        BY <2>1, <2>2 DEF Next
<1> QED
    BY <1>1, <1>2 DEF TypeOK, Tipado

-----------------------------------------------------------------------------
(* The inductive invariant *)

\* A copy is a quotation of its own, made once the lines are resolved.
Copias ==
    /\ estado[Original] # "ausente"
    /\ \A p \in Peticiones :
        /\ pet[p].pc \in PasosDespues => copia[p] \in Cots
        /\ pet[p].pc \in PasosAntes \cup {"libre"} => copia[p] = Nada
        /\ copia[p] # Nada => copia[p] # Original /\ estado[copia[p]] # "ausente"

\* The lines before the next one are as the body asks, unless there is a warning.
LineaAlDia(p) ==
    /\ pet[p].pc \in {"receta", "lineas"} =>
        /\ pet[p].linea >= 1
        /\ \A l \in Lineas :
            /\ l >= pet[p].linea => pet[p].items[l] = Nada
            /\ l < pet[p].linea /\ ~pet[p].aviso =>
                    pet[p].items[l] = Esperado(l, pet[p].cuerpo)
    /\ pet[p].pc = "guarda" =>
        \A l \in Lineas : pet[p].items[l] = Esperado(l, pet[p].cuerpo)

\* What is written over was not cancelled when it was read.
Leida ==
    \A p \in Peticiones : pet[p].pc = "cambiaEscribe" => pet[p].antes # "cancelada"

IInv ==
    /\ TypeOK /\ Copias /\ \A p \in Peticiones : LineaAlDia(p)
    /\ RespuestaVeraz /\ OrigenCallado /\ CopiaFiel /\ Leida

\* The cases of a step of one request.
LEMMA Casos ==
    ASSUME NEW p \in Peticiones, PasoDe(p)
    PROVE  /\ Antes(p) \/ Copia(p) \/ Corta(p) \/ Ve(p) \/ Calla(p) \/ Arma(p) \/ Fin(p)
           /\ Otras(p)
BY DEF PasoDe

LEMMA CopiasSiguen ==
    ASSUME TypeOK, Copias, NEW p \in Peticiones, PasoDe(p)
    PROVE  Copias'
<1> USE DEF Copias, Pasos, PasosAntes, PasosDespues
<1>1. Original \in Cots /\ Nada \notin Cots
    BY ConstantsAssumption
<1>2. /\ copia \in [Peticiones -> Cots \cup {Nada}]
      /\ \A q \in Peticiones \ {p} : pet'[q] = pet[q]
    BY Casos DEF TypeOK, Otras
<1>3. CASE Antes(p)
    BY <1>1, <1>2, <1>3 DEF Antes, Callado, Resuelve
<1>4. CASE Copia(p)
  <2>1. PICK c \in Cots :
            /\ estado[c] = "ausente" /\ estado'[c] = "vigente"
            /\ \/ copia' = [copia EXCEPT ![p] = c] /\ pet'[p].pc = "relee"
               \/ UNCHANGED copia /\ pet'[p].pc = "hecha"
            /\ \A x \in Cots \ {c} : estado'[x] = estado[x]
        BY <1>4 DEF Copia
  <2> QED
        BY <1>1, <1>2, <1>4, <2>1 DEF Copia
<1>5. CASE Corta(p)
    BY <1>1, <1>2, <1>5 DEF Corta
<1>6. CASE Ve(p) \/ Calla(p) \/ Arma(p)
    BY <1>1, <1>2, <1>6 DEF Ve, Callado, Calla, Arma
<1>7. CASE Fin(p)
    BY <1>1, <1>2, <1>7 DEF Fin, PasosFin, Cancela
<1> QED
    BY <1>3, <1>4, <1>5, <1>6, <1>7, Casos

LEMMA LineasSiguen ==
    ASSUME TypeOK, \A q \in Peticiones : LineaAlDia(q), NEW p \in Peticiones, PasoDe(p)
    PROVE  \A q \in Peticiones : LineaAlDia(q)'
<1>1. \A q \in Peticiones \ {p} : LineaAlDia(q)'
    BY Casos DEF Otras, LineaAlDia
<1>2. Len(ServicioDe) \in Nat /\ Lineas = 1..Len(ServicioDe)
    BY LineasSon
<1> HIDE DEF Lineas
<1>3. CASE Antes(p)
  <2> USE DEF LineaAlDia, PasosAntes
  <2>1. CASE pet'[p].pc = "hecha"
        BY <1>1, <2>1
  <2>2. CASE /\ pet'[p].pc \in {"lineas", "receta"} /\ pet'[p].linea = 1
             /\ ~pet'[p].aviso /\ pet'[p].items = SinItems
        BY <1>1, <1>2, <2>2 DEF SinItems
  <2>3. CASE pet[p].pc = "receta" /\ pet'[p].pc = "lineas" /\ Igual(p)
        BY <1>1, <2>3 DEF Igual
  <2>4. CASE Resuelve(p) /\ pet'[p].pc # "hecha"
    <3> DEFINE l == pet[p].linea
               x == Esperado(l, pet[p].cuerpo)
    <3>1. /\ l \in Lineas /\ l \in Nat /\ pet'[p].linea = l + 1
          /\ pet'[p].cuerpo = pet[p].cuerpo
          /\ pet[p].items \in [Lineas -> Item \cup {Nada}]
          /\ pet'[p].pc = "lineas" /\ pet[p].pc = "lineas"
          BY <1>2, <2>4, Fichas DEF Resuelve, TypeOK, Pasos, Ficha
    <3>2. \/ pet'[p].aviso = pet[p].aviso /\ pet'[p].items = [pet[p].items EXCEPT ![l] = x]
          \/ pet'[p].aviso = pet[p].aviso /\ pet'[p].items = pet[p].items /\ x = Nada
          \/ pet'[p].aviso /\ pet'[p].items = pet[p].items
          BY <2>4 DEF Resuelve, Esperado
    <3>3. /\ \A k \in Lineas : k # l => pet'[p].items[k] = pet[p].items[k]
          /\ pet'[p].items[l] = x \/ pet'[p].aviso
          /\ pet[p].aviso => pet'[p].aviso
          BY <3>1, <3>2
    <3> HIDE DEF x
    <3>4. \A k \in Lineas : k \in Nat
          BY <1>2
    <3>5. ASSUME NEW k \in Lineas
          PROVE  /\ k >= l + 1 => pet'[p].items[k] = Nada
                 /\ k < l + 1 /\ ~pet'[p].aviso =>
                        pet'[p].items[k] = Esperado(k, pet[p].cuerpo)
          BY <3>1, <3>3, <3>4, <3>5 DEF x
    <3>6. LineaAlDia(p)'
          BY <1>2, <3>1, <3>5
    <3> QED
          BY <1>1, <3>6
  <2>5. CASE /\ pet[p].pc = "lineas" /\ pet'[p].pc = "guarda" /\ Igual(p)
             /\ pet[p].linea \notin Lineas /\ ~pet[p].aviso
    <3>1. pet[p].linea \in Nat
          BY <2>5, Fichas DEF TypeOK, Pasos, Ficha
    <3> QED
          BY <1>1, <1>2, <2>5, <3>1 DEF Igual
  <2> QED
        BY <1>3, <2>1, <2>2, <2>3, <2>4, <2>5 DEF Antes
<1>4. CASE ~Antes(p)
  <2>1. pet'[p].pc \notin {"receta", "lineas", "guarda"}
        BY <1>4, Casos
        DEF Copia, Corta, Ve, Calla, Arma, Fin, PasosFin
  <2> QED
        BY <1>1, <2>1 DEF LineaAlDia
<1> QED
    BY <1>3, <1>4

LEMMA CopiaFielSigue ==
    ASSUME TypeOK, Copias, CopiaFiel, \A q \in Peticiones : LineaAlDia(q),
           NEW p \in Peticiones, PasoDe(p)
    PROVE  CopiaFiel'
<1> USE DEF CopiaFiel, Pasos, PasosAntes, PasosDespues
<1>1. \A q \in Peticiones \ {p} : pet'[q] = pet[q]
    BY Casos DEF Otras
<1>2. CASE Copia(p)
  <2>1. PICK c \in Cots :
            /\ estado[c] = "ausente"
            /\ items' = [items EXCEPT ![c] = pet[p].items]
            /\ \/ /\ pet'[p].pc = "relee" /\ pet'[p].cuerpo = pet[p].cuerpo
                  /\ copia' = [copia EXCEPT ![p] = c]
               \/ pet'[p].pc = "hecha" /\ UNCHANGED copia
        BY <1>2 DEF Copia, Igual
  <2>2. pet[p].pc = "guarda"
        BY <1>2 DEF Copia
  <2>3. pet'[p].pc # "hecha" =>
            items'[copia'[p]] = pet[p].items /\ pet'[p].cuerpo = pet[p].cuerpo
        BY <2>1 DEF TypeOK
  <2>4. \A l \in Lineas : pet[p].items[l] = Esperado(l, pet[p].cuerpo)
        BY <2>2 DEF LineaAlDia
  <2>5. ASSUME NEW q \in Peticiones \ {p}, pet[q].pc \in PasosDespues
        PROVE  copia'[q] = copia[q] /\ items'[copia[q]] = items[copia[q]]
    <3>1. copia[q] \in Cots /\ copia[q] # Nada /\ estado[copia[q]] # "ausente"
          BY <2>5, ConstantsAssumption DEF Copias
    <3> QED
          BY <2>1, <3>1 DEF TypeOK
  <2> QED
        BY <1>1, <2>1, <2>2, <2>3, <2>4, <2>5 DEF Esperado
<1>3. CASE ~Copia(p)
  <2>1. UNCHANGED <<items, copia>>
        BY <1>3, Casos DEF Antes, Callado, Corta, Ve, Calla, Arma, Fin
  <2>2. pet'[p].pc \in PasosDespues => pet[p].pc \in PasosDespues
                                        /\ pet'[p].cuerpo = pet[p].cuerpo
        BY <1>3, Casos
        DEF Antes, Resuelve, Corta, Ve, Calla, Arma, Fin, PasosFin, Igual
  <2> QED
        BY <1>1, <2>1, <2>2
<1> QED
    BY <1>2, <1>3

LEMMA OrigenSigueCallado ==
    ASSUME TypeOK, Copias, OrigenCallado, NEW p \in Peticiones, PasoDe(p)
    PROVE  OrigenCallado'
<1> USE DEF OrigenCallado, Pasos, PasosAntes, PasosDespues
<1>1. /\ \A q \in Peticiones \ {p} : pet'[q] = pet[q]
      /\ pet[p].pc \in Pasos \cup {"libre", "hecha"}
    BY Casos, Fichas DEF Otras, TypeOK
<1>2. CASE Antes(p)
  <2>1. copia[p] = Nada
        BY <1>2 DEF Antes, Copias
  <2> QED
        BY <1>1, <1>2, <2>1 DEF Antes, Callado
<1>3. CASE Copia(p)
  <2>1. \A q \in Peticiones \ {p} : copia'[q] = copia[q]
        BY <1>3 DEF Copia, TypeOK
  <2> QED
        BY <1>1, <1>3, <2>1 DEF Copia
<1>4. CASE Corta(p)
    BY <1>1, <1>4 DEF Corta
<1>5. CASE Ve(p)
    BY <1>1, <1>5 DEF Ve, Callado
<1>6. CASE Calla(p)
    BY <1>1, <1>6 DEF Calla
<1>7. CASE Arma(p)
  <2>1. copia[p] \in Cots /\ copia[p] # Original
        BY <1>7, ConstantsAssumption DEF Arma, Copias
  <2> QED
        BY <1>1, <1>7, <2>1 DEF Arma
<1>8. CASE Fin(p)
    BY <1>1, <1>8 DEF Fin, PasosFin
<1> QED
    BY <1>2, <1>3, <1>4, <1>5, <1>6, <1>7, <1>8, Casos

LEMMA RespuestaSigueVeraz ==
    ASSUME TypeOK, RespuestaVeraz, Cuenta, NEW p \in Peticiones, PasoDe(p)
    PROVE  RespuestaVeraz'
<1>1. ASSUME NEW q \in Peticiones, respuesta'[q] = "si"
      PROVE  \/ respuesta[q] = "si"
             \/ pet[q].pc \in PasosDespues /\ estado'[Original] = "cancelada"
  <2>1. CASE Fin(p)
        BY <1>1, <2>1 DEF Fin, PasosFin, PasosDespues
  <2>2. CASE ~Fin(p)
        BY <1>1, <2>2, Casos DEF Antes, Callado, Copia, Corta, Ve, Calla, Arma
  <2> QED
        BY <2>1, <2>2
<1> QED
    BY <1>1 DEF RespuestaVeraz, Cuenta

LEMMA LeidaSigue ==
    ASSUME Leida, NEW p \in Peticiones, PasoDe(p)
    PROVE  Leida'
<1>1. \A q \in Peticiones \ {p} : pet'[q] = pet[q]
    BY Casos DEF Otras
<1>2. pet'[p].pc = "cambiaEscribe" => pet'[p].antes # "cancelada"
    BY Casos DEF Antes, Resuelve, Copia, Corta, Ve, Calla, Arma, Fin
<1> QED
    BY <1>1, <1>2 DEF Leida

LEMMA OtrosNada ==
    ASSUME IInv, TypeOK', Cuenta, DeOtros
    PROVE  IInv'
<1> USE DEF DeOtros
<1>1. Copias'
    BY ConstantsAssumption DEF IInv, TypeOK, Copias
<1>2. \A q \in Peticiones : LineaAlDia(q)'
    BY DEF IInv, LineaAlDia
<1>3. RespuestaVeraz'
    BY DEF IInv, RespuestaVeraz, Cuenta
<1>4. OrigenCallado'
    BY DEF IInv, OrigenCallado
<1>5. CopiaFiel' /\ Leida'
    BY DEF IInv, CopiaFiel, Leida
<1> QED
    BY <1>1, <1>2, <1>3, <1>4, <1>5 DEF IInv

LEMMA InitIInv == Init => IInv
<1> SUFFICES ASSUME Init PROVE IInv
    OBVIOUS
<1>1. ConstantsAssumption
    BY ConstantsAssumption
<1>2. \A p \in Peticiones : pet[p].pc = "libre" /\ copia[p] = Nada /\ respuesta[p] = "ninguna"
    BY DEF Init
<1>3. TypeOK
  <2>1. /\ estado \in [Cots -> Ciclo!Estados \cup {"ausente"}]
        /\ origen \in [Cots -> {"ninguno", "usuario", "magic_link", "cron"}]
        BY DEF Init, Ciclo!Estados
  <2>2. items \in [Cots -> [Lineas -> Item \cup {Nada}]]
    <3>1. /\ SinItems \in [Lineas -> Item \cup {Nada}]
          /\ [l \in Lineas |-> [servicio |-> ServicioDe[l], precio |-> "original"]]
                \in [Lineas -> Item \cup {Nada}]
          BY LineasSon DEF SinItems, Item
    <3> QED
          BY <3>1 DEF Init
  <2>3. rec \in [Cots -> Recordatorio]
    <3>1. PICK r \in {"ausente", "programado"} :
            rec = [c \in Cots |->
                    [SinRecordatorio EXCEPT !.estado = IF c = Original THEN r ELSE @]]
          BY DEF Init
    <3>2. \A x \in {"ausente", "programado"} :
            [SinRecordatorio EXCEPT !.estado = x] \in Recordatorio
          BY DEF SinRecordatorio, Recordatorio
    <3>3. \A c \in Cots :
            [SinRecordatorio EXCEPT !.estado = IF c = Original THEN r ELSE @] \in Recordatorio
          BY <3>2 DEF SinRecordatorio, Recordatorio
    <3> QED
          BY <3>1, <3>3
  <2>4. servicio \in [Servicios -> {"activo", "inactivo", "ajeno"}]
        BY <1>1 DEF Init, ConstantsAssumption
  <2>5. pet \in [Peticiones -> Peticion]
        BY DEF Init, Peticion
  <2> QED
        BY <2>1, <2>2, <2>3, <2>4, <2>5 DEF Init, TypeOK
<1>4. Copias
    BY <1>1, <1>2 DEF Init, Copias, PasosDespues, ConstantsAssumption
<1> QED
    BY <1>2, <1>3, <1>4
    DEF IInv, LineaAlDia, RespuestaVeraz, OrigenCallado, CopiaFiel, Leida, PasosDespues

LEMMA NextIInv ==
    ASSUME IInv, [Next]_vars
    PROVE  IInv'
<1>1. CASE Next
  <2>1. TypeOK' /\ Cuenta /\ (DeOtros \/ \E p \in Peticiones : PasoDe(p))
        BY <1>1, Pasos1 DEF IInv, Copias
  <2>2. CASE DeOtros
        BY <2>1, <2>2, OtrosNada
  <2>3. CASE \E p \in Peticiones : PasoDe(p)
        BY <2>1, <2>3, CopiasSiguen, LineasSiguen, CopiaFielSigue, OrigenSigueCallado,
           RespuestaSigueVeraz, LeidaSigue
        DEF IInv
  <2> QED
        BY <2>1, <2>2, <2>3
<1>2. CASE UNCHANGED vars
  <2>1. TypeOK' /\ Copias' /\ \A q \in Peticiones : LineaAlDia(q)'
        BY <1>2 DEF vars, IInv, TypeOK, Copias, LineaAlDia
  <2> QED
        BY <1>2, <2>1 DEF vars, IInv, RespuestaVeraz, OrigenCallado, CopiaFiel, Leida
<1> QED
    BY <1>1, <1>2

-----------------------------------------------------------------------------
(* Theorems *)

\* Every state that is reached satisfies the inductive invariant: a copy is a
\* quotation of its own and the lines resolved so far are those that the body asked
\* for (cotizaciones.service.ts:631).
THEOREM SpecIInv == Spec => []IInv
<1>1. Init => IInv
    BY InitIInv
<1>2. IInv /\ [Next]_vars => IInv'
    BY NextIInv
<1> QED
    BY <1>1, <1>2, PTL DEF Spec

\* Documents, requests and reminders keep their types, however many quotations,
\* lines and requests there are.
THEOREM TypeCorrect == Spec => []TypeOK
<1>1. IInv => TypeOK
    BY DEF IInv
<1> QED
    BY <1>1, SpecIInv, PTL

\* A response that says that the original is cancelled is true
\* (cotizaciones.service.ts:1175).
THEOREM AnswerIsTrue == Spec => []RespuestaVeraz
<1>1. IInv => RespuestaVeraz
    BY DEF IInv
<1> QED
    BY <1>1, SpecIInv, PTL

\* The team is not reminded of an original that was repeated, unless its reminder
\* could not be cancelled or was armed again (cotizaciones.service.ts:1142).
THEOREM OriginalIsSilenced == Spec => []OrigenCallado
<1>1. IInv => OrigenCallado
    BY DEF IInv
<1> QED
    BY <1>1, SpecIInv, PTL

\* A copy has the items that the body asked for (cotizaciones.service.ts:631).
THEOREM CopyIsFaithful == Spec => []CopiaFiel
<1>1. IInv => CopiaFiel
    BY DEF IInv
<1> QED
    BY <1>1, SpecIInv, PTL

\* Repeating moves quotations as CicloCotizacion, which Cotizacion implements, lets
\* its actors move them: a copy is born open, and what a user cancels was not
\* cancelled (cotizaciones.service.ts:1131, :1713).
THEOREM KeepsTheCycle == Spec => [][Ciclo!Next]_<<estado, origen>>
<1>1. IInv /\ [Next]_vars => [Ciclo!Next]_<<estado, origen>>
  <2> SUFFICES ASSUME IInv, Next PROVE Ciclo!Next \/ UNCHANGED <<estado, origen>>
      BY DEF vars
  <2>1. CASE DeOtros
        BY <2>1 DEF DeOtros
  <2>2. ASSUME NEW p \in Peticiones, PasoDe(p)
        PROVE  Ciclo!Next \/ UNCHANGED <<estado, origen>>
    <3>1. CASE Copia(p)
          BY <3>1 DEF Copia, Ciclo!Next
    <3>2. CASE Cancela /\ pet[p].pc = "cambiaEscribe" /\ pet[p].antes = estado[Original]
      <4>1. /\ estado[Original] \in Ciclo!Estados \ {"cancelada"}
            /\ estado[Original] # "ausente" /\ Original \in Cots
            BY <3>2, ConstantsAssumption DEF IInv, TypeOK, Copias, Leida
      <4>2. Ciclo!CambiarManual(Original)
            BY <3>2, <4>1 DEF Cancela, Ciclo!CambiarManual, Ciclo!Estados
      <4> QED
            BY <4>1, <4>2 DEF Ciclo!Next
    <3> QED
          BY <2>2, <3>1, <3>2, Casos DEF Antes, Callado, Corta, Ve, Calla, Arma, Fin
  <2> QED
        BY <2>1, <2>2, Pasos1 DEF IInv, Copias
<1> QED
    BY <1>1, SpecIInv, PTL DEF Spec
=============================================================================
