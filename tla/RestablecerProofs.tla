------------------------ MODULE RestablecerProofs ------------------------
(* Theorems about Restablecer, for any accounts, addresses, tokens and     *)
(* requests, and any life of a token.                                      *)
EXTENDS Restablecer, TLAPS

(* Documents and locals *)

ConTok == {"enviar", "podar", "quitar", "cuenta", "escribir", "marcar"}

\* What a request keeps: an address from its first step on, a token from the second.
LEMMA Locales ==
    ASSUME NEW r \in Peticion
    PROVE  /\ r.pc \in ConTok => r.correo \in Correos /\ r.tok \in Tokens
           /\ r.pc = "crear" => r.correo \in Correos /\ r.tok = Nada
           /\ r.pc \in {"libre", "hecha"} => r.correo = Nada /\ r.tok = Nada
           /\ r.pc \in ConTok \cup {"crear", "libre", "hecha"}
BY DEF Peticion, ConTok, PasosSolicitud, PasosReset

\* The records a request goes through.
LEMMA LocalesNuevos ==
    /\ EnReposo("hecha") \in Peticion /\ EnReposo("libre") \in Peticion
    /\ \A e \in Correos : [pc |-> "crear", correo |-> e, tok |-> Nada] \in Peticion
    /\ \A e \in Correos, t \in Tokens, x \in ConTok :
        [pc |-> x, correo |-> e, tok |-> t] \in Peticion
BY DEF EnReposo, Peticion, ConTok, PasosSolicitud, PasosReset

\* The next step of a request that has its token.
LEMMA LocalesSiguientes ==
    ASSUME NEW r \in Peticion, NEW x \in ConTok, r.pc \in ConTok
    PROVE  /\ [r EXCEPT !.pc = x] \in Peticion
           /\ [r EXCEPT !.pc = x].pc = x
           /\ [r EXCEPT !.pc = x].correo = r.correo
           /\ [r EXCEPT !.pc = x].tok = r.tok
<1> DEFINE D == [pc : ConTok, correo : Correos, tok : Tokens]
<1>1. r \in D /\ D \subseteq Peticion
    BY DEF Peticion, ConTok, PasosSolicitud, PasosReset
<1>2. [r EXCEPT !.pc = x] \in D
    BY <1>1
<1> QED
    BY <1>1, <1>2

\* And that of one that is given it.
LEMMA PrimerToken ==
    ASSUME NEW r \in Peticion, NEW t \in Tokens, r.pc = "crear"
    PROVE  /\ [r EXCEPT !.pc = "enviar", !.tok = t] \in Peticion
           /\ [r EXCEPT !.pc = "enviar", !.tok = t].pc = "enviar"
           /\ [r EXCEPT !.pc = "enviar", !.tok = t].correo = r.correo
           /\ [r EXCEPT !.pc = "enviar", !.tok = t].tok = t
<1> DEFINE D == [pc : ConTok, correo : Correos, tok : Tokens]
<1>1. r \in [pc : {"crear"}, correo : Correos, tok : {Nada}] /\ D \subseteq Peticion
    BY DEF Peticion, ConTok, PasosSolicitud, PasosReset
<1>2. [r EXCEPT !.pc = "enviar", !.tok = t] \in D
    BY <1>1 DEF ConTok
<1> QED
    BY <1>1, <1>2

\* A stored token has an address and an end.
LEMMA TokenGuardado ==
    ASSUME NEW d \in Token
    PROVE  /\ d.estado \in {"libre", "vivo", "usado", "borrado"}
           /\ d.estado # "libre" => d.correo \in Correos /\ d.vence \in Nat
           /\ d.estado # "libre" => \A x \in {"vivo", "usado", "borrado"} :
                /\ [d EXCEPT !.estado = x] \in Token
                /\ [d EXCEPT !.estado = x].estado = x
                /\ [d EXCEPT !.estado = x].correo = d.correo
                /\ [d EXCEPT !.estado = x].vence = d.vence
<1> DEFINE D == [estado : {"vivo", "usado", "borrado"}, correo : Correos, vence : Nat]
<1>1. CASE d.estado = "libre"
    BY <1>1 DEF Token
<1>2. CASE d.estado # "libre"
  <2>1. d \in D
        BY <1>2 DEF Token
  <2>2. \A x \in {"vivo", "usado", "borrado"} : [d EXCEPT !.estado = x] \in D
        BY <2>1
  <2> QED
        BY <1>2, <2>1, <2>2 DEF Token
<1> QED
    BY <1>1, <1>2

\* What deleting stored tokens leaves.
LEMMA Borrados ==
    ASSUME TypeOK, NEW T \in SUBSET Tokens, \A t \in T : Guardado(t), Borrar(T)
    PROVE  /\ tok' \in [Tokens -> Token]
           /\ \A t \in Tokens \ T : tok'[t] = tok[t]
           /\ \A t \in T : /\ tok[t].estado \in {"vivo", "usado"} /\ tok'[t].estado = "borrado"
                           /\ tok'[t].correo = tok[t].correo /\ tok'[t].vence = tok[t].vence
<1>1. \A t \in Tokens : tok[t] \in Token
    BY DEF TypeOK
<1>2. \A t \in T : tok'[t] = [tok[t] EXCEPT !.estado = "borrado"]
    BY DEF Borrar
<1>3. \A t \in Tokens \ T : tok'[t] = tok[t]
    BY DEF Borrar
<1>4. ASSUME NEW t \in T
      PROVE  /\ tok'[t] \in Token /\ tok'[t].estado = "borrado"
             /\ tok'[t].correo = tok[t].correo /\ tok'[t].vence = tok[t].vence
  <2>1. tok[t] \in Token /\ tok[t].estado # "libre"
        BY <1>1 DEF Guardado
  <2>2. /\ [tok[t] EXCEPT !.estado = "borrado"] \in Token
        /\ [tok[t] EXCEPT !.estado = "borrado"].estado = "borrado"
        /\ [tok[t] EXCEPT !.estado = "borrado"].correo = tok[t].correo
        /\ [tok[t] EXCEPT !.estado = "borrado"].vence = tok[t].vence
        BY <2>1, TokenGuardado
  <2> QED
        BY <1>2, <2>2
<1>5. tok' = [t \in Tokens |-> tok'[t]]
    BY DEF Borrar
<1> QED
    BY <1>1, <1>3, <1>4, <1>5 DEF Guardado

-----------------------------------------------------------------------------
(* The steps, seen from the tokens and the requests *)

\* Tokens that are no longer stored, or about to be, stay what they were.
Tipado == tok' \in [Tokens -> Token] /\ pet' \in [Peticiones -> Peticion]

Igual(T) == \A t \in T : tok'[t] = tok[t]

\* The tokens of T are deleted and the others stay.
Borra(T) ==
    /\ Igual(Tokens \ T)
    /\ \A t \in T : /\ tok[t].estado \in {"vivo", "usado"} /\ tok'[t].estado = "borrado"
                    /\ tok'[t].correo = tok[t].correo /\ tok'[t].vence = tok[t].vence

\* The request p goes from one step to another and keeps its locals.
Va(p, a, b) ==
    /\ pet[p].pc = a /\ pet'[p].pc = b
    /\ pet'[p].correo = pet[p].correo /\ pet'[p].tok = pet[p].tok

\* The request p ends.
Fin(p) == pet'[p].pc = "hecha" /\ pet'[p].correo = Nada /\ pet'[p].tok = Nada

Quedan == Igual(Tokens)
X == cruzados \cup fallidos

\* What each step of a request does, without its types.
Callado == UNCHANGED <<ultimo, completados>>

Pide(p) ==
    /\ pet[p].pc = "libre" /\ pet'[p].pc = "crear" /\ pet'[p].tok = Nada
    /\ Quedan /\ Callado

Crea(p) ==
    /\ pet[p].pc = "crear" /\ pet'[p].pc = "enviar" /\ pet'[p].correo = pet[p].correo
    /\ \E t \in Tokens :
        /\ pet'[p].tok = t /\ Igual(Tokens \ {t})
        /\ tok[t].estado = "libre" /\ tok'[t].estado = "vivo"
        /\ tok'[t].correo = pet[p].correo
    /\ Callado

Manda(p) ==
    /\ Va(p, "enviar", "podar") /\ Quedan
    /\ ultimo' = [ultimo EXCEPT ![pet[p].correo] = pet[p].tok]
    /\ UNCHANGED completados

NoManda(p) == Va(p, "enviar", "quitar") /\ Quedan /\ Callado

Podado(p) ==
    /\ pet[p].pc = "podar" /\ Fin(p)
    /\ Borra(DeCorreo(pet[p].correo) \ {pet[p].tok})
    /\ Callado

NoPodado(p) ==
    /\ Va(p, "podar", "quitar") /\ pet[p].correo \in fallidos'
    /\ Quedan \/ Borra(DeCorreo(pet[p].correo) \ {pet[p].tok})
    /\ Callado

Quitado(p) ==
    /\ pet[p].pc = "quitar" /\ Fin(p)
    /\ Borra({t \in {pet[p].tok} : Guardado(t)})
    /\ Callado

Abre(p) ==
    /\ pet[p].pc = "libre" /\ pet'[p].pc = "cuenta" /\ Quedan
    /\ \E t \in Tokens : pet'[p].tok = t /\ Vigente(t, pet'[p].correo)
    /\ Callado

Mira(p) ==
    /\ Va(p, "cuenta", "escribir") \/ (pet[p].pc = "cuenta" /\ Fin(p))
    /\ Quedan /\ Callado

Gasta(p) ==
    /\ Va(p, "escribir", "marcar") /\ Quedan /\ Callado

Marca(p) ==
    /\ pet[p].pc = "marcar" /\ Fin(p) /\ Guardado(pet[p].tok)
    /\ Igual(Tokens \ {pet[p].tok}) /\ tok'[pet[p].tok].estado = "usado"
    /\ tok'[pet[p].tok].correo = tok[pet[p].tok].correo
    /\ tok'[pet[p].tok].vence = tok[pet[p].tok].vence
    /\ completados' = completados \cup {pet[p].tok}
    /\ UNCHANGED ultimo

NoMarca(p) ==
    /\ pet[p].pc = "marcar" /\ Fin(p) /\ ~Guardado(pet[p].tok)
    /\ Quedan /\ Callado

Corta(p) ==
    /\ pet[p].pc \in ConTok \cup {"crear"} /\ Fin(p) /\ Quedan
    /\ Solicita(pet[p]) => pet[p].correo \in fallidos'
    /\ Callado

NoQuitado(p) ==
    /\ pet[p].pc = "quitar" /\ Fin(p) /\ pet[p].correo \in fallidos' /\ Quedan
    /\ Callado

PasoDe(p) ==
    \/ Pide(p) \/ Crea(p) \/ Manda(p) \/ NoManda(p) \/ Podado(p) \/ NoPodado(p)
    \/ Quitado(p) \/ NoQuitado(p) \/ Abre(p) \/ Mira(p) \/ Gasta(p) \/ Marca(p)
    \/ NoMarca(p) \/ Corta(p)

\* The other requests stay, and p crosses those that are of its address.
Otros(p) ==
    /\ \A q \in Peticiones \ {p} : pet'[q] = pet[q]
    /\ \A q \in Peticiones \ {p} :
        /\ pet'[p].correo # Nada /\ pet[q].correo = pet'[p].correo
        /\ Solicita(pet'[p]) \/ Solicita(pet[q])
        => pet'[p].correo \in cruzados'

Crecen == cruzados \subseteq cruzados' /\ fallidos \subseteq fallidos' /\ reloj' >= reloj

\* Any step: one of a request, one that deletes an expired token, or one that touches
\* neither tokens nor requests.
Paso ==
    \/ \E p \in Peticiones : PasoDe(p) /\ Otros(p)
    \/ /\ \E t \in Tokens : Borra({t}) /\ reloj > tok[t].vence
       /\ Callado /\ UNCHANGED pet
    \/ Quedan /\ Callado /\ UNCHANGED pet

-----------------------------------------------------------------------------
(* Types *)

\* The initial state is well typed.
LEMMA InitTypeOK == Init => TypeOK
BY LocalesNuevos DEF Init, TypeOK, Token

\* A request that goes on stays typed and crosses the others.
LEMMA TrasSeguir ==
    ASSUME TypeOK, NEW p \in Peticiones, NEW r \in Peticion, r.correo \in Correos, Seguir(p, r)
    PROVE  /\ pet' \in [Peticiones -> Peticion] /\ pet'[p] = r /\ Otros(p)
           /\ cruzados \subseteq cruzados' /\ cruzados' \subseteq Correos
<1>1. pet' \in [Peticiones -> Peticion] /\ pet'[p] = r
      /\ \A q \in Peticiones \ {p} : pet'[q] = pet[q]
    BY DEF Seguir, TypeOK
<1>2. cruzados \subseteq cruzados' /\ cruzados' \subseteq Correos
    BY DEF Seguir, TypeOK
<1>3. \A q \in Peticiones \ {p} :
        pet[q].correo = r.correo /\ (Solicita(r) \/ Solicita(pet[q])) => r.correo \in cruzados'
    BY DEF Seguir
<1> QED
    BY <1>1, <1>2, <1>3 DEF Otros

\* And so does one that ends.
LEMMA TrasTerminar ==
    ASSUME TypeOK, NEW p \in Peticiones, Terminar(p)
    PROVE  /\ pet' \in [Peticiones -> Peticion] /\ Fin(p) /\ Otros(p)
           /\ cruzados \subseteq cruzados' /\ cruzados' \subseteq Correos
<1>1. /\ pet' \in [Peticiones -> Peticion] /\ pet'[p] = EnReposo("hecha")
      /\ \A q \in Peticiones \ {p} : pet'[q] = pet[q]
    BY LocalesNuevos DEF Terminar, TypeOK
<1>2. Fin(p)
    BY <1>1 DEF Fin, EnReposo
<1> QED
    BY <1>1, <1>2 DEF Otros, Fin, Terminar, TypeOK

\* Every round trip keeps the types and is one of the steps above.
LEMMA NextPaso ==
    ASSUME TypeOK, Next
    PROVE  TypeOK' /\ Paso /\ Crecen
<1>0. /\ \A p \in Peticiones : pet[p] \in Peticion
      /\ \A t \in Tokens : tok[t] \in Token
      /\ reloj \in Nat
    BY DEF TypeOK
<1>1. ASSUME NEW p \in Peticiones, NEW e \in Correos, Solicitar(p, e)
      PROVE  TypeOK' /\ PasoDe(p) /\ Otros(p) /\ Crecen
  <2>1. [pc |-> "crear", correo |-> e, tok |-> Nada] \in Peticion
        BY LocalesNuevos
  <2>2. /\ pet' \in [Peticiones -> Peticion] /\ Otros(p)
        /\ pet'[p].pc = "crear" /\ pet'[p].tok = Nada
        /\ cruzados \subseteq cruzados' /\ cruzados' \subseteq Correos
        BY <1>1, <2>1, TrasSeguir DEF Solicitar
  <2> QED
        BY <1>1, <2>2
        DEF Solicitar, historia, PasoDe, Pide, Callado, Quedan, Igual, Crecen, TypeOK
<1>2. ASSUME NEW p \in Peticiones, NEW t \in Tokens, NEW e \in Correos, Restablece(p, t, e)
      PROVE  TypeOK' /\ PasoDe(p) /\ Otros(p) /\ Crecen
  <2>1. [pc |-> "cuenta", correo |-> e, tok |-> t] \in Peticion
        BY LocalesNuevos DEF ConTok
  <2>2. /\ pet' \in [Peticiones -> Peticion] /\ Otros(p)
        /\ pet'[p].pc = "cuenta" /\ pet'[p].tok = t /\ pet'[p].correo = e
        /\ cruzados \subseteq cruzados' /\ cruzados' \subseteq Correos
        BY <1>2, <2>1, TrasSeguir DEF Restablece
  <2> QED
        BY <1>2, <2>2
        DEF Restablece, historia, PasoDe, Abre, Callado, Quedan, Igual, Crecen, TypeOK
<1>3. ASSUME NEW p \in Peticiones, CreaToken(p)
      PROVE  TypeOK' /\ PasoDe(p) /\ Otros(p) /\ Crecen
  <2>1. PICK t \in Tokens :
            /\ tok[t].estado = "libre"
            /\ tok' = [tok EXCEPT ![t] = [estado |-> "vivo", correo |-> pet[p].correo,
                                          vence |-> reloj + Vida]]
            /\ Seguir(p, [pet[p] EXCEPT !.pc = "enviar", !.tok = t])
        BY <1>3 DEF CreaToken
  <2>2. /\ [pet[p] EXCEPT !.pc = "enviar", !.tok = t] \in Peticion
        /\ [pet[p] EXCEPT !.pc = "enviar", !.tok = t].pc = "enviar"
        /\ [pet[p] EXCEPT !.pc = "enviar", !.tok = t].correo = pet[p].correo
        /\ [pet[p] EXCEPT !.pc = "enviar", !.tok = t].tok = t
        /\ pet[p].correo \in Correos
    <3>1. pet[p] \in Peticion /\ pet[p].pc = "crear" /\ "enviar" \in ConTok
          BY <1>0, <1>3 DEF CreaToken, ConTok
    <3>2. pet[p].correo \in Correos
          BY <3>1, Locales
    <3> QED
          BY <3>1, <3>2, PrimerToken
  <2>3. /\ pet' \in [Peticiones -> Peticion] /\ Otros(p)
        /\ pet'[p] = [pet[p] EXCEPT !.pc = "enviar", !.tok = t]
        /\ cruzados \subseteq cruzados' /\ cruzados' \subseteq Correos
        BY <2>1, <2>2, TrasSeguir
  <2>4. [estado |-> "vivo", correo |-> pet[p].correo, vence |-> reloj + Vida] \in Token
        BY <1>0, <2>2, ConstantsAssumption DEF Token
  <2>5. /\ tok' \in [Tokens -> Token] /\ Igual(Tokens \ {t})
        /\ tok'[t].estado = "vivo" /\ tok'[t].correo = pet[p].correo
        BY <2>1, <2>4 DEF TypeOK, Igual
  <2>6. PasoDe(p)
        BY <1>3, <2>1, <2>2, <2>3, <2>5 DEF CreaToken, historia, PasoDe, Crea, Callado
  <2> QED
        BY <1>0, <1>3, <2>3, <2>5, <2>6 DEF CreaToken, historia, Crecen, TypeOK
<1>4. ASSUME NEW p \in Peticiones, Envia(p)
      PROVE  TypeOK' /\ PasoDe(p) /\ Otros(p) /\ Crecen
  <2>1. PICK x \in {"podar", "quitar"} :
            /\ Seguir(p, [pet[p] EXCEPT !.pc = x])
            /\ ultimo' = IF x = "podar" THEN [ultimo EXCEPT ![pet[p].correo] = pet[p].tok]
                         ELSE ultimo
        BY <1>4 DEF Envia
  <2>2. /\ [pet[p] EXCEPT !.pc = x] \in Peticion
        /\ [pet[p] EXCEPT !.pc = x].pc = x
        /\ [pet[p] EXCEPT !.pc = x].correo = pet[p].correo
        /\ [pet[p] EXCEPT !.pc = x].tok = pet[p].tok
        /\ pet[p].correo \in Correos /\ pet[p].tok \in Tokens
    <3>1. pet[p] \in Peticion /\ pet[p].pc \in ConTok /\ x \in ConTok
          BY <1>0, <1>4 DEF Envia, ConTok
    <3>2. pet[p].correo \in Correos /\ pet[p].tok \in Tokens
          BY <3>1, Locales
    <3> QED
          BY <3>1, <3>2, LocalesSiguientes
  <2>3. /\ pet' \in [Peticiones -> Peticion] /\ Otros(p) /\ Va(p, "enviar", x)
        /\ cruzados \subseteq cruzados' /\ cruzados' \subseteq Correos
        BY <1>4, <2>1, <2>2, TrasSeguir DEF Va, Envia
  <2> QED
        BY <1>0, <1>4, <2>1, <2>2, <2>3
        DEF Envia, PasoDe, Manda, NoManda, Callado, Quedan, Igual, Crecen, TypeOK
<1>5. ASSUME NEW p \in Peticiones, Poda(p)
      PROVE  TypeOK' /\ PasoDe(p) /\ Otros(p) /\ Crecen
  <2> DEFINE D == DeCorreo(pet[p].correo) \ {pet[p].tok}
  <2>1. /\ pet[p].correo \in Correos /\ pet[p].tok \in Tokens /\ pet[p].pc = "podar"
        /\ D \subseteq Tokens /\ \A t \in D : Guardado(t)
        BY <1>0, <1>5, Locales DEF Poda, ConTok, DeCorreo
  <2>2. CASE Borrar(D) /\ Terminar(p) /\ UNCHANGED fallidos
    <3>1. tok' \in [Tokens -> Token] /\ Borra(D)
          BY <2>1, <2>2, Borrados DEF Borra, Igual
    <3> QED
          BY <1>0, <1>5, <2>1, <2>2, <3>1, TrasTerminar
          DEF Poda, historia, PasoDe, Podado, NoPodado, Callado, Crecen, TypeOK
  <2>3. ASSUME NEW T \in {{}, D}, Borrar(T), Seguir(p, [pet[p] EXCEPT !.pc = "quitar"]),
               fallidos' = fallidos \cup {pet[p].correo}
        PROVE  TypeOK' /\ PasoDe(p) /\ Otros(p) /\ Crecen
    <3>1. /\ [pet[p] EXCEPT !.pc = "quitar"] \in Peticion
          /\ [pet[p] EXCEPT !.pc = "quitar"].pc = "quitar"
          /\ [pet[p] EXCEPT !.pc = "quitar"].correo = pet[p].correo
          /\ [pet[p] EXCEPT !.pc = "quitar"].tok = pet[p].tok
          BY <1>0, <2>1, LocalesSiguientes DEF ConTok
    <3>2. /\ pet' \in [Peticiones -> Peticion] /\ Otros(p) /\ Va(p, "podar", "quitar")
          /\ cruzados \subseteq cruzados' /\ cruzados' \subseteq Correos
          BY <2>1, <2>3, <3>1, TrasSeguir DEF Va
    <3>3. tok' \in [Tokens -> Token] /\ (Quedan \/ Borra(D))
      <4>1. CASE T = {}
            BY <2>3, <4>1, Borrados DEF Quedan, Igual
      <4>2. CASE T = D
            BY <2>1, <2>3, <4>2, Borrados DEF Borra, Igual
      <4> QED
            BY <4>1, <4>2
    <3>4. PasoDe(p)
          BY <1>5, <2>3, <3>2, <3>3 DEF Poda, historia, PasoDe, Podado, NoPodado, Callado
    <3> QED
          BY <1>0, <1>5, <2>1, <2>3, <3>2, <3>3, <3>4 DEF Poda, historia, Crecen, TypeOK
  <2> QED
        BY <1>5, <2>2, <2>3 DEF Poda
<1>6. ASSUME NEW p \in Peticiones, Quita(p)
      PROVE  TypeOK' /\ PasoDe(p) /\ Otros(p) /\ Crecen
  <2> DEFINE D == {t \in {pet[p].tok} : Guardado(t)}
  <2>1. /\ pet[p].correo \in Correos /\ pet[p].tok \in Tokens /\ pet[p].pc = "quitar"
        /\ D \subseteq Tokens /\ \A t \in D : Guardado(t)
        BY <1>0, <1>6, Locales DEF Quita, ConTok
  <2>2. /\ pet' \in [Peticiones -> Peticion] /\ Fin(p) /\ Otros(p)
        /\ cruzados \subseteq cruzados' /\ cruzados' \subseteq Correos
        BY <1>6, TrasTerminar DEF Quita
  <2>3. CASE Borrar(D) /\ UNCHANGED fallidos
    <3>1. tok' \in [Tokens -> Token] /\ Borra(D)
          BY <2>1, <2>3, Borrados DEF Borra, Igual
    <3> QED
          BY <1>0, <1>6, <2>1, <2>2, <2>3, <3>1
          DEF Quita, historia, PasoDe, Quitado, NoQuitado, Callado, Crecen, TypeOK
  <2>4. CASE fallidos' = fallidos \cup {pet[p].correo} /\ UNCHANGED tok
        BY <1>0, <1>6, <2>1, <2>2, <2>4
        DEF Quita, historia, PasoDe, Quitado, NoQuitado, Callado, Quedan, Igual, Crecen, TypeOK
  <2> QED
        BY <1>6, <2>3, <2>4 DEF Quita
<1>7. ASSUME NEW p \in Peticiones, LeeCuenta(p)
      PROVE  TypeOK' /\ PasoDe(p) /\ Otros(p) /\ Crecen
  <2>1. /\ [pet[p] EXCEPT !.pc = "escribir"] \in Peticion
        /\ [pet[p] EXCEPT !.pc = "escribir"].pc = "escribir"
        /\ [pet[p] EXCEPT !.pc = "escribir"].correo = pet[p].correo
        /\ [pet[p] EXCEPT !.pc = "escribir"].tok = pet[p].tok
        /\ pet[p].correo \in Correos
    <3>1. pet[p] \in Peticion /\ pet[p].pc \in ConTok /\ "escribir" \in ConTok
          BY <1>0, <1>7 DEF LeeCuenta, ConTok
    <3>2. pet[p].correo \in Correos
          BY <3>1, Locales
    <3> QED
          BY <3>1, <3>2, LocalesSiguientes
  <2>2. /\ pet' \in [Peticiones -> Peticion] /\ Otros(p) /\ pet[p].pc = "cuenta"
        /\ Va(p, "cuenta", "escribir") \/ Fin(p)
        /\ cruzados \subseteq cruzados' /\ cruzados' \subseteq Correos
        BY <1>7, <2>1, TrasSeguir, TrasTerminar DEF LeeCuenta, Va
  <2> QED
        BY <1>0, <1>7, <2>2
        DEF LeeCuenta, historia, PasoDe, Mira, Callado, Quedan, Igual, Crecen, TypeOK
<1>8. ASSUME NEW p \in Peticiones, EscribeClave(p)
      PROVE  TypeOK' /\ PasoDe(p) /\ Otros(p) /\ Crecen
  <2>1. /\ [pet[p] EXCEPT !.pc = "marcar"] \in Peticion
        /\ [pet[p] EXCEPT !.pc = "marcar"].pc = "marcar"
        /\ [pet[p] EXCEPT !.pc = "marcar"].correo = pet[p].correo
        /\ [pet[p] EXCEPT !.pc = "marcar"].tok = pet[p].tok
        /\ pet[p].correo \in Correos /\ pet[p].tok \in Tokens
    <3>1. pet[p] \in Peticion /\ pet[p].pc \in ConTok /\ "marcar" \in ConTok
          BY <1>0, <1>8 DEF EscribeClave, ConTok
    <3>2. pet[p].correo \in Correos /\ pet[p].tok \in Tokens
          BY <3>1, Locales
    <3> QED
          BY <3>1, <3>2, LocalesSiguientes
  <2>2. /\ pet' \in [Peticiones -> Peticion] /\ Otros(p) /\ Va(p, "escribir", "marcar")
        /\ cruzados \subseteq cruzados' /\ cruzados' \subseteq Correos
        BY <1>8, <2>1, TrasSeguir DEF EscribeClave, Va
  <2> QED
        BY <1>0, <1>8, <2>1, <2>2
        DEF EscribeClave, historia, PasoDe, Gasta, Callado, Quedan, Igual, Crecen, TypeOK
<1>9. ASSUME NEW p \in Peticiones, MarcaUsado(p)
      PROVE  TypeOK' /\ PasoDe(p) /\ Otros(p) /\ Crecen
  <2> DEFINE t == pet[p].tok
  <2>1. t \in Tokens /\ pet[p].pc = "marcar"
        BY <1>0, <1>9, Locales DEF MarcaUsado, ConTok
  <2>2. /\ pet' \in [Peticiones -> Peticion] /\ Fin(p) /\ Otros(p)
        /\ cruzados \subseteq cruzados' /\ cruzados' \subseteq Correos
        BY <1>9, TrasTerminar DEF MarcaUsado
  <2>3. CASE Guardado(t)
    <3>1. /\ tok' = [tok EXCEPT ![t] = [tok[t] EXCEPT !.estado = "usado"]]
          /\ completados' = completados \cup {t}
          BY <1>9, <2>3 DEF MarcaUsado
    <3>2. tok[t] \in Token /\ tok[t].estado # "libre"
          BY <1>0, <2>1, <2>3 DEF Guardado
    <3>3. /\ [tok[t] EXCEPT !.estado = "usado"] \in Token
          /\ [tok[t] EXCEPT !.estado = "usado"].estado = "usado"
          /\ [tok[t] EXCEPT !.estado = "usado"].correo = tok[t].correo
          /\ [tok[t] EXCEPT !.estado = "usado"].vence = tok[t].vence
          BY <3>2, TokenGuardado
    <3>4. /\ tok' \in [Tokens -> Token] /\ Igual(Tokens \ {t})
          /\ tok'[t] = [tok[t] EXCEPT !.estado = "usado"]
          BY <2>1, <3>1, <3>3 DEF TypeOK, Igual
    <3>5. PasoDe(p)
          BY <1>9, <2>1, <2>2, <2>3, <3>1, <3>3, <3>4
          DEF MarcaUsado, PasoDe, Marca, NoMarca, Callado
    <3> QED
          BY <1>0, <1>9, <2>1, <2>2, <3>1, <3>4, <3>5 DEF MarcaUsado, Crecen, TypeOK
  <2>4. CASE ~Guardado(t)
        BY <1>0, <1>9, <2>1, <2>2, <2>4
        DEF MarcaUsado, PasoDe, Marca, NoMarca, Callado, Quedan, Igual, Crecen, TypeOK
  <2> QED
        BY <2>3, <2>4
<1>10. ASSUME NEW p \in Peticiones, Abortar(p)
       PROVE  TypeOK' /\ PasoDe(p) /\ Otros(p) /\ Crecen
  <2>1. /\ pet[p].pc \in ConTok \cup {"crear"} /\ pet[p].correo \in Correos
        BY <1>0, <1>10, Locales DEF Abortar, ConTok, PasosSolicitud, PasosReset
  <2>2. /\ pet' \in [Peticiones -> Peticion] /\ Fin(p) /\ Otros(p)
        /\ cruzados \subseteq cruzados' /\ cruzados' \subseteq Correos
        BY <1>10, TrasTerminar DEF Abortar
  <2>3. PasoDe(p)
        BY <1>10, <2>1, <2>2 DEF Abortar, historia, PasoDe, Corta, Callado, Quedan, Igual
  <2> QED
        BY <1>0, <1>10, <2>1, <2>2, <2>3 DEF Abortar, historia, Crecen, TypeOK
<1>11. ASSUME NEW c \in Cuentas, CambiaActivo(c) PROVE TypeOK' /\ Paso /\ Crecen
    BY <1>0, <1>11 DEF CambiaActivo, historia, Paso, Callado, Quedan, Igual, Crecen, TypeOK
<1>12. ASSUME NEW t \in Tokens, Purga(t) PROVE TypeOK' /\ Paso /\ Crecen
  <2>1. tok' \in [Tokens -> Token] /\ Borra({t})
        BY <1>12, Borrados DEF Purga, Borra, Igual
  <2>2. tok[t].vence \in Nat
        BY <1>0, <1>12, TokenGuardado DEF Purga, Guardado
  <2>3. reloj > tok[t].vence
        BY <1>0, <1>12, <2>2, ConstantsAssumption DEF Purga
  <2>4. TypeOK' /\ Crecen
        BY <1>0, <1>12, <2>1 DEF Purga, historia, Crecen, TypeOK
  <2> QED
        BY <1>12, <2>1, <2>3, <2>4 DEF Purga, historia, Paso, Callado
<1>13. ASSUME Pasa PROVE TypeOK' /\ Paso /\ Crecen
    BY <1>0, <1>13 DEF Pasa, historia, Paso, Callado, Quedan, Igual, Crecen, TypeOK
<1> QED
    BY <1>1, <1>2, <1>3, <1>4, <1>5, <1>6, <1>7, <1>8, <1>9, <1>10, <1>11, <1>12, <1>13
    DEF Next, Paso

-----------------------------------------------------------------------------
(* The inductive invariant *)

\* The token of a request is stored, or was, under its address.
Suyos ==
    \A p \in Peticiones : pet[p].pc \in ConTok =>
        tok[pet[p].tok].estado # "libre" /\ tok[pet[p].tok].correo = pet[p].correo

\* A request for a link that meets another request of its address crosses it.
Cruces ==
    \A p, q \in Peticiones :
        p # q /\ Solicita(pet[p]) /\ pet[q].correo = pet[p].correo => pet[p].correo \in cruzados

\* A token whose reset was completed is dead.
Completados == \A t \in completados : tok[t].estado \in {"usado", "borrado"}

\* What was mailed to an address is a token of that address.
Mandados ==
    \A e \in Correos : ultimo[e] # Nada =>
        tok[ultimo[e]].estado # "libre" /\ tok[ultimo[e]].correo = e

\* The token can be used, or a reset with it was completed, or it is too old.
Sirve(t) == tok[t].estado = "vivo" \/ t \in completados \/ reloj > tok[t].vence

\* The same, after the step.
SirveLuego(t) == tok'[t].estado = "vivo" \/ t \in completados' \/ reloj' > tok'[t].vence

\* The token that a request is about to mail serves and is not yet the last one; the
\* one it has mailed is, and the one it takes back is not.
EnSolicitud ==
    \A p \in Peticiones : pet[p].correo \in Correos \ X =>
        /\ pet[p].pc = "enviar" => Sirve(pet[p].tok) /\ ultimo[pet[p].correo] # pet[p].tok
        /\ pet[p].pc = "podar" => ultimo[pet[p].correo] = pet[p].tok
        /\ pet[p].pc = "quitar" => ultimo[pet[p].correo] # pet[p].tok

Servidos == \A e \in Correos \ X : ultimo[e] # Nada => Sirve(ultimo[e])

\* A token that is alive is the last one of its address, or a request is about to
\* delete it, or to mail it.
Solos ==
    \A t \in Tokens :
        tok[t].estado = "vivo" /\ tok[t].correo \notin X =>
            \/ t = ultimo[tok[t].correo]
            \/ \E p \in Peticiones :
                /\ pet[p].correo = tok[t].correo
                /\ pet[p].pc = "podar" \/ (Solicita(pet[p]) /\ pet[p].tok = t)

IInv ==
    /\ TypeOK /\ Suyos /\ Cruces /\ Completados /\ Mandados
    /\ EnSolicitud /\ Servidos /\ Solos

\* The initial state satisfies it.
LEMMA InitIInv == Init => IInv
<1> SUFFICES ASSUME Init PROVE IInv
    OBVIOUS
<1>1. TypeOK
    BY InitTypeOK
<1>2. /\ \A p \in Peticiones : pet[p] = EnReposo("libre")
      /\ \A t \in Tokens : tok[t].estado = "libre"
      /\ \A e \in Correos : ultimo[e] = Nada
      /\ completados = {}
    BY DEF Init
<1>3. \A p \in Peticiones : pet[p].pc = "libre"
    BY <1>2 DEF EnReposo
<1> QED
    BY <1>1, <1>2, <1>3
    DEF IInv, Suyos, Cruces, Completados, Mandados, EnSolicitud,
        Servidos, Solos, Solicita, ConTok, PasosSolicitud, PasosReset

\* A token that was given out keeps its address and its age, and does not come back.
Sigue(t) ==
    /\ tok'[t].estado # "libre"
    /\ tok'[t].correo = tok[t].correo /\ tok'[t].vence = tok[t].vence
    /\ tok'[t].estado = "vivo" => tok[t].estado = "vivo"
    /\ tok[t].estado \in {"usado", "borrado"} => tok'[t].estado \in {"usado", "borrado"}

LEMMA Marco ==
    ASSUME IInv, Paso, Crecen
    PROVE  /\ \A t \in Tokens : tok[t].estado # "libre" => Sigue(t)
           /\ completados \subseteq completados'
           /\ X \subseteq X'
<1>1. X \subseteq X'
    BY DEF Crecen, X
<1>2. completados \subseteq completados'
    BY DEF Paso, Callado, PasoDe, Pide, Crea, Manda, NoManda, Podado, NoPodado, Quitado,
        NoQuitado, Abre, Mira, Gasta, Marca, NoMarca, Corta
<1>3. ASSUME NEW T \in SUBSET Tokens, Borra(T), NEW t \in Tokens, tok[t].estado # "libre"
      PROVE  Sigue(t)
    BY <1>3 DEF Borra, Igual, Sigue
<1>4. ASSUME Quedan, NEW t \in Tokens, tok[t].estado # "libre"
      PROVE  Sigue(t)
  <2>1. tok[t] \in Token /\ tok'[t] = tok[t]
        BY <1>4 DEF IInv, TypeOK, Quedan, Igual
  <2> QED
        BY <1>4, <2>1 DEF Sigue
<1>5. ASSUME NEW p \in Peticiones, PasoDe(p), NEW t \in Tokens, tok[t].estado # "libre"
      PROVE  Sigue(t)
  <2>1. CASE Crea(p)
        BY <1>5, <2>1 DEF Crea, Igual, Sigue
  <2>2. CASE Podado(p) \/ NoPodado(p)
    <3>1. DeCorreo(pet[p].correo) \ {pet[p].tok} \subseteq Tokens
          BY DEF DeCorreo
    <3> QED
          BY <1>3, <1>4, <1>5, <2>2, <3>1 DEF Podado, NoPodado
  <2>3. CASE Quitado(p)
    <3>1. {x \in {pet[p].tok} : Guardado(x)} \subseteq Tokens
          BY <2>3, Locales DEF Quitado, IInv, TypeOK, ConTok
    <3> QED
          BY <1>3, <1>5, <2>3, <3>1 DEF Quitado
  <2>4. CASE Marca(p)
        BY <1>5, <2>4 DEF Marca, Igual, Sigue, Guardado
  <2> QED
        BY <1>4, <1>5, <2>1, <2>2, <2>3, <2>4
        DEF PasoDe, Pide, Manda, NoManda, NoQuitado, Abre, Mira, Gasta, NoMarca, Corta
<1> QED
    BY <1>1, <1>2, <1>3, <1>4, <1>5 DEF Paso

\* A stored token is deleted when it is too old or by a request of its address, which
\* ends or goes back.
Borrador(p, t) ==
    /\ PasoDe(p) /\ pet'[p].pc # pet[p].pc /\ Solicita(pet[p])
    /\ pet[p].correo = tok[t].correo
    /\ \/ pet[p].pc = "podar" /\ pet[p].tok # t
       \/ pet[p].pc = "quitar" /\ pet[p].tok = t

LEMMA Mueren ==
    ASSUME IInv, Paso, NEW t \in Tokens, Guardado(t), tok'[t].estado \notin {"vivo", "usado"}
    PROVE  reloj > tok[t].vence \/ \E p \in Peticiones : Borrador(p, t)
<1>1. tok'[t] # tok[t] /\ ~Quedan
    BY DEF Guardado, Quedan, Igual
<1>2. CASE \E x \in Tokens : Borra({x}) /\ reloj > tok[x].vence
    BY <1>1, <1>2 DEF Borra, Igual
<1>3. ASSUME NEW p \in Peticiones, PasoDe(p) PROVE Borrador(p, t)
  <2>1. CASE Podado(p) \/ NoPodado(p)
    <3>1. t \in DeCorreo(pet[p].correo) \ {pet[p].tok} /\ pet[p].pc = "podar"
          BY <1>1, <2>1 DEF Podado, NoPodado, Va, Borra, Igual
    <3>2. pet'[p].pc # "podar"
          BY <2>1 DEF Podado, NoPodado, Va, Fin
    <3> QED
          BY <1>3, <3>1, <3>2 DEF DeCorreo, Borrador, Solicita, PasosSolicitud
  <2>2. CASE Quitado(p)
    <3>1. t = pet[p].tok /\ pet[p].pc = "quitar" /\ pet'[p].pc # "quitar"
          BY <1>1, <2>2 DEF Quitado, Borra, Igual, Fin
    <3>2. tok[t].correo = pet[p].correo
          BY <3>1 DEF IInv, Suyos, ConTok
    <3> QED
          BY <1>3, <3>1, <3>2 DEF Borrador, Solicita, PasosSolicitud
  <2>3. ~Crea(p) /\ ~Marca(p)
        BY <1>1 DEF Crea, Marca, Igual, Guardado
  <2> QED
        BY <1>1, <1>3, <2>1, <2>2, <2>3
        DEF PasoDe, Pide, Manda, NoManda, NoQuitado, Abre, Mira, Gasta, NoMarca, Corta
<1> QED
    BY <1>1, <1>2, <1>3 DEF Paso

\* A token that serves goes on serving until a request of its address deletes it.
LEMMA SirveSigue ==
    ASSUME IInv, TypeOK', Paso, Crecen, NEW t \in Tokens, tok[t].estado # "libre", Sirve(t)
    PROVE  SirveLuego(t) \/ \E p \in Peticiones : Borrador(p, t)
<1>1. Sigue(t) /\ completados \subseteq completados'
    BY Marco
<1>2. /\ tok[t] \in Token /\ tok'[t] \in Token
      /\ reloj \in Nat /\ reloj' \in Nat /\ reloj' >= reloj
    BY DEF IInv, TypeOK, Crecen
<1>3. tok[t].vence \in Nat /\ tok'[t].vence = tok[t].vence
    BY <1>1, <1>2, TokenGuardado DEF Sigue
<1>4. CASE t \in completados
    BY <1>1, <1>4 DEF SirveLuego
<1>5. CASE reloj > tok[t].vence
    BY <1>2, <1>3, <1>5 DEF SirveLuego
<1>6. CASE tok[t].estado = "vivo"
  <2>1. CASE tok'[t].estado = "usado"
    <3>1. PICK p \in Peticiones : Marca(p) /\ pet[p].tok = t
      <4>1. tok'[t] # tok[t] /\ ~Quedan
            BY <1>6, <2>1 DEF Quedan, Igual
      <4>2. \A T \in SUBSET Tokens : ~Borra(T)
            BY <1>6, <2>1 DEF Borra, Igual
      <4>3. \A p \in Peticiones : ~Podado(p) /\ ~NoPodado(p) /\ ~Quitado(p)
        <5>1. ASSUME NEW p \in Peticiones
              PROVE  DeCorreo(pet[p].correo) \ {pet[p].tok} \subseteq Tokens
              BY DEF DeCorreo
        <5>2. ASSUME NEW p \in Peticiones, Quitado(p)
              PROVE  {x \in {pet[p].tok} : Guardado(x)} \subseteq Tokens
              BY <5>2, Locales DEF Quitado, IInv, TypeOK, ConTok
        <5> QED
              BY <4>1, <4>2, <5>1, <5>2 DEF Podado, NoPodado, Quitado
      <4>4. \A p \in Peticiones : ~Crea(p)
            BY <1>6, <2>1 DEF Crea, Igual
      <4>5. PICK p \in Peticiones : PasoDe(p)
            BY <4>1, <4>2 DEF Paso
      <4>6. Marca(p)
            BY <4>1, <4>3, <4>4, <4>5
            DEF PasoDe, Pide, Manda, NoManda, NoQuitado, Abre, Mira, Gasta, NoMarca, Corta
      <4> QED
            BY <4>1, <4>6 DEF Marca, Igual
    <3> QED
          BY <3>1 DEF Marca, SirveLuego
  <2>2. CASE tok'[t].estado = "vivo"
        BY <2>2 DEF SirveLuego
  <2>3. CASE tok'[t].estado \notin {"vivo", "usado"}
        BY <1>5, <1>6, <2>3, Mueren DEF Guardado
  <2> QED
        BY <2>1, <2>2, <2>3
<1> QED
    BY <1>4, <1>5, <1>6 DEF Sirve

\* Two requests for a link of one address, or one and a reset, are crossed.
LEMMA SinCruce ==
    ASSUME IInv, NEW p \in Peticiones, NEW q \in Peticiones, p # q,
           Solicita(pet[p]), pet[q].correo = pet[p].correo
    PROVE  pet[p].correo \in X
BY DEF IInv, Cruces, X

\* A request keeps its address while it moves, but when it begins or ends; one that
\* did not move is as it was.
LEMMA TrasPaso ==
    ASSUME IInv, Paso, NEW q \in Peticiones
    PROVE  \/ pet'[q] = pet[q]
           \/ PasoDe(q) /\ Otros(q)
BY DEF Paso, Otros

\* How a request that has a token came by it: it had it, it has just been given it, or
\* it has just opened the link.
LEMMA ConTokenTras ==
    ASSUME IInv, Paso, NEW q \in Peticiones, pet'[q].pc \in ConTok
    PROVE  \/ /\ pet[q].pc \in ConTok /\ pet'[q].correo = pet[q].correo
              /\ pet'[q].tok = pet[q].tok
              /\ pet'[q] = pet[q] \/ PasoDe(q)
           \/ Crea(q)
           \/ Abre(q)
<1>1. CASE pet'[q] = pet[q]
    BY <1>1
<1>2. CASE PasoDe(q)
    BY <1>2 DEF PasoDe, Pide, Manda, NoManda, Podado, NoPodado, Quitado, NoQuitado, Mira,
        Gasta, Marca, NoMarca, Corta, Va, Fin, ConTok
<1> QED
    BY <1>1, <1>2, TrasPaso

\* Every conjunct is kept.
LEMMA Paso_Suyos ==
    ASSUME IInv, TypeOK', Paso, Crecen PROVE Suyos'
<1> SUFFICES ASSUME NEW q \in Peticiones, pet'[q].pc \in ConTok
             PROVE  /\ tok'[pet'[q].tok].estado # "libre"
                    /\ tok'[pet'[q].tok].correo = pet'[q].correo
    BY DEF Suyos
<1>1. CASE pet[q].pc \in ConTok /\ pet'[q].correo = pet[q].correo /\ pet'[q].tok = pet[q].tok
  <2>1. pet[q].tok \in Tokens
        BY <1>1, Locales DEF IInv, TypeOK
  <2>2. tok[pet[q].tok].estado # "libre" /\ tok[pet[q].tok].correo = pet[q].correo
        BY <1>1 DEF IInv, Suyos
  <2> QED
        BY <1>1, <2>1, <2>2, Marco DEF Sigue
<1>2. CASE Crea(q)
    BY <1>2 DEF Crea
<1>3. CASE Abre(q)
    BY <1>3 DEF Abre, Vigente, Quedan, Igual
<1> QED
    BY <1>1, <1>2, <1>3, ConTokenTras

LEMMA Paso_Cruces ==
    ASSUME IInv, TypeOK', Paso, Crecen PROVE Cruces'
<1> SUFFICES ASSUME NEW p \in Peticiones, NEW q \in Peticiones, p # q, Solicita(pet'[p]),
                    pet'[q].correo = pet'[p].correo
             PROVE  pet'[p].correo \in cruzados'
    BY DEF Cruces, Solicita
<1>1. pet'[p].correo # Nada
  <2>1. pet'[p] \in Peticion
        BY DEF TypeOK
  <2>2. pet'[p].correo \in Correos
        BY <2>1, Locales DEF Solicita, PasosSolicitud, ConTok
  <2> QED
        BY <2>2, ConstantsAssumption
<1>2. CASE pet'[p] = pet[p] /\ pet'[q] = pet[q]
    BY <1>2 DEF IInv, Cruces, Crecen
<1>3. CASE Otros(p)
    BY <1>1, <1>3 DEF Otros
<1>4. CASE Otros(q)
    BY <1>1, <1>4 DEF Otros
<1> QED
    BY <1>2, <1>3, <1>4, TrasPaso

LEMMA Paso_Completados ==
    ASSUME IInv, TypeOK', Paso, Crecen PROVE Completados'
<1> SUFFICES ASSUME NEW t \in completados' PROVE tok'[t].estado \in {"usado", "borrado"}
    BY DEF Completados
<1>0. completados \subseteq Tokens
    BY DEF IInv, TypeOK
<1>1. CASE t \in completados
  <2>1. t \in Tokens /\ tok[t].estado \in {"usado", "borrado"}
        BY <1>0, <1>1 DEF IInv, Completados
  <2> QED
        BY <2>1, Marco DEF Sigue
<1>2. CASE t \notin completados
  <2>1. PICK p \in Peticiones : PasoDe(p)
        BY <1>2 DEF Paso, Callado
  <2>2. Marca(p)
        BY <1>2, <2>1 DEF PasoDe, Callado, Pide, Crea, Manda, NoManda, Podado, NoPodado,
            Quitado, NoQuitado, Abre, Mira, Gasta, NoMarca, Corta
  <2> QED
        BY <1>2, <2>2 DEF Marca
<1> QED
    BY <1>1, <1>2

\* A mail that is accepted is that of one request.
LEMMA TrasUltimo ==
    ASSUME IInv, Paso
    PROVE  \/ ultimo' = ultimo
           \/ \E p \in Peticiones : PasoDe(p) /\ Otros(p) /\ Manda(p)
BY DEF Paso, PasoDe, Callado, Pide, Crea, NoManda, Podado, NoPodado, Quitado, NoQuitado,
    Abre, Mira, Gasta, Marca, NoMarca, Corta

LEMMA Paso_Mandados ==
    ASSUME IInv, TypeOK', Paso, Crecen PROVE Mandados'
<1> SUFFICES ASSUME NEW e \in Correos, ultimo'[e] # Nada
             PROVE  tok'[ultimo'[e]].estado # "libre" /\ tok'[ultimo'[e]].correo = e
    BY DEF Mandados
<1>0. ultimo \in [Correos -> Tokens \cup {Nada}]
    BY DEF IInv, TypeOK
<1>1. CASE ultimo'[e] = ultimo[e]
  <2>1. /\ ultimo[e] \in Tokens
        /\ tok[ultimo[e]].estado # "libre" /\ tok[ultimo[e]].correo = e
        BY <1>0, <1>1 DEF IInv, Mandados
  <2> QED
        BY <1>1, <2>1, Marco DEF Sigue
<1>2. ASSUME NEW p \in Peticiones, Manda(p), ultimo'[e] # ultimo[e]
      PROVE  tok'[ultimo'[e]].estado # "libre" /\ tok'[ultimo'[e]].correo = e
  <2>1. pet[p].pc \in ConTok /\ e = pet[p].correo /\ ultimo'[e] = pet[p].tok
        BY <1>0, <1>2 DEF Manda, Va, ConTok
  <2>2. pet[p].tok \in Tokens
        BY <2>1, Locales DEF IInv, TypeOK
  <2>3. tok[pet[p].tok].estado # "libre" /\ tok[pet[p].tok].correo = e
        BY <2>1 DEF IInv, Suyos
  <2> QED
        BY <2>1, <2>2, <2>3, Marco DEF Sigue
<1> QED
    BY <1>1, <1>2, TrasUltimo

\* The last token of an address changes when a request of the address mails its own.
LEMMA UltimoSigue ==
    ASSUME IInv, Paso, NEW e \in Correos, ultimo'[e] # ultimo[e]
    PROVE  \E p \in Peticiones :
            /\ PasoDe(p) /\ Manda(p) /\ Solicita(pet[p])
            /\ pet[p].correo = e /\ ultimo'[e] = pet[p].tok
<1>1. PICK p \in Peticiones : PasoDe(p) /\ Manda(p)
    BY TrasUltimo
<1>2. pet[p].correo = e /\ ultimo'[e] = pet[p].tok
    BY <1>1 DEF Manda, IInv, TypeOK
<1> QED
    BY <1>1, <1>2 DEF Manda, Va, Solicita, PasosSolicitud

LEMMA Paso_EnSolicitud ==
    ASSUME IInv, TypeOK', Paso, Crecen PROVE EnSolicitud'
<1> SUFFICES ASSUME NEW q \in Peticiones, pet'[q].correo \in Correos, pet'[q].correo \notin X',
                    pet'[q].pc \in {"enviar", "podar", "quitar"}
             PROVE  /\ pet'[q].pc = "enviar" =>
                        SirveLuego(pet'[q].tok) /\ ultimo'[pet'[q].correo] # pet'[q].tok
                    /\ pet'[q].pc = "podar" => ultimo'[pet'[q].correo] = pet'[q].tok
                    /\ pet'[q].pc = "quitar" => ultimo'[pet'[q].correo] # pet'[q].tok
    BY DEF EnSolicitud, Sirve, SirveLuego
<1> DEFINE e == pet'[q].correo
           t == pet'[q].tok
<1>1. X \subseteq X' /\ e \notin X
    BY Marco
<1>2. CASE pet'[q] = pet[q]
  <2>1. Solicita(pet[q]) /\ pet[q].pc \in ConTok
        BY <1>2 DEF Solicita, PasosSolicitud, ConTok
  <2>2. t \in Tokens /\ tok[t].estado # "libre" /\ tok[t].correo = e
        BY <1>2, <2>1, Locales DEF IInv, TypeOK, Suyos
  <2>3. ASSUME NEW p \in Peticiones, PasoDe(p), pet'[p].pc # pet[p].pc, Solicita(pet[p]),
               pet[p].correo = e
        PROVE  FALSE
        BY <1>1, <1>2, <2>3, SinCruce
  <2>4. ultimo'[e] = ultimo[e]
    <3>1. \A p \in Peticiones : Manda(p) => pet'[p].pc # pet[p].pc
          BY DEF Manda, Va
    <3> QED
          BY <2>3, <3>1, UltimoSigue
  <2>5. Sirve(t) => SirveLuego(t)
        BY <2>2, <2>3, SirveSigue DEF Borrador
  <2> QED
        BY <1>1, <1>2, <2>4, <2>5 DEF IInv, EnSolicitud
<1>3. CASE Crea(q)
  <2>1. /\ pet'[q].pc = "enviar" /\ t \in Tokens /\ tok[t].estado = "libre"
        /\ tok'[t].estado = "vivo" /\ UNCHANGED ultimo
        BY <1>3 DEF Crea, Callado
  <2>2. ultimo[e] # t
    <3>1. e \in Correos /\ t # Nada
          BY <2>1, ConstantsAssumption
    <3>2. ultimo[e] # Nada => tok[ultimo[e]].estado # "libre"
          BY <3>1 DEF IInv, Mandados
    <3> QED
          BY <2>1, <3>1, <3>2
  <2> QED
        BY <2>1, <2>2 DEF SirveLuego
<1>4. CASE Manda(q)
    BY <1>4 DEF Manda, Va, IInv, TypeOK
<1>5. CASE NoManda(q)
    BY <1>1, <1>5 DEF NoManda, Callado, Va, IInv, EnSolicitud
<1>6. ~NoPodado(q)
    BY DEF NoPodado, Va, X
<1>7. CASE PasoDe(q)
    BY <1>3, <1>4, <1>5, <1>6, <1>7 DEF PasoDe, Pide, Podado, Quitado, NoQuitado, Abre,
        Mira, Gasta, Marca, NoMarca, Corta, Va, Fin
<1> QED
    BY <1>2, <1>7, TrasPaso

LEMMA Paso_Servidos ==
    ASSUME IInv, TypeOK', Paso, Crecen PROVE Servidos'
<1> SUFFICES ASSUME NEW e \in Correos, e \notin X', ultimo'[e] # Nada
             PROVE  SirveLuego(ultimo'[e])
    BY DEF Servidos, Sirve, SirveLuego
<1>1. X \subseteq X' /\ e \notin X
    BY Marco
<1>2. CASE ultimo'[e] = ultimo[e]
  <2> DEFINE t == ultimo[e]
  <2>1. t \in Tokens /\ tok[t].estado # "libre" /\ tok[t].correo = e /\ Sirve(t)
        BY <1>1, <1>2 DEF IInv, TypeOK, Mandados, Servidos
  <2>2. ASSUME NEW p \in Peticiones, Borrador(p, t) PROVE FALSE
    <3>1. pet[p].correo = e /\ e \in Correos \ X
          BY <1>1, <2>1, <2>2 DEF Borrador
    <3> QED
          BY <2>2, <3>1 DEF Borrador, IInv, EnSolicitud
  <2> QED
        BY <1>2, <2>1, <2>2, SirveSigue
<1>3. CASE ultimo'[e] # ultimo[e]
  <2>1. PICK p \in Peticiones :
            PasoDe(p) /\ Manda(p) /\ pet[p].correo = e /\ ultimo'[e] = pet[p].tok
        BY <1>3, UltimoSigue
  <2> DEFINE t == pet[p].tok
  <2>2. pet[p].pc = "enviar" /\ Quedan
        BY <2>1 DEF Manda, Va
  <2>3. t \in Tokens /\ tok[t].estado # "libre" /\ Sirve(t)
    <3>1. pet[p] \in Peticion /\ pet[p].pc \in ConTok
          BY <2>2 DEF IInv, TypeOK, ConTok
    <3>2. t \in Tokens
          BY <3>1, Locales
    <3>3. tok[t].estado # "libre"
          BY <3>1 DEF IInv, Suyos
    <3>4. pet[p].correo \in Correos \ X
          BY <1>1, <2>1
    <3>5. Sirve(t)
          BY <2>2, <3>4 DEF IInv, EnSolicitud
    <3> QED
          BY <3>2, <3>3, <3>5
  <2>4. tok'[t] = tok[t]
        BY <2>2, <2>3 DEF Quedan, Igual
  <2>5. /\ tok[t] \in Token
        /\ reloj \in Nat /\ reloj' \in Nat /\ reloj' >= reloj
        BY <2>3 DEF IInv, TypeOK, Crecen
  <2>6. tok[t].vence \in Nat
        BY <2>3, <2>5, TokenGuardado
  <2> QED
        BY <2>1, <2>3, <2>4, <2>5, <2>6, Marco DEF Sirve, SirveLuego
<1> QED
    BY <1>2, <1>3

\* A token is given out by the request that mails it.
LEMMA Nacen ==
    ASSUME IInv, Paso, NEW t \in Tokens, tok[t].estado = "libre", tok'[t].estado = "vivo"
    PROVE  \E p \in Peticiones :
            /\ pet'[p].correo = tok'[t].correo /\ pet'[p].pc = "enviar"
            /\ pet'[p].tok = t
<1>1. tok'[t] # tok[t] /\ ~Quedan
    BY DEF Quedan, Igual
<1>2. \A T \in SUBSET Tokens : ~Borra(T)
    BY DEF Borra, Igual
<1>3. PICK p \in Peticiones : PasoDe(p)
    BY <1>1, <1>2 DEF Paso
<1>4. ~Podado(p) /\ ~NoPodado(p)
  <2>1. DeCorreo(pet[p].correo) \ {pet[p].tok} \subseteq Tokens
        BY DEF DeCorreo
  <2> QED
        BY <1>1, <1>2, <2>1 DEF Podado, NoPodado
<1>5. ~Quitado(p)
  <2>1. ASSUME Quitado(p) PROVE {x \in {pet[p].tok} : Guardado(x)} \subseteq Tokens
        BY <2>1, Locales DEF Quitado, IInv, TypeOK, ConTok
  <2> QED
        BY <1>1, <1>2, <2>1 DEF Quitado
<1>6. ~Marca(p)
    BY <1>1 DEF Marca, Igual
<1>7. Crea(p)
    BY <1>1, <1>3, <1>4, <1>5, <1>6
    DEF PasoDe, Pide, Manda, NoManda, NoQuitado, Abre, Mira, Gasta, NoMarca, Corta
<1> QED
    BY <1>1, <1>7 DEF Crea, Igual

LEMMA Paso_Solos ==
    ASSUME IInv, TypeOK', Paso, Crecen PROVE Solos'
<1> DEFINE e(t) == tok'[t].correo
<1> SUFFICES ASSUME NEW t \in Tokens, tok'[t].estado = "vivo", e(t) \notin X'
             PROVE  \/ t = ultimo'[e(t)]
                    \/ \E p \in Peticiones :
                        /\ pet'[p].correo = e(t)
                        /\ pet'[p].pc = "podar" \/ (Solicita(pet'[p]) /\ pet'[p].tok = t)
    BY DEF Solos, Solicita
<1>1. CASE tok[t].estado = "libre"
    BY <1>1, Nacen DEF Solicita, PasosSolicitud
<1>2. CASE tok[t].estado # "libre"
  <2>1. /\ tok[t].estado = "vivo" /\ tok[t].correo = e(t) /\ e(t) \notin X
        BY <1>2, Marco DEF Sigue
  <2>2. e(t) \in Correos
    <3>1. tok[t] \in Token
          BY DEF IInv, TypeOK
    <3> QED
          BY <1>2, <2>1, <3>1, TokenGuardado
  <2>3. CASE t = ultimo[e(t)]
    <3>1. CASE ultimo'[e(t)] # ultimo[e(t)]
      <4>1. PICK p \in Peticiones : Manda(p) /\ pet[p].correo = e(t)
            BY <2>2, <3>1, UltimoSigue
      <4> QED
            BY <4>1 DEF Manda, Va
    <3> QED
          BY <2>3, <3>1
  <2>4. ASSUME NEW p \in Peticiones, pet[p].correo = e(t),
               pet[p].pc = "podar" \/ (Solicita(pet[p]) /\ pet[p].tok = t)
        PROVE  \/ t = ultimo'[e(t)]
               \/ /\ pet'[p].correo = e(t)
                  /\ pet'[p].pc = "podar" \/ (Solicita(pet'[p]) /\ pet'[p].tok = t)
    <3>1. CASE pet'[p] = pet[p]
          BY <2>4, <3>1
    <3>2. CASE PasoDe(p)
      <4>1. pet[p].pc \in {"enviar", "podar", "quitar"}
        <5>1. pet[p].pc = "crear" => pet[p].tok = Nada
              BY Locales DEF IInv, TypeOK
        <5> QED
              BY <2>4, <5>1, ConstantsAssumption DEF Solicita, PasosSolicitud
      <4>2. ~Corta(p) /\ ~NoPodado(p) /\ ~NoQuitado(p)
        <5>1. pet[p].correo \notin fallidos'
              BY <2>4 DEF X
        <5> QED
              BY <4>1, <5>1 DEF Corta, NoPodado, NoQuitado, Solicita, PasosSolicitud
      <4>3. CASE Manda(p) \/ NoManda(p)
            BY <2>4, <4>3 DEF Manda, NoManda, Va, Solicita, PasosSolicitud
      <4>4. CASE Podado(p)
        <5>1. t \notin DeCorreo(pet[p].correo) \ {pet[p].tok}
              BY <4>4 DEF Podado, Borra
        <5>2. t = pet[p].tok
              BY <2>1, <2>4, <5>1 DEF DeCorreo, Guardado
        <5>3. ultimo[e(t)] = t /\ ultimo' = ultimo
              BY <2>1, <2>2, <2>4, <4>4, <5>2 DEF Podado, Callado, IInv, EnSolicitud
        <5> QED
              BY <5>3
      <4>5. ~Quitado(p)
        <5>1. ASSUME Quitado(p) PROVE FALSE
          <6>1. t = pet[p].tok /\ Guardado(t)
                BY <2>1, <2>4, <5>1 DEF Quitado, Guardado
          <6> QED
                BY <5>1, <6>1 DEF Quitado, Borra
        <5> QED
              BY <5>1
      <4> QED
            BY <3>2, <4>1, <4>2, <4>3, <4>4, <4>5
            DEF PasoDe, Pide, Crea, Abre, Mira, Gasta, Marca, NoMarca, Va
    <3> QED
          BY <3>1, <3>2, TrasPaso
  <2>5. \/ t = ultimo[e(t)]
        \/ \E p \in Peticiones :
            /\ pet[p].correo = e(t)
            /\ pet[p].pc = "podar" \/ (Solicita(pet[p]) /\ pet[p].tok = t)
        BY <2>1 DEF IInv, Solos
  <2> QED
        BY <2>3, <2>4, <2>5
<1> QED
    BY <1>1, <1>2

\* Every step keeps the invariant.
LEMMA NextIInv ==
    ASSUME IInv, [Next]_vars
    PROVE  IInv'
<1>1. CASE Next
  <2>1. TypeOK' /\ Paso /\ Crecen
        BY <1>1, NextPaso DEF IInv
  <2> QED
        BY <2>1, Paso_Suyos, Paso_Cruces, Paso_Completados, Paso_Mandados,
           Paso_EnSolicitud, Paso_Servidos, Paso_Solos DEF IInv
<1>2. CASE UNCHANGED vars
    BY <1>2
    DEF vars, IInv, TypeOK, Suyos, Cruces, Completados, Mandados,
        EnSolicitud, Servidos, Solos, Sirve, Guardado, Solicita, X
<1> QED
    BY <1>1, <1>2

-----------------------------------------------------------------------------
(* The theorems *)

\* Every state that is reached satisfies the inductive invariant: how far the last
\* request of each address has come, and what resets leave of its token
\* (password-reset.service.ts:85, :170).
THEOREM SpecIInv == Spec => []IInv
BY InitIInv, NextIInv, PTL DEF Spec

\* Documents, locals and histories have their types.
THEOREM TypeCorrect == Spec => []TypeOK
<1>1. IInv => TypeOK
    BY DEF IInv
<1> QED
    BY <1>1, SpecIInv, PTL

\* The last link mailed to an address serves until a reset with it is completed or it
\* expires, wherever a reset stops or fails, unless requests for the address crossed or
\* one for a link could not finish (password-reset.service.ts:85, :104, :194).
THEOREM LastLinkServes == Spec => []EnlaceSirve
<1>1. IInv => EnlaceSirve
    BY DEF IInv, TypeOK, Mandados, Servidos, Sirve, Vigente, EnlaceSirve, X, Token
<1> QED
    BY <1>1, SpecIInv, PTL

\* Once the requests of an address are over, no older link serves
\* (password-reset.service.ts:85).
THEOREM OnlyLastLinkServes == Spec => []SoloElUltimo
<1>1. IInv => SoloElUltimo
    BY DEF IInv, Solos, Vigente, SoloElUltimo, X
<1> QED
    BY <1>1, SpecIInv, PTL

\* A link whose reset was completed opens no other reset
\* (password-reset.service.ts:165, :199).
THEOREM LinkIsUsedOnce == Spec => UsoUnico
<1>1. ASSUME IInv, [Next]_vars
      PROVE  [\A p \in Peticiones :
                pet[p].pc = "libre" /\ pet'[p].pc = "cuenta"
                => pet'[p].tok \notin completados]_vars
  <2>1. CASE Next
    <3>1. Paso /\ TypeOK'
          BY <1>1, <2>1, NextPaso DEF IInv
    <3>2. ASSUME NEW p \in Peticiones, pet[p].pc = "libre", pet'[p].pc = "cuenta"
          PROVE  pet'[p].tok \notin completados
      <4>1. PasoDe(p)
            BY <1>1, <3>1, <3>2, TrasPaso
      <4>2. Abre(p)
            BY <3>2, <4>1 DEF PasoDe, Pide, Crea, Manda, NoManda, Podado, NoPodado, Quitado,
                NoQuitado, Mira, Gasta, Marca, NoMarca, Corta, Va, Fin
      <4>3. tok[pet'[p].tok].estado = "vivo"
            BY <4>2 DEF Abre, Vigente
      <4> QED
            BY <1>1, <4>3 DEF IInv, Completados
    <3> QED
          BY <3>2
  <2>2. CASE UNCHANGED vars
        BY <2>2
  <2> QED
        BY <1>1, <2>1, <2>2
<1> QED
    BY <1>1, SpecIInv, PTL DEF Spec, UsoUnico
=============================================================================
