---------------------------- MODULE Restablecer ----------------------------
(***************************************************************************)
(* Password reset (password-reset.service.ts): a request stores the hash   *)
(* of a new token, mails the link and then deletes the tokens that were    *)
(* there before; a link is checked, the password is set and the token is   *)
(* marked as used, in writes of their own.                                 *)
(*                                                                         *)
(* Tokens are stored and deleted by the address as it was typed, accounts  *)
(* are found by the normalised one: several addresses can be of one        *)
(* account.  Each action is one round trip; passwords satisfy the policy.  *)
(***************************************************************************)
EXTENDS Naturals

CONSTANTS
    Cuentas,
    Correos,        \* addresses as they are typed
    CuentaDe,       \* the account of an address, by its normalised form
    Tokens,
    Peticiones,     \* requests; each one is made once
    Vida,           \* life of a token: one hour
    Gracia,         \* what the TTL index leaves an expired token: one hour
    MaxReloj,       \* bound: the clock
    Nada            \* no value

ASSUME ConstantsAssumption ==
    /\ CuentaDe \in [Correos -> Cuentas]
    /\ Vida \in Nat /\ Gracia \in Nat /\ MaxReloj \in Nat
    /\ Nada \notin Correos /\ Nada \notin Tokens

VARIABLES
    activo,         \* activo[c]: the account is not suspended
    tok,            \* tok[t]: the token, also the ones that are no longer stored
    reloj,
    pet,            \* pet[p]: progress and locals of a request
    ultimo,         \* history: the token of the last mail accepted for an address
    completados,    \* history: tokens with a reset that came to its end
    cruzados,       \* history: addresses with a request in flight beside another
    fallidos        \* history: addresses with a request for a link that could not finish

vars == <<activo, tok, reloj, pet, ultimo, completados, cruzados, fallidos>>

Token == [estado : {"libre"}, correo : {Nada}, vence : {0}]
         \cup [estado : {"vivo", "usado", "borrado"}, correo : Correos, vence : Nat]

\* The steps of a request for a link, and those of a reset
PasosSolicitud == {"crear", "enviar", "podar", "quitar"}
PasosReset == {"cuenta", "escribir", "marcar"}

Peticion ==
    [pc : {"libre", "hecha"}, correo : {Nada}, tok : {Nada}]
    \cup [pc : {"crear"}, correo : Correos, tok : {Nada}]
    \cup [pc : (PasosSolicitud \ {"crear"}) \cup PasosReset, correo : Correos, tok : Tokens]

EnReposo(pc) == [pc |-> pc, correo |-> Nada, tok |-> Nada]

TypeOK ==
    /\ activo \in [Cuentas -> BOOLEAN]
    /\ tok \in [Tokens -> Token]
    /\ reloj \in Nat
    /\ pet \in [Peticiones -> Peticion]
    /\ ultimo \in [Correos -> Tokens \cup {Nada}]
    /\ completados \subseteq Tokens
    /\ cruzados \subseteq Correos /\ fallidos \subseteq Correos

Init ==
    /\ activo \in [Cuentas -> BOOLEAN]
    /\ tok = [t \in Tokens |-> [estado |-> "libre", correo |-> Nada, vence |-> 0]]
    /\ reloj = 0
    /\ pet = [p \in Peticiones |-> EnReposo("libre")]
    /\ ultimo = [e \in Correos |-> Nada]
    /\ completados = {}
    /\ cruzados = {} /\ fallidos = {}

historia == <<ultimo, completados>>

Solicita(r) == r.pc \in PasosSolicitud

\* The request goes on as r.  Requests for the same address cross, unless both
\* are resets.
Seguir(p, r) ==
    /\ pet' = [pet EXCEPT ![p] = r]
    /\ cruzados' = cruzados \cup
        {e \in {r.correo} : \E q \in Peticiones \ {p} :
            pet[q].correo = e /\ (Solicita(r) \/ Solicita(pet[q]))}

Terminar(p) ==
    /\ pet' = [pet EXCEPT ![p] = EnReposo("hecha")]
    /\ UNCHANGED cruzados

\* An error of the database or a process that ends.  A reset writes nothing that
\* another request would miss.
Abortar(p) ==
    /\ pet[p].pc \in PasosSolicitud \cup PasosReset
    /\ Terminar(p)
    /\ fallidos' = fallidos \cup {e \in {pet[p].correo} : Solicita(pet[p])}
    /\ UNCHANGED <<activo, tok, reloj, historia>>

-----------------------------------------------------------------------------
(* Requests for a link *)

\* findByEmail
Solicitar(p, e) ==
    /\ pet[p].pc = "libre" /\ activo[CuentaDe[e]]
    /\ Seguir(p, [pc |-> "crear", correo |-> e, tok |-> Nada])
    /\ UNCHANGED <<activo, tok, reloj, historia, fallidos>>

\* Faulty variant: the token is stored and the mail goes without it.
CreaYNoLleva(p) ==
    /\ pet[p].pc = "crear"
    /\ \E t \in Tokens :
        /\ tok[t].estado = "libre"
        /\ tok' = [tok EXCEPT ![t] = [estado |-> "vivo", correo |-> pet[p].correo,
                                      vence |-> reloj + Vida]]
        /\ Seguir(p, [pet[p] EXCEPT !.pc = "enviar"])
    /\ UNCHANGED <<activo, reloj, historia, fallidos>>

CreaToken(p) ==
    /\ pet[p].pc = "crear"
    /\ \E t \in Tokens :
        /\ tok[t].estado = "libre"
        /\ tok' = [tok EXCEPT ![t] = [estado |-> "vivo", correo |-> pet[p].correo,
                                      vence |-> reloj + Vida]]
        /\ Seguir(p, [pet[p] EXCEPT !.pc = "enviar", !.tok = t])
    /\ UNCHANGED <<activo, reloj, historia, fallidos>>

\* The mail server accepts the message, or the call fails (the message may have
\* gone out all the same).
Envia(p) ==
    /\ pet[p].pc = "enviar"
    /\ \/ /\ ultimo' = [ultimo EXCEPT ![pet[p].correo] = pet[p].tok]
          /\ Seguir(p, [pet[p] EXCEPT !.pc = "podar"])
       \/ Seguir(p, [pet[p] EXCEPT !.pc = "quitar"]) /\ UNCHANGED ultimo
    /\ UNCHANGED <<activo, tok, reloj, completados, fallidos>>

Borrar(T) == tok' = [t \in Tokens |-> IF t \in T THEN [tok[t] EXCEPT !.estado = "borrado"]
                                      ELSE tok[t]]

Guardado(t) == tok[t].estado \in {"vivo", "usado"}

DeCorreo(e) == {t \in Tokens : Guardado(t) /\ tok[t].correo = e}

\* Faulty variant: older tokens stay.
PodaNada(p) ==
    /\ pet[p].pc = "podar"
    /\ Terminar(p)
    /\ UNCHANGED <<activo, tok, reloj, historia, fallidos>>

\* deleteMany of the other tokens of the address.  An error lands in the same
\* catch as a failed mail: the new token goes.
Poda(p) ==
    /\ pet[p].pc = "podar"
    /\ LET e == pet[p].correo IN
        \/ /\ Borrar(DeCorreo(e) \ {pet[p].tok})
           /\ Terminar(p)
           /\ UNCHANGED fallidos
        \/ \E T \in {{}, DeCorreo(e) \ {pet[p].tok}} :
           /\ Borrar(T)
           /\ Seguir(p, [pet[p] EXCEPT !.pc = "quitar"])
           /\ fallidos' = fallidos \cup {e}
    /\ UNCHANGED <<activo, reloj, historia>>

\* deleteMany of the new token; an error is only logged.
Quita(p) ==
    /\ pet[p].pc = "quitar"
    /\ \/ Borrar({t \in {pet[p].tok} : Guardado(t)}) /\ UNCHANGED fallidos
       \/ fallidos' = fallidos \cup {pet[p].correo} /\ UNCHANGED tok
    /\ Terminar(p)
    /\ UNCHANGED <<activo, reloj, historia>>

-----------------------------------------------------------------------------
(* Resets *)

\* Faulty variant: a token that was used is as good as new.
VigenteUsado(t, e) == Guardado(t) /\ tok[t].correo = e /\ reloj <= tok[t].vence

\* What validateToken answers, and what a reset asks first
Vigente(t, e) == tok[t].estado = "vivo" /\ tok[t].correo = e /\ reloj <= tok[t].vence

\* resetPasswordForAdmin: the findOne
Restablece(p, t, e) ==
    /\ pet[p].pc = "libre" /\ Vigente(t, e)
    /\ Seguir(p, [pc |-> "cuenta", correo |-> e, tok |-> t])
    /\ UNCHANGED <<activo, tok, reloj, historia, fallidos>>

LeeCuenta(p) ==
    /\ pet[p].pc = "cuenta"
    /\ IF activo[CuentaDe[pet[p].correo]] THEN Seguir(p, [pet[p] EXCEPT !.pc = "escribir"])
       ELSE Terminar(p)
    /\ UNCHANGED <<activo, tok, reloj, historia, fallidos>>

\* Faulty variant: the token is marked before the password is set.
MarcaAntes(p) ==
    /\ pet[p].pc = "escribir" /\ Guardado(pet[p].tok)
    /\ tok' = [tok EXCEPT ![pet[p].tok].estado = "usado"]
    /\ Seguir(p, [pet[p] EXCEPT !.pc = "marcar"])
    /\ UNCHANGED <<activo, reloj, historia, fallidos>>

\* usersService.update
EscribeClave(p) ==
    /\ pet[p].pc = "escribir"
    /\ Seguir(p, [pet[p] EXCEPT !.pc = "marcar"])
    /\ UNCHANGED <<activo, tok, reloj, historia, fallidos>>

\* save: it fails when the document is no longer there.  The answer may be lost.
MarcaUsado(p) ==
    /\ pet[p].pc = "marcar"
    /\ LET t == pet[p].tok IN
        \/ /\ Guardado(t)
           /\ tok' = [tok EXCEPT ![t].estado = "usado"]
           /\ completados' = completados \cup {t}
        \/ ~Guardado(t) /\ UNCHANGED <<tok, completados>>
    /\ Terminar(p)
    /\ UNCHANGED <<activo, reloj, ultimo, fallidos>>

-----------------------------------------------------------------------------
(* The rest of the system *)

\* An administrator suspends or restores the account (Usuarios).
CambiaActivo(c) ==
    /\ activo' = [activo EXCEPT ![c] = ~@]
    /\ UNCHANGED <<tok, reloj, pet, historia, cruzados, fallidos>>

\* The TTL index
Purga(t) ==
    /\ Guardado(t) /\ tok[t].vence + Gracia < reloj
    /\ Borrar({t})
    /\ UNCHANGED <<activo, reloj, pet, historia, cruzados, fallidos>>

Pasa ==
    /\ reloj < MaxReloj
    /\ reloj' = reloj + 1
    /\ UNCHANGED <<activo, tok, pet, historia, cruzados, fallidos>>

Next ==
    \/ \E p \in Peticiones :
        \/ \E e \in Correos : Solicitar(p, e)
        \/ \E t \in Tokens, e \in Correos : Restablece(p, t, e)
        \/ CreaToken(p) \/ Envia(p) \/ Poda(p) \/ Quita(p)
        \/ LeeCuenta(p) \/ EscribeClave(p) \/ MarcaUsado(p) \/ Abortar(p)
    \/ \E c \in Cuentas : CambiaActivo(c)
    \/ \E t \in Tokens : Purga(t)
    \/ Pasa

Spec == Init /\ [][Next]_vars

-----------------------------------------------------------------------------
(* Properties *)

\* A link whose reset was completed opens no other reset, whatever is in flight
\* (password-reset.service.ts:165, :199).
UsoUnico ==
    [][\A p \in Peticiones :
        pet[p].pc = "libre" /\ pet'[p].pc = "cuenta" => pet'[p].tok \notin completados]_vars

\* The last link that was mailed to an address can be used until a reset with it is
\* completed or it expires, whatever later requests fail to send and wherever a reset
\* stops or fails: one that set the password and was answered with an error can be
\* repeated.  Excepted are addresses whose requests crossed, or with a request for a
\* link that could not finish (password-reset.service.ts:85, :104, :194).
EnlaceSirve ==
    \A e \in Correos \ (cruzados \cup fallidos) :
        LET t == ultimo[e] IN
        t # Nada => Vigente(t, e) \/ t \in completados \/ reloj > tok[t].vence

\* And it is the only one that can: those mailed before to the same address die,
\* once the request is over.
SoloElUltimo ==
    \A t \in Tokens, e \in Correos \ (cruzados \cup fallidos) :
        Vigente(t, e) => t = ultimo[e] \/ \E p \in Peticiones : pet[p].correo = e
=============================================================================
