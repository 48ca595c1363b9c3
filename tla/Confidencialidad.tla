-------------------------- MODULE Confidencialidad --------------------------
(***************************************************************************)
(* The confidentiality agreement (confidentiality.service.ts and its       *)
(* interceptor): every request of an account passes only if the account    *)
(* has accepted the version of the agreement that the host carries.  Hosts *)
(* remember the accounts that have, for a while; a deployment brings a     *)
(* host to a newer version, one host at a time, and ends its requests.     *)
(*                                                                         *)
(* Each action is one round trip.  That an entry of a host's memory        *)
(* expires is an action of its own: nothing depends on when.               *)
(***************************************************************************)
EXTENDS Naturals

CONSTANTS
    Usuarios, Hosts,
    Peticiones,     \* requests; each one is made once
    MaxVersion,     \* bound: the last version
    Nada

ConstantsOK == MaxVersion \in Nat \ {0}

Versiones == 1..MaxVersion

VARIABLES
    version,        \* version[h]: CURRENT_AGREEMENT_VERSION of the code a host runs
    cache,          \* cache[h]: the accounts a host remembers
    aceptadas,      \* the stored acceptances: pairs of account and version
    pet,            \* pet[p]: progress and locals of a request
    entradas,       \* history: what a request passed with
    confirmadas     \* history: acceptances that were answered with success

vars == <<version, cache, aceptadas, pet, entradas, confirmadas>>

Actas == Usuarios \X Versiones

\* op: what the request is for; previa: its account had confirmed the version
\* before it began.
Pasos == {"mira", "busca", "crea", "audita", "relee"}
Fines == {"pasa", "falta", "error"}

Peticion ==
    [pc : {"libre"}]
    \cup [pc : Pasos \cup Fines, host : Hosts, u : Usuarios, v : Versiones, previa : BOOLEAN]

TypeOK ==
    /\ version \in [Hosts -> Versiones]
    /\ cache \in [Hosts -> SUBSET Usuarios]
    /\ aceptadas \subseteq Actas
    /\ pet \in [Peticiones -> Peticion]
    /\ entradas \subseteq Actas /\ confirmadas \subseteq Actas

Init ==
    /\ version = [h \in Hosts |-> 1]
    /\ cache = [h \in Hosts |-> {}]
    /\ aceptadas \in SUBSET (Usuarios \X {1})
    /\ pet = [p \in Peticiones |-> [pc |-> "libre"]]
    /\ entradas = {} /\ confirmadas = {}

Avanza(p, pc) == pet' = [pet EXCEPT ![p].pc = pc]

Acta(p) == <<pet[p].u, pet[p].v>>

Recuerda(h, u) == cache' = [cache EXCEPT ![h] = @ \cup {u}]
Olvida(h, u) == cache' = [cache EXCEPT ![h] = @ \ {u}]

Llega(p, h, u, pc) ==
    /\ pet[p].pc = "libre"
    /\ pet' = [pet EXCEPT ![p] = [pc |-> pc, host |-> h, u |-> u, v |-> version[h],
                                  previa |-> <<u, version[h]>> \in confirmadas]]

\* An error of the database: the gate refuses as well, an acceptance is an error.
Falla(p) ==
    /\ pet[p].pc \in Pasos \ {"audita"}
    /\ Avanza(p, "error")
    /\ UNCHANGED <<version, cache, aceptadas, entradas, confirmadas>>

-----------------------------------------------------------------------------
(* The gate *)

\* A request of an account: the memory of the host first.
Entra(p, h, u) ==
    /\ IF u \in cache[h]
       THEN /\ Llega(p, h, u, "pasa")
            /\ entradas' = entradas \cup {<<u, version[h]>>}
       ELSE Llega(p, h, u, "mira") /\ UNCHANGED entradas
    /\ UNCHANGED <<version, cache, aceptadas, confirmadas>>

\* hasAcceptedCurrent: the findOne, and what the host remembers of it.
Mira(p) ==
    /\ pet[p].pc = "mira"
    /\ LET r == pet[p] IN
        IF Acta(p) \in aceptadas
        THEN /\ Recuerda(r.host, r.u)
             /\ Avanza(p, "pasa")
             /\ entradas' = entradas \cup {Acta(p)}
        ELSE /\ Olvida(r.host, r.u)
             /\ Avanza(p, "falta")
             /\ UNCHANGED entradas
    /\ UNCHANGED <<version, aceptadas, confirmadas>>

-----------------------------------------------------------------------------
(* The acceptance *)

\* accept of the version the user saw: another one than the host's is a conflict.
Acepta(p, h, u, vista) ==
    /\ vista = version[h]
    /\ Llega(p, h, u, "busca")
    /\ UNCHANGED <<version, cache, aceptadas, entradas, confirmadas>>

\* It is answered with success.
Confirma(p) ==
    /\ Recuerda(pet[p].host, pet[p].u)
    /\ confirmadas' = confirmadas \cup {Acta(p)}
    /\ Avanza(p, "pasa")

\* The findOne: an acceptance that is there is the answer.
Busca(p) ==
    /\ pet[p].pc = "busca"
    /\ IF Acta(p) \in aceptadas THEN Confirma(p)
       ELSE Avanza(p, "crea") /\ UNCHANGED <<cache, confirmadas>>
    /\ UNCHANGED <<version, aceptadas, entradas>>

\* Faulty variant: the host remembers the account before the insertion.
CreaYRecuerda(p) ==
    /\ pet[p].pc = "crea"
    /\ Recuerda(pet[p].host, pet[p].u)
    /\ \/ /\ Acta(p) \notin aceptadas
          /\ aceptadas' = aceptadas \cup {Acta(p)}
          /\ Avanza(p, "audita")
       \/ Avanza(p, "error") /\ UNCHANGED aceptadas
    /\ UNCHANGED <<version, entradas, confirmadas>>

\* The insertion, under the unique index.  Its answer may be lost.
Crea(p) ==
    /\ pet[p].pc = "crea"
    /\ IF Acta(p) \in aceptadas THEN Avanza(p, "relee") /\ UNCHANGED aceptadas
       ELSE /\ aceptadas' = aceptadas \cup {Acta(p)}
            /\ Avanza(p, "audita") \/ Avanza(p, "error")
    /\ UNCHANGED <<version, cache, entradas, confirmadas>>

\* The audit event never fails.
Audita(p) ==
    /\ pet[p].pc = "audita"
    /\ Confirma(p)
    /\ UNCHANGED <<version, aceptadas, entradas>>

\* The one that lost the race reads what the other inserted.
Relee(p) ==
    /\ pet[p].pc = "relee"
    /\ IF Acta(p) \in aceptadas THEN Confirma(p)
       ELSE Avanza(p, "error") /\ UNCHANGED <<cache, confirmadas>>
    /\ UNCHANGED <<version, aceptadas, entradas>>

-----------------------------------------------------------------------------
\* CACHE_TTL_MS
Caduca(h, u) ==
    /\ u \in cache[h]
    /\ Olvida(h, u)
    /\ UNCHANGED <<version, aceptadas, pet, entradas, confirmadas>>

\* A host restarts, with the version it has or the next: its memory and its
\* requests are gone.
Despliega(h, v) ==
    /\ v \in {version[h], version[h] + 1} \cap Versiones
    /\ version' = [version EXCEPT ![h] = v]
    /\ cache' = [cache EXCEPT ![h] = {}]
    /\ pet' = [p \in Peticiones |->
                IF pet[p].pc \in Pasos /\ pet[p].host = h THEN [pet[p] EXCEPT !.pc = "error"]
                ELSE pet[p]]
    /\ UNCHANGED <<aceptadas, entradas, confirmadas>>

Next ==
    \/ \E p \in Peticiones :
        \/ \E h \in Hosts, u \in Usuarios : Entra(p, h, u)
        \/ \E h \in Hosts, u \in Usuarios, v \in Versiones : Acepta(p, h, u, v)
        \/ Mira(p) \/ Busca(p) \/ Crea(p) \/ Audita(p) \/ Relee(p) \/ Falla(p)
    \/ \E h \in Hosts :
        \/ \E u \in Usuarios : Caduca(h, u)
        \/ \E v \in Versiones : Despliega(h, v)

Spec == Init /\ [][Next]_vars

-----------------------------------------------------------------------------
(* Properties *)

\* Nobody passes, and nobody is told to have accepted, without a stored acceptance
\* of the version the host carries, although hosts remember and are deployed one by
\* one; and whoever was told is never refused by the same version again, whichever
\* host answers, but when the database fails (confidentiality.service.ts:81, :172).
PuertaFiel ==
    /\ entradas \subseteq aceptadas /\ confirmadas \subseteq aceptadas
    /\ \A p \in Peticiones : pet[p].pc = "falta" => ~pet[p].previa
=============================================================================
