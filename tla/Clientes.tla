------------------------------ MODULE Clientes ------------------------------
(***************************************************************************)
(* The customers of a tenant and their contacts (clientes.service.ts,      *)
(* contactos.service.ts).  Neither is ever deleted: removing one sets a    *)
(* field, which documents older than the field do not have, and which a    *)
(* switch reads in a round trip and writes in a later one.  A contact is   *)
(* added after a look at its customer.                                     *)
(*                                                                         *)
(* Names and the other texts are left out, and so are reads that nothing   *)
(* follows.  The RFC is the one the code stores: trimmed, in capitals.     *)
(***************************************************************************)
EXTENDS Naturals

CONSTANTS
    Ids,            \* ids of customers
    Contactos,      \* ids of contacts
    RFCs,
    Peticiones,     \* requests; each one is made once
    Ausente,        \* the field of a document older than the field
    Nada            \* no document, no RFC

VARIABLES
    cliente,        \* cliente[x]: the document, or Nada
    contacto,       \* contacto[y]: the document, or Nada
    pet             \* pet[p]: progress and locals of a request

vars == <<cliente, contacto, pet>>

Estado == {TRUE, FALSE, Ausente}

Cliente == [rfc : RFCs \cup {Nada}, activo : Estado]
Contacto == [cliente : Ids, activo : Estado]

ConstantsOK ==
    /\ Nada \notin RFCs \cup Ids \cup Contactos \cup BOOLEAN
    /\ Nada \notin Cliente \cup Contacto
    /\ Ausente # Nada

\* doc: the customer or the contact in question; previo: whether it was visible when
\* it was read, and so whether it is to be hidden.
Peticion ==
    [pc : {"libre", "hecha"}]
    \cup [pc : {"contactoNuevo"}, doc : Ids]
    \cup [pc : {"alternaContacto", "quitaContacto"}, doc : Contactos]
    \cup [pc : {"guardaCliente"}, doc : Ids, previo : BOOLEAN]
    \cup [pc : {"guardaContacto"}, doc : Contactos, previo : BOOLEAN]

TypeOK ==
    /\ cliente \in [Ids -> Cliente \cup {Nada}]
    /\ contacto \in [Contactos -> Contacto \cup {Nada}]
    /\ pet \in [Peticiones -> Peticion]

Existentes == {x \in Ids : cliente[x] # Nada}

\* What lists show: `activo: { $ne: false }`
Visible(d) == d.activo # FALSE

\* The partial unique index on (tenantId, rfc): only of documents that say that they
\* are active.
Admite(x, d) ==
    \A z \in Existentes \ {x} :
        ~(/\ d.activo = TRUE /\ cliente[z].activo = TRUE
          /\ d.rfc # Nada /\ cliente[z].rfc = d.rfc)

\* A tenant with at most one customer, which may be older than the field.
Init ==
    /\ cliente \in [Ids -> {Nada} \cup [rfc : RFCs, activo : {TRUE, Ausente}]]
    /\ \A x, z \in Existentes : x = z
    /\ contacto \in [Contactos -> {Nada} \cup [cliente : Existentes, activo : {Ausente}]]
    /\ pet = [p \in Peticiones |-> [pc |-> "libre"]]

Seguir(p, r) == pet' = [pet EXCEPT ![p] = r]

Terminar(p) == pet' = [pet EXCEPT ![p] = [pc |-> "hecha"]]

Falla(p) ==
    /\ pet[p].pc \notin {"libre", "hecha"}
    /\ Terminar(p)
    /\ UNCHANGED <<cliente, contacto>>

-----------------------------------------------------------------------------
(* Customers *)

Pone(x, d) == cliente' = [cliente EXCEPT ![x] = d]

Crear(p, k) ==
    /\ pet[p].pc = "libre"
    /\ \E x \in Ids \ Existentes :
        /\ Admite(x, [rfc |-> k, activo |-> TRUE])
        /\ Pone(x, [rfc |-> k, activo |-> TRUE])
    /\ Terminar(p)
    /\ UNCHANGED contacto

\* update: one write, of the RFC among the rest.
Editar(p, x, k) ==
    /\ pet[p].pc = "libre" /\ x \in Existentes
    /\ Admite(x, [cliente[x] EXCEPT !.rfc = k])
    /\ Pone(x, [cliente[x] EXCEPT !.rfc = k])
    /\ Terminar(p)
    /\ UNCHANGED contacto

\* toggleActivo: the read, which gives the field its default,
Alternar(p, x) ==
    /\ pet[p].pc = "libre" /\ x \in Existentes
    /\ Seguir(p, [pc |-> "guardaCliente", doc |-> x, previo |-> Visible(cliente[x])])
    /\ UNCHANGED <<cliente, contacto>>

\* and the save of that field, which the index may refuse.
GuardaCliente(p) ==
    /\ pet[p].pc = "guardaCliente"
    /\ LET x == pet[p].doc
           d == [cliente[x] EXCEPT !.activo = ~pet[p].previo] IN
        IF Admite(x, d) THEN Pone(x, d) ELSE UNCHANGED cliente
    /\ Terminar(p)
    /\ UNCHANGED contacto

Quitar(p, x) ==
    /\ pet[p].pc = "libre" /\ x \in Existentes
    /\ Pone(x, [cliente[x] EXCEPT !.activo = FALSE])
    /\ Terminar(p)
    /\ UNCHANGED contacto

-----------------------------------------------------------------------------
(* Contacts *)

\* assertCliente with requireActivo, and the insertion.
PedirContacto(p, x) ==
    /\ pet[p].pc = "libre" /\ x \in Existentes
    /\ Visible(cliente[x])
    /\ Seguir(p, [pc |-> "contactoNuevo", doc |-> x])
    /\ UNCHANGED <<cliente, contacto>>

InsertaContacto(p) ==
    /\ pet[p].pc = "contactoNuevo"
    /\ \E y \in Contactos :
        /\ contacto[y] = Nada
        /\ contacto' = [contacto EXCEPT ![y] = [cliente |-> pet[p].doc, activo |-> TRUE]]
    /\ Terminar(p)
    /\ UNCHANGED cliente

\* assertCliente, for a switch or a removal, of a contact of any of its documents.
PedirDeContacto(p, x, y, pc) ==
    /\ pet[p].pc = "libre" /\ x \in Existentes
    /\ contacto[y] # Nada /\ contacto[y].cliente = x
    /\ Seguir(p, [pc |-> pc, doc |-> y])
    /\ UNCHANGED <<cliente, contacto>>

\* Faulty variant: a document older than the field is switched as it is.
AlternaContactoCrudo(p) ==
    /\ pet[p].pc = "alternaContacto"
    /\ Seguir(p, [pc |-> "guardaContacto", doc |-> pet[p].doc,
                  previo |-> contacto[pet[p].doc].activo])
    /\ UNCHANGED <<cliente, contacto>>

\* findOne of the contact
AlternaContacto(p) ==
    /\ pet[p].pc = "alternaContacto"
    /\ Seguir(p, [pc |-> "guardaContacto", doc |-> pet[p].doc,
                  previo |-> Visible(contacto[pet[p].doc])])
    /\ UNCHANGED <<cliente, contacto>>

GuardaContacto(p) ==
    /\ pet[p].pc = "guardaContacto"
    /\ contacto' = [contacto EXCEPT ![pet[p].doc].activo = ~pet[p].previo]
    /\ Terminar(p)
    /\ UNCHANGED cliente

QuitaContacto(p) ==
    /\ pet[p].pc = "quitaContacto"
    /\ contacto' = [contacto EXCEPT ![pet[p].doc].activo = FALSE]
    /\ Terminar(p)
    /\ UNCHANGED cliente

Next ==
    \E p \in Peticiones :
        \/ \E k \in RFCs \cup {Nada} :
            Crear(p, k) \/ \E x \in Ids : Editar(p, x, k)
        \/ \E x \in Ids :
            \/ Alternar(p, x) \/ Quitar(p, x) \/ PedirContacto(p, x)
            \/ \E y \in Contactos, pc \in {"alternaContacto", "quitaContacto"} :
                PedirDeContacto(p, x, y, pc)
        \/ GuardaCliente(p) \/ InsertaContacto(p) \/ AlternaContacto(p)
        \/ GuardaContacto(p) \/ QuitaContacto(p) \/ Falla(p)

Spec == Init /\ [][Next]_vars

=============================================================================
