------------------------------- MODULE Notas --------------------------------
(***************************************************************************)
(* The internal notes of a quotation (agregarNotaInterna,                  *)
(* actualizarNotaInterna, eliminarNotaInterna): an array inside its        *)
(* document.  An edit or a removal reads the notes to see whose note it    *)
(* is, waits for the account of the user, and writes.                      *)
(***************************************************************************)
EXTENDS Naturals, Sequences

CONSTANTS
    Usuarios,       \* users of the tenant
    Textos,         \* texts, trimmed and not empty
    Ids,            \* ids a request may name
    Peticiones,     \* requests; each one is made once
    Nada            \* no id

ConstantsOK == Nada \notin Ids

VARIABLES
    notas,          \* notasInternas, in order
    pet             \* pet[p]: progress and locals of a request

vars == <<notas, pet>>

Nota == [id : Ids \cup {Nada}, autor : Usuarios, texto : Textos]

\* The steps left: the push; or the check of the author and the write, of an edit or
\* of a removal.
Peticion ==
    [pc : {"libre", "hecha", "noEncontrada"}]
    \cup [pc : {"agrega"}, autor : Usuarios, texto : Textos]
    \cup [pc : {"mira", "escribe"}, autor : Usuarios, id : Ids, texto : Textos \cup {Nada}]

Init ==
    /\ notas = <<>>
    /\ pet = [p \in Peticiones |-> [pc |-> "libre"]]

Pasar(p, r) == pet' = [pet EXCEPT ![p] = r]
Responder(p, pc) == Pasar(p, [pc |-> pc])

\* agregarNotaInterna: the name of the author is looked up.
Agregar(p, u, t) ==
    /\ pet[p].pc = "libre"
    /\ Pasar(p, [pc |-> "agrega", autor |-> u, texto |-> t])
    /\ UNCHANGED notas

\* The array is declared of plain objects and the pushed one names no id, so none
\* is stored.
Empuja(p) ==
    /\ pet[p].pc = "agrega"
    /\ notas' = Append(notas, [id |-> Nada, autor |-> pet[p].autor, texto |-> pet[p].texto])
    /\ Responder(p, "hecha")

\* actualizarNotaInterna, with a text, and eliminarNotaInterna, with none
Editar(p, u, i, t) ==
    /\ pet[p].pc = "libre"
    /\ Pasar(p, [pc |-> "mira", autor |-> u, id |-> i, texto |-> t])
    /\ UNCHANGED notas

Llamada(i) == {k \in DOMAIN notas : notas[k].id = i}

\* assertNotaInternaAutor: there is such a note, and it is the user's.
MiraAutor(p) ==
    /\ pet[p].pc = "mira"
    /\ IF Llamada(pet[p].id) = {} THEN Responder(p, "noEncontrada")
       ELSE IF \E k \in Llamada(pet[p].id) : notas[k].autor = pet[p].autor
            THEN Pasar(p, [pet[p] EXCEPT !.pc = "escribe"])
            ELSE Responder(p, "hecha")
    /\ UNCHANGED notas

\* The edit asks for the note again; the removal does not need it to be there.
EscribeNota(p) ==
    /\ pet[p].pc = "escribe"
    /\ LET r == pet[p] IN
        IF r.texto = Nada
        THEN /\ notas' = SelectSeq(notas, LAMBDA n : n.id # r.id)
             /\ Responder(p, "hecha")
        ELSE /\ notas' = [k \in DOMAIN notas |->
                            IF k \in Llamada(r.id) THEN [notas[k] EXCEPT !.texto = r.texto]
                            ELSE notas[k]]
             /\ Responder(p, IF Llamada(r.id) = {} THEN "noEncontrada" ELSE "hecha")

Next ==
    \E p \in Peticiones :
        \/ \E u \in Usuarios, t \in Textos : Agregar(p, u, t)
        \/ \E u \in Usuarios, i \in Ids, t \in Textos \cup {Nada} : Editar(p, u, i, t)
        \/ Empuja(p) \/ MiraAutor(p) \/ EscribeNota(p)

Spec == Init /\ [][Next]_vars

-----------------------------------------------------------------------------
(* Properties *)

\* Every note that is stored can be named in a request, so that its author can edit
\* it and take it back, as the routes of the notes say
\* (cotizaciones.controller.ts:750, :784).
NotaEditable == \A k \in DOMAIN notas : notas[k].id \in Ids
=============================================================================
