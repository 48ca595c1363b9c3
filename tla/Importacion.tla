---------------------------- MODULE Importacion -----------------------------
(***************************************************************************)
(* The import of a spreadsheet into the catalogue of a tenant              *)
(* (importFromXlsx): the names and codes of the catalogue are read once,   *)
(* and the rows are then dealt with one by one, each with its search of    *)
(* the category and its save, beside other imports and creations by hand.  *)
(* Only codes have a unique index.  That items are renamed or removed      *)
(* meanwhile is left out: the import would not notice.                     *)
(*                                                                         *)
(* The cells of a row are abstracted to whether the row is empty or valid, *)
(* to its name (trimmed, in lower case), its code and its category.        *)
(***************************************************************************)
EXTENDS Naturals, Sequences, FiniteSets

CONSTANTS
    Nombres, Codigos, Categorias,
    Archivos,       \* spreadsheets: sequences of rows
    Peticiones,     \* requests; each one is made once
    MaxAjenos,      \* bound: what others do meanwhile
    Nada

Fila == [clase : {"vacia", "invalida"}, nombre : {Nada}, codigo : {Nada}, categoria : {Nada}]
        \cup [clase : {"valida"}, nombre : Nombres, codigo : Codigos \cup {Nada},
              categoria : Categorias]

ConstantsOK ==
    /\ Nada \notin Nombres \cup Codigos /\ MaxAjenos \in Nat
    /\ Archivos \subseteq Seq(Fila)

VARIABLES
    item,           \* the items of the catalogue, in the order of creation
    activas,        \* the categories that are active
    pet,            \* pet[p]: progress and locals of an import
    hechos,         \* history: hechos[p], the items an import created and counted
    vistos,         \* history: vistos[p], those there were when it read the catalogue
    perdidos,       \* history: perdidos[p], items it created and answered as failed
    ajenos          \* what others have done

vars == <<item, activas, pet, hechos, vistos, perdidos, ajenos>>

Item == [nombre : Nombres, codigo : Codigos \cup {Nada}]

Pasos == {"lee", "fila", "categoria", "guarda"}

Guardados == DOMAIN item

\* i: the row in turn; nombres, codigos: the sets; creadas, fallidas, vacias: the counts.
Peticion ==
    [pc : {"libre", "caida"}]
    \cup [pc : Pasos \cup {"hecha"}, filas : Archivos, i : Nat, nombres : SUBSET Nombres,
          codigos : SUBSET Codigos, creadas : Nat, fallidas : Nat, vacias : Nat]

TypeOK ==
    /\ item \in Seq(Item)
    /\ activas \subseteq Categorias
    /\ pet \in [Peticiones -> Peticion]
    /\ hechos \in [Peticiones -> SUBSET Guardados]
    /\ vistos \in [Peticiones -> SUBSET Guardados]
    /\ perdidos \in [Peticiones -> SUBSET Guardados]
    /\ ajenos \in Nat

Init ==
    /\ item = <<>>
    /\ activas \in SUBSET Categorias
    /\ pet = [p \in Peticiones |-> [pc |-> "libre"]]
    /\ hechos = [p \in Peticiones |-> {}] /\ vistos = [p \in Peticiones |-> {}]
    /\ perdidos = [p \in Peticiones |-> {}] /\ ajenos = 0

Seguir(p, r) == pet' = [pet EXCEPT ![p] = r]

\* The next row, with r's counts
Siguiente(r) == [r EXCEPT !.i = r.i + 1, !.pc = "fila"]
Fallida(r) == [Siguiente(r) EXCEPT !.fallidas = r.fallidas + 1]

-----------------------------------------------------------------------------
\* The file is accepted and parsed.
Importar(p, a) ==
    /\ pet[p].pc = "libre"
    /\ Seguir(p, [pc |-> "lee", filas |-> a, i |-> 1, nombres |-> {}, codigos |-> {},
                  creadas |-> 0, fallidas |-> 0, vacias |-> 0])
    /\ UNCHANGED <<item, activas, hechos, vistos, perdidos, ajenos>>

\* The find of names and codes
LeeCatalogo(p) ==
    /\ pet[p].pc = "lee"
    /\ Seguir(p, [pet[p] EXCEPT !.pc = "fila",
                                !.nombres = {item[x].nombre : x \in Guardados},
                                !.codigos = {item[x].codigo : x \in Guardados} \ {Nada}])
    /\ vistos' = [vistos EXCEPT ![p] = Guardados]
    /\ UNCHANGED <<item, activas, hechos, perdidos, ajenos>>

Repetida(r, f) == f.nombre \in r.nombres \/ f.codigo \in r.codigos

\* A row up to its search of the category, or the response.
TomaFila(p) ==
    /\ pet[p].pc = "fila"
    /\ LET r == pet[p] IN
        IF r.i > Len(r.filas) THEN Seguir(p, [r EXCEPT !.pc = "hecha"])
        ELSE LET f == r.filas[r.i] IN
             Seguir(p, CASE f.clase = "vacia" -> [Siguiente(r) EXCEPT !.vacias = r.vacias + 1]
                         [] f.clase = "invalida" \/ Repetida(r, f) -> Fallida(r)
                         [] OTHER -> [r EXCEPT !.pc = "categoria"])
    /\ UNCHANGED <<item, activas, hechos, vistos, perdidos, ajenos>>

\* findCategoriaActivaByCodigo
BuscaCategoria(p) ==
    /\ pet[p].pc = "categoria"
    /\ LET r == pet[p] IN
        Seguir(p, IF r.filas[r.i].categoria \in activas THEN [r EXCEPT !.pc = "guarda"]
                  ELSE Fallida(r))
    /\ UNCHANGED <<item, activas, hechos, vistos, perdidos, ajenos>>

\* The unique index on (tenantId, codigo)
Admite(f) == f.codigo = Nada \/ \A x \in Guardados : item[x].codigo # f.codigo

Nuevo == Len(item) + 1
Pone(f) == item' = Append(item, [nombre |-> f.nombre, codigo |-> f.codigo])

\* Faulty variant: what the import itself has created is forgotten.
GuardaFilaSinRecordar(p) ==
    /\ pet[p].pc = "guarda"
    /\ LET r == pet[p]
           f == r.filas[r.i] IN
        \/ /\ Admite(f)
           /\ Pone(f)
           /\ hechos' = [hechos EXCEPT ![p] = @ \cup {Nuevo}]
           /\ Seguir(p, [Siguiente(r) EXCEPT !.creadas = r.creadas + 1])
        \/ Seguir(p, Fallida(r)) /\ UNCHANGED <<item, hechos>>
    /\ UNCHANGED <<activas, vistos, perdidos, ajenos>>

\* The save: done, refused or failed, or applied with its answer lost.
GuardaFila(p) ==
    /\ pet[p].pc = "guarda"
    /\ LET r == pet[p]
           f == r.filas[r.i] IN
        \/ /\ Admite(f)
           /\ Pone(f)
           /\ \/ /\ Seguir(p, [Siguiente(r) EXCEPT
                                    !.creadas = r.creadas + 1,
                                    !.nombres = r.nombres \cup {f.nombre},
                                    !.codigos = r.codigos \cup ({f.codigo} \ {Nada})])
                 /\ hechos' = [hechos EXCEPT ![p] = @ \cup {Nuevo}]
                 /\ UNCHANGED perdidos
              \/ /\ Seguir(p, Fallida(r))
                 /\ perdidos' = [perdidos EXCEPT ![p] = @ \cup {Nuevo}]
                 /\ UNCHANGED hechos
        \/ Seguir(p, Fallida(r)) /\ UNCHANGED <<item, hechos, perdidos>>
    /\ UNCHANGED <<activas, vistos, ajenos>>

\* The process ends: there is no response, and what was created stays.
Cae(p) ==
    /\ pet[p].pc \in Pasos
    /\ Seguir(p, [pc |-> "caida"])
    /\ UNCHANGED <<item, activas, hechos, vistos, perdidos, ajenos>>

-----------------------------------------------------------------------------
\* A creation by hand looks only at the code, and categories come and go.
CreaAMano(f) ==
    /\ Admite(f)
    /\ Pone(f)
    /\ UNCHANGED activas

CambiaCategoria(k) ==
    /\ activas' = IF k \in activas THEN activas \ {k} ELSE activas \cup {k}
    /\ UNCHANGED item

Ajeno ==
    /\ ajenos < MaxAjenos /\ ajenos' = ajenos + 1
    /\ \/ \E n \in Nombres, k \in Codigos \cup {Nada} : CreaAMano([nombre |-> n, codigo |-> k])
       \/ \E k \in Categorias : CambiaCategoria(k)
    /\ UNCHANGED <<pet, hechos, vistos, perdidos>>

Next ==
    \/ \E p \in Peticiones :
        \/ \E a \in Archivos : Importar(p, a)
        \/ LeeCatalogo(p) \/ TomaFila(p) \/ BuscaCategoria(p) \/ GuardaFila(p) \/ Cae(p)
    \/ Ajeno

Spec == Init /\ [][Next]_vars

-----------------------------------------------------------------------------
(* Properties *)

\* No row of an import creates an item with the name of one that was in the catalogue
\* when the import read it, nor of one that an earlier row created and counted, although
\* names have no index and others write meanwhile.  The import remembers only the rows
\* whose save was answered: one that was applied and answered with an error is reported
\* as failed, and a later row may repeat it (servicios.service.ts:233, :285, :291).
SinRepetidos ==
    \A p \in Peticiones : \A x \in hechos[p] \cup perdidos[p], y \in hechos[p] \cup vistos[p] :
        y < x => item[x].nombre # item[y].nombre

\* Every row of the file is counted once; what the response counts as created is in
\* the catalogue, and what it does not although it is there, it counts as failed
\* (servicios.service.ts:284, :292, :299).
CuentaCuadra ==
    \A p \in Peticiones : pet[p].pc = "hecha" =>
        /\ pet[p].creadas + pet[p].fallidas + pet[p].vacias = Len(pet[p].filas)
        /\ pet[p].creadas = Cardinality(hechos[p])
        /\ Cardinality(perdidos[p]) <= pet[p].fallidas
        /\ hechos[p] \cap perdidos[p] = {}

ImportacionFiel == SinRepetidos /\ CuentaCuadra
=============================================================================
