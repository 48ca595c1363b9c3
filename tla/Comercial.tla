----------------------------- MODULE Comercial ------------------------------
(***************************************************************************)
(* What surrounds a quotation, side by side as in Administracion: the      *)
(* repetition (Repetir), the import of a catalogue (Importacion), the      *)
(* summary (Metricas), the customers (Clientes) and the confidentiality    *)
(* agreement (Confidencialidad).                                           *)
(***************************************************************************)
EXTENDS Repetir

CONSTANTS
    MaxCambios,                                                     \* Importacion, Metricas
    Nombres, Codigos, Categorias, Archivos,                         \* Importacion
    Registros, Precios, Pedidos, Filtros, Iniciales, Creaciones, Resumenes,  \* Metricas
    Ids, Contactos, RFCs, Tramites, Ausente,                        \* Clientes
    Usuarios, Hosts, MaxVersion                                     \* Confidencialidad

VARIABLES
    item, activas, petI, hechos, vistos, perdidos, ajenosI,
    estadoM, origenM, fecha, itemsM, total, catalogo, crea, res, ajenosM, movidos,
    cliente, contacto, petL,
    version, cache, aceptadas, petF, entradas, confirmadas

I == INSTANCE Importacion WITH
        MaxAjenos <- MaxCambios, pet <- petI, ajenos <- ajenosI
M == INSTANCE Metricas WITH
        Cots <- Registros, MaxAjenos <- MaxCambios,
        estado <- estadoM, origen <- origenM, items <- itemsM, ajenos <- ajenosM
L == INSTANCE Clientes WITH
        Peticiones <- Tramites, pet <- petL
G == INSTANCE Confidencialidad WITH
        pet <- petF

ASSUME ParametersAssumption == I!ConstantsOK /\ M!ConstantsOK /\ L!ConstantsOK /\ G!ConstantsOK

varsI == <<item, activas, petI, hechos, vistos, perdidos, ajenosI>>
varsM == <<estadoM, origenM, fecha, itemsM, total, catalogo, crea, res, ajenosM, movidos>>
varsL == <<cliente, contacto, petL>>
varsG == <<version, cache, aceptadas, petF, entradas, confirmadas>>

InitTodo == Init /\ I!Init /\ M!Init /\ L!Init /\ G!Init

PasoRepetir == Next /\ UNCHANGED <<varsI, varsM, varsL, varsG>>
PasoImportacion == I!Next /\ UNCHANGED <<vars, varsM, varsL, varsG>>
PasoMetricas == M!Next /\ UNCHANGED <<vars, varsI, varsL, varsG>>
PasoClientes == L!Next /\ UNCHANGED <<vars, varsI, varsM, varsG>>
PasoConfidencialidad == G!Next /\ UNCHANGED <<vars, varsI, varsM, varsL>>

NextTodo ==
    PasoRepetir \/ PasoImportacion \/ PasoMetricas \/ PasoClientes \/ PasoConfidencialidad

SpecTodo == InitTodo /\ [][NextTodo]_<<vars, varsI, varsM, varsL, varsG>>

-----------------------------------------------------------------------------
(* Properties of the parts, those of Repetir apart *)

\* Documents and the locals of requests keep their types.
TiposOK == TypeOK /\ I!TypeOK /\ M!TypeOK /\ L!TypeOK /\ G!TypeOK

\* No row of an import repeats a name that the import read or has counted as created,
\* and the import counts what it did (servicios.service.ts:233, :299).
ImportacionFiel == I!ImportacionFiel

\* The figures of a summary agree with each other (metrics.service.ts:348).
ResumenCoherente == M!ResumenCoherente

\* Nobody passes without having accepted, and nobody who did is refused
\* (confidentiality.service.ts:81).
PuertaFiel == G!PuertaFiel
=============================================================================
