---------------------------- MODULE MCComercial -----------------------------
(***************************************************************************)
(* Comercial on a small instance.  As in MCAdministracion, a behaviour is  *)
(* of one of its parts (parte), and the others do not move.                *)
(***************************************************************************)
EXTENDS Comercial, TLC

CONSTANTS s1, s2, c1, c2, n1, n2, k1, g1, m1, m2, m3

VARIABLE parte

-----------------------------------------------------------------------------
(* The repetition *)

MCServicioDe == <<s1, s2>>

Simple == [modo |-> "originales", omitir |-> {}, sust |-> [s \in Servicios |-> Nada],
           cancelar |-> TRUE, rearmar |-> "no"]

\* Each mode and each way with a line, with the three ways of arming and with and
\* without the cancellation.
MCCuerpos ==
    {[Simple EXCEPT !.rearmar = "receta"],
     [Simple EXCEPT !.modo = "actualizados", !.rearmar = "copia"],
     [Simple EXCEPT !.omitir = {s1}, !.sust = (s1 :> Nada) @@ (s2 :> s1), !.cancelar = FALSE]}

MCCatalogos == {(s1 :> "activo") @@ (s2 :> x) : x \in {"activo", "ajeno"}}

-----------------------------------------------------------------------------
(* The import: names and codes repeated in the file, and every kind of row *)

F(n, k) == [clase |-> "valida", nombre |-> n, codigo |-> k, categoria |-> g1]
Sin(c) == [clase |-> c, nombre |-> Nada, codigo |-> Nada, categoria |-> Nada]

MCArchivos ==
    {<<F(n1, k1), F(n1, Nada), F(n2, k1)>>,
     <<Sin("vacia"), F(n2, Nada), Sin("invalida"), F(n2, Nada)>>}

-----------------------------------------------------------------------------
(* The summary: two quotations, of this year and of this month, and a new one *)

Linea(s, t, x) == [servicio |-> s, tipo |-> t, subtotal |-> x]

MCPedidos == {<<[servicio |-> s1, cantidad |-> 2, precio |-> Nada],
                [servicio |-> s2, cantidad |-> 1, precio |-> 2]>>}

MCFiltros ==
    {[desde |-> d, hasta |-> 4, tipo |-> Nada] : d \in {1, 4}}
        \cup {[desde |-> 1, hasta |-> 3, tipo |-> "producto"]}

MCIniciales ==
    (m1 :> [fecha |-> 2, items |-> <<Linea(s1, "producto", 2), Linea(s2, "servicio", 1)>>])
    @@ (m2 :> [fecha |-> 3, items |-> <<Linea(s1, "sinTipo", 3)>>])

-----------------------------------------------------------------------------
\* The parts that do not move start from one state.
InitPartes ==
    /\ parte \in {"repetir", "importacion", "metricas", "clientes", "confidencialidad"}
    /\ catalogo = [s \in Servicios |-> [tipo |-> "servicio", precio |-> 1, activo |-> TRUE]]
    /\ InitTodo
    /\ parte # "repetir" => /\ estado[Original] = "vigente" /\ servicio[s2] = "activo"
                            /\ rec[Original].estado = "ausente"
    /\ parte # "importacion" => activas = {}
    /\ parte # "metricas" => estadoM[m1] = "vigente" /\ estadoM[m2] = "vigente"
    /\ parte # "clientes" => \A x \in Ids : cliente[x] = Nada
    /\ parte # "confidencialidad" => aceptadas = {}

NextPartes ==
    /\ UNCHANGED parte
    /\ \/ parte = "repetir" /\ PasoRepetir
       \/ parte = "importacion" /\ PasoImportacion
       \/ parte = "metricas" /\ PasoMetricas
       \/ parte = "clientes" /\ PasoClientes
       \/ parte = "confidencialidad" /\ PasoConfidencialidad

SpecPartes == InitPartes /\ [][NextPartes]_<<parte, vars, varsI, varsM, varsL, varsG>>

Simetria == Permutations(Peticiones) \cup Permutations({c1, c2})
=============================================================================
