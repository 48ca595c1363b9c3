-------------------------- MODULE MCAdministracion --------------------------
(***************************************************************************)
(* Administracion on a small instance.  Its parts share no document, so a  *)
(* behaviour is of one of them (parte), and the others do not move.        *)
(***************************************************************************)
EXTENDS Administracion, TLC

CONSTANTS e1, e2, c1, t1, t2, ca, cb, ka, kb, sa, sb

VARIABLE parte

\* One account whose address is typed in two ways.
MCCuentaDe == [e \in Correos |-> c1]

Cat(t, k, a) == [tenant |-> t, codigo |-> k, activo |-> a]
Producto == [tenant |-> t1, categoria |-> ca, tipo |-> "producto", activo |-> TRUE,
             imagen |-> TRUE]
Cambio == [tipo |-> Nada, categoria |-> Nada, activo |-> Nada]

MCAltas == [tipo : {"producto"}, categoria : Categorias, activo : {TRUE}]

\* Each field alone, and a move to a category together with the switch.
MCCambios ==
    {[Cambio EXCEPT !.tipo = t] : t \in {"servicio", "producto"}}
        \cup {[Cambio EXCEPT !.activo = TRUE]}
        \cup {[Cambio EXCEPT !.categoria = c] : c \in Categorias}
        \cup {[Cambio EXCEPT !.categoria = cb, !.activo = TRUE]}

\* Two tenants with the same code and nothing to sell; a tenant with a withdrawn
\* category and a product with an image.
MCIniciales ==
    {[cat |-> (ca :> Cat(t1, ka, TRUE)) @@ (cb :> Cat(t2, ka, TRUE)),
      ser |-> (sa :> Nada) @@ (sb :> Nada)],
     [cat |-> (ca :> Cat(t1, ka, TRUE)) @@ (cb :> Cat(t1, kb, FALSE)),
      ser |-> (sa :> Producto) @@ (sb :> Nada)]}

\* The bank's logo is not there at first.  The parts that do not move start from one
\* state.
InitPartes ==
    /\ parte \in {"restablecer", "alta", "envio", "catalogo"}
    /\ InitTodo
    /\ parte # "restablecer" => \A c \in Cuentas : activo[c]
    /\ url[Banco] = Nada
    /\ parte # "envio" => usuario = Nada /\ \A r \in Ranuras : url[r] = Nada
    /\ parte # "catalogo" => ser[sa] = Nada

NextPartes ==
    /\ UNCHANGED parte
    /\ \/ parte = "restablecer" /\ PasoRestablecer
       \/ parte = "alta" /\ PasoAlta
       \/ parte = "envio" /\ PasoEnvio
       \/ parte = "catalogo" /\ PasoCatalogo

SpecPartes == InitPartes /\ [][NextPartes]_<<parte, vars, varsA, varsC, varsK>>

\* The parts share the values of their requests, and those of sets whose members are
\* alike.
Simetria == Permutations(Peticiones) \cup Permutations(Tokens)
=============================================================================
