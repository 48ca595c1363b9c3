------------------------------ MODULE MCCruces ------------------------------
(***************************************************************************)
(* Instance of Cotizacion: one document (documents share nothing but the   *)
(* source of tokens), two requests over it.  A behaviour is of one of two  *)
(* parts: without the record of CotizacionCruces, and with it, when there  *)
(* are one tick, one date and one link, and openings enough to answer      *)
(* twice.                                                                  *)
(***************************************************************************)
EXTENDS CotizacionCruces, TLC

VARIABLE parte

X == INSTANCE CotizacionCruces WITH Fechas <- {2}, MaxTiempo <- 1, MaxEnvios <- 1, MaxSaldo <- 3

InitPartes == InitCruces /\ parte \in {"todo", "cruces"}

NextPartes ==
    /\ UNCHANGED parte
    /\ \/ parte = "todo" /\ Next /\ UNCHANGED cruces
       \/ parte = "cruces" /\ X!NextCruces

SpecPartes == InitPartes /\ [][NextPartes]_<<parte, vars, cruces>>

Simetria == Permutations(Peticiones)
=============================================================================
