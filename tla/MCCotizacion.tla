---------------------------- MODULE MCCotizacion ----------------------------
(* Instance of Cotizacion: one document (documents share nothing but the   *)
(* source of tokens), several requests and sweeps over it.                 *)
EXTENDS Cotizacion, TLC

Simetria == Permutations(Peticiones)
=============================================================================
