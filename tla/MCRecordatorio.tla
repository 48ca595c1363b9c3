--------------------------- MODULE MCRecordatorio ---------------------------
(* Instance of Recordatorio: reminders of two quotations, programmed by    *)
(* concurrent requests and fired by overlapping sweeps.                    *)
EXTENDS Recordatorio, TLC

Simetria == Permutations(Cots) \cup Permutations(Peticiones) \cup Permutations(Barridos)
=============================================================================
