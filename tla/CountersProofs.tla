--------------------------- MODULE CountersProofs ---------------------------
(* Theorems about Counters, for any number of tenants, years, requests and *)
(* older folios.  All of them follow from the inductive invariant IndInv.  *)
EXTENDS Counters, TLAPS

\* A step touches one request: what it changes of it is read back from EXCEPT.
USE DEF Steps, Request, At, Goto

\* The initial states satisfy the inductive invariant: no counter, no folio
\* handed out.
LEMMA InitIndInv == Init => IndInv
BY LegacyAssumption
   DEF Init, IndInv, TypeOK, FolioExclusive, CounterCoversFolios, Holders,
       CounterReady, FolioReached, ScanComplete

\* Every round trip keeps the types: the counters and the folios are numbers.
LEMMA NextTypeOK == TypeOK /\ [Next]_vars => TypeOK'
<1> SUFFICES ASSUME TypeOK, [Next]_vars PROVE TypeOK'
    OBVIOUS
<1> USE DEF TypeOK
<1>1. ASSUME NEW r \in Requests, MaxSeqFromExistingCotizaciones(r) PROVE TypeOK'
  <2>1. PICK m \in folios[req[r].key] \cup {0} :
            req' = [req EXCEPT ![r].pc = "insert", ![r].max = m]
        BY <1>1 DEF MaxSeqFromExistingCotizaciones
  <2>2. req[r].key \in Keys /\ m \in Nat
        OBVIOUS
  <2>3. req' \in [Requests -> Request]
        BY <2>1, <2>2
  <2> QED
        BY <1>1, <2>3 DEF MaxSeqFromExistingCotizaciones
<1>2. ASSUME NEW r \in Requests, InsertCounter(r) PROVE TypeOK'
    BY <1>2 DEF InsertCounter
<1>3. ASSUME NEW r \in Requests, RaiseCounter(r) \/ IncCounter(r) PROVE TypeOK'
    BY <1>3 DEF RaiseCounter, IncCounter
<1>4. ASSUME NEW r \in Requests, SaveCotizacion(r) PROVE TypeOK'
    BY <1>4 DEF SaveCotizacion
<1>5. ASSUME NEW r \in Requests, NextFolio(r) \/ FindCounter(r) \/ Fail(r) PROVE TypeOK'
    BY <1>5 DEF NextFolio, FindCounter, Fail
<1>6. CASE UNCHANGED vars
    BY <1>6 DEF vars
<1> QED
    BY <1>1, <1>2, <1>3, <1>4, <1>5, <1>6 DEF Next

\* Every round trip of every request preserves the inductive invariant.
LEMMA NextIndInv == IndInv /\ [Next]_vars => IndInv'
<1> SUFFICES ASSUME IndInv, [Next]_vars PROVE IndInv'
    OBVIOUS
<1>0. TypeOK /\ TypeOK'
    BY NextTypeOK DEF IndInv
<1> USE <1>0 DEF IndInv, FolioExclusive, CounterCoversFolios, Holders,
           CounterReady, FolioReached, ScanComplete
<1>1. ASSUME NEW r \in Requests, NextFolio(r) PROVE IndInv'
    BY <1>1 DEF NextFolio, TypeOK
<1>2. ASSUME NEW r \in Requests, FindCounter(r) PROVE IndInv'
    BY <1>2 DEF FindCounter, TypeOK
<1>3. ASSUME NEW r \in Requests, MaxSeqFromExistingCotizaciones(r) PROVE IndInv'
  <2>1. PICK m \in folios[req[r].key] \cup {0} :
            /\ \A n \in folios[req[r].key] : n <= m
            /\ req' = [req EXCEPT ![r].pc = "insert", ![r].max = m]
        BY <1>3 DEF MaxSeqFromExistingCotizaciones
  <2>2. UNCHANGED <<created, seq, folios>> /\ m \in Nat /\ req[r].folio = 0
        BY <1>3, <2>1 DEF MaxSeqFromExistingCotizaciones, TypeOK
  <2>3. \A q \in Requests : req'[q].folio = req[q].folio /\ req'[q].key = req[q].key
        BY <2>1 DEF TypeOK
  <2>4. \A q \in Requests \ {r} : req'[q] = req[q]
        BY <2>1 DEF TypeOK
  <2>5. req'[r].pc = "insert" /\ req'[r].max = m
        BY <2>1, <2>2 DEF TypeOK
  <2>6. CounterReady' /\ FolioReached'
        BY <2>2, <2>3, <2>4, <2>5 DEF TypeOK
  <2>7. ScanComplete'
        BY <2>1, <2>2, <2>4, <2>5 DEF TypeOK
  <2>8. FolioExclusive' /\ CounterCoversFolios'
        BY <2>1, <2>2, <2>3, <2>4 DEF TypeOK
  <2> QED
        BY <2>5, <2>6, <2>7, <2>8
<1>4. ASSUME NEW r \in Requests, InsertCounter(r) PROVE IndInv'
    BY <1>4 DEF InsertCounter, TypeOK
<1>5. ASSUME NEW r \in Requests, RaiseCounter(r) PROVE IndInv'
    BY <1>5 DEF RaiseCounter, TypeOK
<1>6. ASSUME NEW r \in Requests, IncCounter(r) PROVE IndInv'
    BY <1>6 DEF IncCounter, TypeOK
<1>7. ASSUME NEW r \in Requests, SaveCotizacion(r) PROVE IndInv'
  <2> DEFINE k == req[r].key
             n == req[r].folio
  <2>1. /\ At(r, "save") /\ k \in created /\ n <= seq[k] /\ n \notin folios[k]
        /\ folios' = [folios EXCEPT ![k] = @ \cup {n}]
        /\ Goto(r, "done")
        /\ UNCHANGED <<created, seq>>
        BY <1>7 DEF SaveCotizacion, TypeOK
  <2>2. CounterReady' /\ FolioReached'
        BY <2>1 DEF TypeOK
  <2>3. ScanComplete' /\ CounterCoversFolios'
        BY <2>1 DEF TypeOK
  <2>4. ASSUME NEW q \in Requests, At(q, "save")'
        PROVE  req'[q].folio \notin folios'[req'[q].key]
    <3>1. q # r /\ req'[q] = req[q] /\ At(q, "save")
          BY <2>1, <2>4 DEF TypeOK
    <3>2. q \in Holders /\ r \in Holders
          BY <2>1, <3>1
    <3>3. req[q].key = k => req[q].folio # n
          BY <3>1, <3>2
    <3>4. folios'[req[q].key] \subseteq
              folios[req[q].key] \cup (IF req[q].key = k THEN {n} ELSE {})
          BY <2>1 DEF TypeOK
    <3>5. req[q].folio \notin folios[req[q].key]
          BY <3>1
    <3> QED
          BY <3>1, <3>3, <3>4, <3>5
  <2>5. \A q \in Requests : req'[q].folio = req[q].folio /\ req'[q].key = req[q].key
        BY <2>1 DEF TypeOK
  <2>6. FolioExclusive'
        BY <2>4, <2>5
  <2> QED
        BY <2>2, <2>3, <2>6
<1>8. ASSUME NEW r \in Requests, Fail(r) PROVE IndInv'
    BY <1>8 DEF Fail, TypeOK
<1>9. CASE UNCHANGED vars
    BY <1>9 DEF vars, TypeOK
<1> QED
    BY <1>1, <1>2, <1>3, <1>4, <1>5, <1>6, <1>7, <1>8, <1>9 DEF Next

\* Every reachable state satisfies the inductive invariant.
THEOREM Inductive == Spec => []IndInv
<1>1. Init => IndInv
    BY InitIndInv
<1>2. IndInv /\ [Next]_vars => IndInv'
    BY NextIndInv
<1> QED
    BY <1>1, <1>2, PTL DEF Spec

\* The database fields and the local variables of the requests keep their types.
THEOREM TypeCorrect == Spec => []TypeOK
<1>1. IndInv => TypeOK
    BY DEF IndInv
<1> QED
    BY <1>1, Inductive, PTL

\* No folio number is handed out twice for a tenant and year, and the save that
\* uses it never meets it in the unique index (nextFolio).
THEOREM FolioIsExclusive == Spec => []FolioExclusive
<1>1. IndInv => FolioExclusive
    BY DEF IndInv
<1> QED
    BY <1>1, Inductive, PTL

\* ensureCounter leaves every counter at or above the folios that are stored.
THEOREM CounterIsAhead == Spec => []CounterCoversFolios
<1>1. IndInv => CounterCoversFolios
    BY DEF IndInv
<1> QED
    BY <1>1, Inductive, PTL

\* No request, however late, takes a counter back.
THEOREM SeqIsMonotone == Spec => SeqNeverGoesBack
<1> DEFINE Forward == \A k \in created : k \in created' /\ seq'[k] >= seq[k]
<1>1. IndInv /\ [Next]_vars => [Forward]_vars
  <2> SUFFICES ASSUME IndInv, Next PROVE Forward
      BY DEF vars
  <2> USE DEF IndInv, TypeOK
  <2>1. PICK r \in Requests :
            \/ NextFolio(r) \/ FindCounter(r) \/ MaxSeqFromExistingCotizaciones(r)
            \/ InsertCounter(r) \/ RaiseCounter(r) \/ IncCounter(r)
            \/ SaveCotizacion(r) \/ Fail(r)
      BY DEF Next
  <2>2. CASE UNCHANGED <<created, seq>>
      BY <2>2
  <2>3. CASE InsertCounter(r)
      BY <2>3 DEF InsertCounter
  <2>4. CASE RaiseCounter(r)
      BY <2>4 DEF RaiseCounter
  <2>5. CASE IncCounter(r)
      BY <2>5 DEF IncCounter
  <2> QED
      BY <2>1, <2>2, <2>3, <2>4, <2>5
      DEF NextFolio, FindCounter, MaxSeqFromExistingCotizaciones, SaveCotizacion, Fail
<1> QED
    BY <1>1, Inductive, PTL DEF Spec, SeqNeverGoesBack

\* Numbers are handed out in increasing order for each tenant and year.
THEOREM FoliosAreOrdered == Spec => FoliosFollowCreation
<1> DEFINE Increasing ==
        \A r \in Requests :
            (req[r].folio = 0 /\ req'[r].folio # 0) =>
                LET k == req[r].key IN
                /\ \A n \in folios[k] : n < req'[r].folio
                /\ \A q \in Holders : req[q].key = k => req[q].folio < req'[r].folio
<1>1. IndInv /\ [Next]_vars => [Increasing]_vars
  <2> SUFFICES ASSUME IndInv, Next,
                      NEW r \in Requests, req[r].folio = 0, req'[r].folio # 0
               PROVE  LET k == req[r].key IN
                      /\ \A n \in folios[k] : n < req'[r].folio
                      /\ \A q \in Holders : req[q].key = k => req[q].folio < req'[r].folio
      BY DEF vars
  <2>1. IncCounter(r)
      BY DEF IndInv, TypeOK, Next, NextFolio, FindCounter, MaxSeqFromExistingCotizaciones,
             InsertCounter, RaiseCounter, IncCounter, SaveCotizacion, Fail
  <2>2. req'[r].folio = seq[req[r].key] + 1
      BY <2>1 DEF IncCounter, IndInv, TypeOK
  <2>3. req[r].key \in created
      BY <2>1 DEF IncCounter, IndInv, CounterReady
  <2> QED
      BY <2>2, <2>3 DEF IndInv, TypeOK, CounterCoversFolios, FolioReached, Holders
<1> QED
    BY <1>1, Inductive, PTL DEF Spec, FoliosFollowCreation
=============================================================================
