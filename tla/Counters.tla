------------------------------ MODULE Counters ------------------------------
(***************************************************************************)
(* Folio allocation (counters.service.ts) together with the write it feeds *)
(* (the save of a new quotation).  A folio COT-year-NNNN is the pair of a  *)
(* key (tenant and year) and the sequence number NNNN.                     *)
(*                                                                         *)
(* Every action is one round trip to the database: the requests of         *)
(* several users interleave between them.                                  *)
(***************************************************************************)
EXTENDS Integers, FiniteSets

CONSTANTS
    Keys,       \* the (tenant, year) pairs
    Requests,   \* the create and repeat requests that need a folio
    Legacy      \* Legacy[k]: numbers of the folios older than the counters

ASSUME LegacyAssumption == Legacy \in [Keys -> SUBSET Nat]

VARIABLES
    created,    \* the keys that have a document in `counters`
    seq,        \* seq[k]: the `seq` field of that document (0 before it exists)
    folios,     \* folios[k]: numbers of the stored quotations of k
    req         \* req[r]: progress and local variables of request r

vars == <<created, seq, folios, req>>

\* Where a request stands: the round trip it performs next, or its outcome.
Steps == {"idle", "lookup", "scan", "insert", "raise", "inc", "save",
          "done", "rejected", "failed"}

\* key: the request's tenant and year; max: what its scan found; folio: what
\* $inc returned to it (0 before).
Request == [pc : Steps, key : Keys, max : Nat, folio : Nat]

TypeOK ==
    /\ created \in SUBSET Keys
    /\ seq \in [Keys -> Nat]
    /\ folios \in [Keys -> SUBSET Nat]
    /\ req \in [Requests -> Request]

Init ==
    /\ created = {}
    /\ seq = [k \in Keys |-> 0]
    /\ folios = Legacy
    /\ req \in [Requests -> [pc : {"idle"}, key : Keys, max : {0}, folio : {0}]]

-----------------------------------------------------------------------------
At(r, step) == req[r].pc = step

Goto(r, step) == req' = [req EXCEPT ![r].pc = step]

\* nextFolio reads the year and starts.
NextFolio(r) ==
    /\ At(r, "idle")
    /\ Goto(r, "lookup")
    /\ UNCHANGED <<created, seq, folios>>

\* ensureCounter returns at once when the document exists.
FindCounter(r) ==
    /\ At(r, "lookup")
    /\ Goto(r, IF req[r].key \in created THEN "inc" ELSE "scan")
    /\ UNCHANGED <<created, seq, folios>>

\* The highest number among the stored folios of the key, 0 when there is none.
MaxSeqFromExistingCotizaciones(r) ==
    /\ At(r, "scan")
    /\ \E m \in folios[req[r].key] \cup {0} :
        /\ \A n \in folios[req[r].key] : n <= m
        /\ req' = [req EXCEPT ![r].pc = "insert", ![r].max = m]
    /\ UNCHANGED <<created, seq, folios>>

\* Upsert with $setOnInsert.  When a peer's document is there (matched, or
\* found through the duplicate key error that is ignored) nothing is written.
InsertCounter(r) ==
    /\ At(r, "insert")
    /\ LET k == req[r].key IN
        /\ created' = created \cup {k}
        /\ seq' = [seq EXCEPT ![k] = IF k \in created THEN @ ELSE req[r].max]
    /\ Goto(r, "raise")
    /\ UNCHANGED folios

\* Faulty variant: $set in place of $max.
RaiseCounterBySet(r) ==
    /\ At(r, "raise")
    /\ seq' = [seq EXCEPT ![req[r].key] = req[r].max]
    /\ Goto(r, "inc")
    /\ UNCHANGED <<created, folios>>

\* The $max that follows the upsert.
RaiseCounter(r) ==
    /\ At(r, "raise")
    /\ LET k == req[r].key IN
        seq' = [seq EXCEPT ![k] = IF @ < req[r].max THEN req[r].max ELSE @]
    /\ Goto(r, "inc")
    /\ UNCHANGED <<created, folios>>

\* Faulty variant: the value before $inc is returned (no `new: true`).
IncCounterReturnsOld(r) ==
    /\ At(r, "inc")
    /\ LET k == req[r].key IN
        /\ seq' = [seq EXCEPT ![k] = @ + 1]
        /\ req' = [req EXCEPT ![r].pc = "save", ![r].folio = seq[k]]
    /\ UNCHANGED <<created, folios>>

\* findOneAndUpdate with $inc, returning the new value.
IncCounter(r) ==
    /\ At(r, "inc")
    /\ LET k == req[r].key IN
        /\ seq' = [seq EXCEPT ![k] = @ + 1]
        /\ req' = [req EXCEPT ![r].pc = "save", ![r].folio = seq[k] + 1]
    /\ UNCHANGED <<created, folios>>

\* The save of the quotation, under the unique index on (tenantId, folio).
SaveCotizacion(r) ==
    /\ At(r, "save")
    /\ LET k == req[r].key
           n == req[r].folio
       IN  IF n \in folios[k]
           THEN Goto(r, "rejected") /\ UNCHANGED folios
           ELSE Goto(r, "done") /\ folios' = [folios EXCEPT ![k] = @ \cup {n}]
    /\ UNCHANGED <<created, seq>>

\* The request ends early: the database fails, the process stops, or one of
\* the checks after the folio (dates, recipients) throws.
Fail(r) ==
    /\ req[r].pc \notin {"idle", "done", "rejected", "failed"}
    /\ Goto(r, "failed")
    /\ UNCHANGED <<created, seq, folios>>

Next ==
    \E r \in Requests :
        \/ NextFolio(r)
        \/ FindCounter(r)
        \/ MaxSeqFromExistingCotizaciones(r)
        \/ InsertCounter(r)
        \/ RaiseCounter(r)
        \/ IncCounter(r)
        \/ SaveCotizacion(r)
        \/ Fail(r)

Spec == Init /\ [][Next]_vars

-----------------------------------------------------------------------------
\* Requests that were given a folio; they keep it whatever happens next.
Holders == {r \in Requests : req[r].folio # 0}

\* No two requests of a tenant and year are ever given the same folio, and a
\* request about to save never finds its number taken: the unique index of
\* the quotations is never what tells two creations apart, although nothing
\* locks the counter between the lookup, the scan, the upsert and the $inc.
FolioExclusive ==
    /\ \A r, q \in Holders :
        r # q /\ req[r].key = req[q].key => req[r].folio # req[q].folio
    /\ \A r \in Requests : At(r, "save") => req[r].folio \notin folios[req[r].key]

\* Once the counter of a key exists it is at or above every stored number,
\* the older folios included, and above what any late scan can write to it.
CounterCoversFolios ==
    \A k \in created : \A n \in folios[k] : n <= seq[k]

\* The counter of a key is never removed and never goes back, even when a
\* slow request applies the result of an old scan.
SeqNeverGoesBack ==
    [][\A k \in created : k \in created' /\ seq'[k] >= seq[k]]_vars

\* A number handed out is higher than every number already stored or handed
\* out for the same tenant and year: folios follow the order of creation.
FoliosFollowCreation ==
    [][\A r \in Requests :
        (req[r].folio = 0 /\ req'[r].folio # 0) =>
            LET k == req[r].key IN
            /\ \A n \in folios[k] : n < req'[r].folio
            /\ \A q \in Holders : req[q].key = k => req[q].folio < req'[r].folio]_vars

-----------------------------------------------------------------------------
\* The parts of the inductive invariant of CountersProofs.

\* A request past the upsert works on a counter that exists.
CounterReady ==
    \A r \in Requests :
        req[r].pc \in {"raise", "inc", "save"} => req[r].key \in created

\* A request holds a number only after $inc, and the counter has reached it.
FolioReached ==
    \A r \in Requests :
        /\ req[r].pc \in {"idle", "lookup", "scan", "insert", "raise", "inc"} =>
             req[r].folio = 0
        /\ req[r].pc = "save" => req[r].folio # 0
        /\ req[r].folio # 0 => req[r].key \in created /\ req[r].folio <= seq[req[r].key]

\* A scan made before the counter exists has seen every folio there is.
ScanComplete ==
    \A r \in Requests :
        req[r].pc = "insert" /\ req[r].key \notin created =>
            \A n \in folios[req[r].key] : n <= req[r].max

IndInv ==
    /\ TypeOK
    /\ CounterReady
    /\ FolioReached
    /\ ScanComplete
    /\ FolioExclusive
    /\ CounterCoversFolios
=============================================================================
