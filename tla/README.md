# Verification project for aestimare-backend

aestimare-backend is a multi-tenant quotation service (NestJS, MongoDB, SMTP).
This directory holds TLA+ models of its core, the TLC runs that check them, and
proofs about them for TLAPS. Definitions keep the names of the code where TLA+
allows it, and its language: English in `Counters`, Spanish elsewhere.
`PROJECT.json` ties each definition to the lines it models, and lists for each
component what is modelled of it, and the hazards the properties are about.

## 1. Inventory

The process is a NestJS application; several hosts may run it. All durable state
is in MongoDB, and on the disk for images and logos. No operation uses a
transaction: an operation is a sequence of reads and of writes that are atomic on
one document, with an `await` between any two. Interleavings at those awaits, and
failures there, are the hard part of the system.

| component | state | operations | hard behaviour | what makes it correct |
|---|---|---|---|---|
| counters | `counters` (tenant, year, seq) | nextFolio | first use of a year scans older folios while others create | no folio twice, folios follow creation |
| cotizaciones: lifecycle | `cotizaciones`: estado, dates, provenance, magic token | create, update, manual changes, answers by link, daily sweep, sending | read, await, conditional write; time passing; re-sending replaces the token | coherent dates and provenance, answers within their deadline, overwritten only by who read them |
| cotizaciones: repetir | new quotation, both reminders, original | repetirCotizacion | five writes in three collections, logged failures, a catalogue that changes | the response is true, the copy is what was asked, the original stops reminding |
| cotizaciones: notas | array in the quotation | add, edit, delete | check of the author, then write | the author, and nobody else, edits |
| recordatorios | `recordatorios_recotizacion` | upsert, cancelar, cerrar, hourly sweep | overlapping sweeps, insert race, fired and re-armed | one email per quotation, fired at its stored date |
| users | `users`: rol, activo, credentialsVersion | create, update, soft delete | count then write, version read then written | an active administrator remains, old sessions die |
| auth: login and tokens | JWTs | register, login, revalidation | account read, then token signed | a token is good only for the account as it is |
| auth: password reset | `password_reset_tokens` | request, validate, reset | requests that prune each other's tokens, a token used twice, a stop between two writes | the last link serves, and only it, once |
| tenants | `tenants` and what is seeded with them | onboard with compensation, suspend, context of a request | stop in the middle, compensation that fails | a tenant is complete or absent |
| tenant configuration | `tenant_configs`, ciphered SMTP password, logos | read, edit, upload, remove | read then write, file and field apart | a coherent mail account, a logo that is there |
| servicios, categorias | catalogue, image files | CRUD, several tenants, import | category removed while used, type changed while an image arrives | no dangling reference, an image that is there |
| clientes, contactos | CRM | CRUD | partial unique index, a switch that saves what it read, documents older than a field | a document of any age is switched to a value, a contact has its customer |
| confidentiality | acceptances, memory of each host | accept, check | memory per host, double accept, rolling deployment | nobody passes without accepting, nobody who did is refused |
| emails | connections | four mails | credentials read while they are edited | a user with its own password, no connection left open |
| metrics | none | summary, rankings | thirteen queries with no snapshot | figures that agree |
| audit, plantillas, dashboard | events, templates, aggregations | append, edit, read | best effort | no state that others relate to theirs |

How they interact: creating or repeating a quotation calls counters for the
folio; repeating also cancels and re-arms reminders and cancels the original;
sending needs the tenant to be active and configured; an answer and a fired
reminder end in an email through the tenant's SMTP; every request goes through
the JWT strategy, the tenant context guard and the confidentiality gate;
onboarding writes to tenants, configuration, catalogue, templates and users.

## 2. Modules

| module | what it is |
|---|---|
| `Counters` | folio allocation, by round trips |
| `CicloCotizacion` | abstract: who moves a quotation from which state to which |
| `Cotizacion` | the life of a quotation, by round trips; implements `CicloCotizacion` |
| `CotizacionCruces` | `Cotizacion` with a record of what happens while a manual change is under way |
| `CicloRecordatorio` | abstract: a reminder is armed, disarmed, and reaches the team once |
| `Recordatorio` | reminders by round trips; implements `CicloRecordatorio` |
| `Usuarios` | accounts, management requests, logins and tokens, by round trips |
| `Repetir` | a repetition by round trips, beside `CicloCotizacion` and the reminders |
| `Notas` | the notes of a quotation |
| `Restablecer` | links to reset a password, by round trips |
| `Alta` | onboarding and its compensation, the switch of a tenant and the context guard |
| `Configuracion` | the mail account and the logos of a tenant |
| `Envio` | the mails; extends `Configuracion`, so that they leave while it changes |
| `Catalogo`, `Importacion` | categories, services and images; the import of a file |
| `Clientes` | customers and contacts |
| `Confidencialidad` | the agreement: gate, acceptance, deployment |
| `Metricas` | the summary, query by query, beside creations and changes of state |
| `Administracion` | `Restablecer`, `Alta`, `Envio` and `Catalogo` side by side |
| `Comercial` | `Repetir`, `Importacion`, `Metricas`, `Clientes` and `Confidencialidad` side by side |
| `MC*` | their instances for TLC |
| `*Proofs` | the proofs about `Counters`, `Cotizacion`, `Recordatorio`, `Usuarios`, `Restablecer`, `Repetir`, `Administracion` and `Comercial` |

The common method: each request or sweep in flight has a record with the step it
performs next (`pc`) and the local variables it carries over the await; one
action is one round trip; `Fail`, `Falla`, `Cae`, `Abortar*` end a request where
it stands (an error of the database, a process that stops). Where the code treats
an error in its own way, a write may also be applied and answered with an error.
A request that ends in an error before it writes anything leaves no trace, so it
is not a step. The tenant is left out where every operation fixes it from the
request. Definitions called *faulty variant* are not part of any specification;
they are the mistakes with which each property is tried (section 3).

**Counters.** `created` and `seq` are the documents of `counters`, `folios` the
numbers of the stored quotations, `Legacy` those older than the counters.
`FindCounter`, `MaxSeqFromExistingCotizaciones`, `InsertCounter` and
`RaiseCounter` are the four round trips of `ensureCounter`, `IncCounter` the
`$inc` of `nextSeq`, `SaveCotizacion` the insert under the unique index. The
duplicate-key error the upsert may end with is ignored by the code and so is one
case of `InsertCounter`. The year is fixed when the request starts.

**Cotizacion.** A stored quotation is a `Documento`: state, provenance
(`origen`, and whether a user is named), whether the dates of acceptance and
rejection are set, `sinVigencia`, the date it is good until, and the magic token
with its own date. Instants are numbers; 0 stands for a null or absent field.
Tokens are numbered in the order they are made. Manual change: `CambiarLee`,
`CambiarFecha` (only when reopening), `CambiarEscribe` (conditional on the state
read). `update`: `UpdateLee`, then `UpdateRelee` and the manual change, then
`UpdateEscribe`, the unconditional `$set` of what is left. Answer: `ResponderLee`,
`ResponderEscribe`, `Avisar`. Sweep: `BarrerInicia`, one `BarrerVisita` per
document, as `updateMany` is atomic on each only. Sending: `EnviarLee`,
`EmitirToken`, then `SmtpAcepta` or `SmtpFalla` and `Limpiar`. `entregado` and
`saldo` are history variables: what SMTP took, and the openings less the
notifications. `CotizacionCruces` adds two history variables that restrict nothing:
the manual changes whose quotation the customer answered, or somebody opened again,
between their read and their write. The write compares the state alone
(cotizaciones.service.ts:1713), so a change that read *accepted* also replaces an
acceptance that came after a reopening: `RespuestaNoPisada` says that this is the only
way in which a decision that a change did not read is lost.

**Recordatorio.** `rec` is the reminder of each quotation (at most one, unique
index). Upsert: `UpsertCalcula`, `UpsertActualiza`, `UpsertBusca`,
`UpsertInserta` and, after a duplicate key, `UpsertActualiza` again. A sweep
reads a batch (`BarridoInicia`), fires each document under a condition checked
again (`Disparar`) and writes one email (`CorreoSale`, `CorreoFalla`) before the
next. A sweep that finds nothing due does nothing, so it is not a step. The
cursor brings its batch at once; one that brings it in pieces would only see
later states of the documents, which `Disparar` reads again anyway. `correos` is
a history variable.

**Usuarios.** `user` is the account of each email, `tenantActivo` the field of
the tenants, `pet` the management requests, `ingreso` the logins. A request is
authorised (`Autorizar`: JWT, role and tenant of the caller), reads the account
(`Leer`), counts administrators if it would remove one (`Contar`), reads the
tenant (`Resolver`) and writes (`Escribir`), as the code does, without any
condition on what the account is by then; creations go through `CrearLee`,
`Resolver` and `CrearEscribe`. `Registrar` and `Restablecer` are the two callers
without an actor. Whoever is active can be calling: any token accepted for an
account says what the account says, so callers are taken from `user`, and
`sesiones` holds only the tokens that are followed. Three history variables say
what must be told apart: `cortada` in a token (its account was suspended since
it was read for the login), `rancias` (accounts written by a request that had
read something else) and `conteoRancio` (a count that no longer held when it was
acted on). Databases older than `credentialsVersion` are among the initial
states: accounts at version 0, perhaps suspended, with tokens around. The
controller reads an account once more than the service, for the audit; that read
decides nothing new and is left out.

**Repetir.** The lines of the original are resolved one by one (`ResuelveLinea`,
each with its own read of a catalogue that others change), `Guarda` saves the
copy, and `CancelaAviso`, `Rearma`, `LeeOriginal`, `CambiaLee`, `CambiaEscribe`
and `Confirma` are what follows, each with its failure as the code handles it: a
log, or a response that says so. Others move the original with the actions of
`CicloCotizacion` and its reminder in one step each. A comment of the controller
(cotizaciones.controller.ts:434) says that the reminder of the original is always
cancelled; a failure to do so is only logged, which is the exception
`OrigenCallado` names (`mudas`). A failed read of the copy after its save
(cotizaciones.service.ts:1136) answers an error although the copy exists, and so does
a save that was applied and answered with an error (line 1132).

**Restablecer.** A request makes a token, sends the mail and then removes the
other tokens of the address; a reset reads the token, the account, sets the
password and marks the token. Tokens are pruned by the address as it was typed,
not by account (password-reset.service.ts:85), so the promise is about an
address. `completados` are the tokens whose reset came to its end, the mark included:
a stop or an error between the password and the mark leaves the link open, which lets
the user repeat the reset (`EnlaceSirve`, which names no exception for it). A change of password does not end the sessions that are open.

**Alta.** Onboarding is a chain of writes (tenant, configuration, catalogue,
templates, administrator), undone in order when one fails; an undo may fail as
well, which is the exception of `SinHuerfanos`.

**Configuracion, Envio.** The stored pair of the mail account is checked against
what was read and written later; `cruzada` records that two changes of it were in
flight. A logo is a set of files (`archivos`) beside a field (`url`), written in
a different order by an upload, a removal and the removal of the bank's data;
`sueltas` records the logos whose changes crossed or could not finish. The name
the mail shows as its sender is read before the credentials, so it may be of an
older configuration; it is not in the model.

**Catalogo, Importacion.** A category is removed after counting its services, and
`CategoriaEnUso` is about services that can be sold. A creation in several
tenants is undone by hand, and undoes only what it knows of: the service of a save
that was applied and answered with an error stays (`creados` holds it, with those whose
creation was answered or whose deletion failed). The import plans from one read and
deals with the rows after it. `perdidos` are the items it stored and counted as failed,
since the answer of the save was an error; it does not remember their names.
`ImportacionFiel` therefore says that no row repeats the name of an item that was read
or counted as created, which is less than what the sheet that explains the file says
(section 5).

**Clientes.** The unique index of the RFC is partial: it covers active documents,
and not those older than the field, which lists show (section 5). Among the documents
it covers the index decides every write, so no property is about the RFC.

**Confidencialidad.** Each host remembers who accepted the version it carries; a
deployment empties that memory and ends the requests of the host.

**Metricas.** Each query of the summary reads the quotations at its own time;
`ResumenCoherente` says which figures agree nevertheless. The sums of the database
are those of the library (`SumFunctionOnSet`): a line that a query leaves out adds
nothing. Every line is stored with its subtotal, so that the aggregations recompute one
that is missing is left out.

**Administracion, Comercial.** The parts of either share no document. A step is of
one part and leaves the others as they are; a property of a part is restated under
its own name.

## 3. Runs

| run | checks | instance and why it is enough |
|---|---|---|
| `cotizacion` | dates and provenance agree with the state; one notification per opening; deadlines respected; `CicloCotizacion`; a decision of the customer is replaced only by a change that read it, or after a reopening | one quotation, two requests of any kind (a sweep over HTTP counts as one), two ticks, two tokens: every property relates one document to the requests over it, and each hazard is a race of two. Quotations share nothing but the source of tokens. The last property is checked apart, with the record of `CotizacionCruces`, one tick, one date and one link, and openings enough to reopen, answer again and change |
| `recordatorio` | one email per quotation; fired at its stored date; `CicloRecordatorio` | two quotations, so that a sweep holds a batch of two, two upserts, two sweeps |
| `planificadores` | no folio twice, folios follow creation; an overdue quotation does not stay open; a due reminder is dealt with | three folio requests, two keys, older folios 1 and 3 on one; one quotation, one request that interferes without end, one sweep; two reminders, one upsert, one sweep |
| `usuarios` | tokens from before a suspension stay refused; roles and tenants agree | three accounts, one tenant, one management request at a time and one login overlapping it, one token followed (tokens do not influence anything), one suspension per account; an empty database, one with a suspended user of old and one with two administrators of the tenant |
| `usuarios_par` | the last administrator, of the system or of a tenant, goes only by a race | two accounts, two overlapping requests, no tokens |
| `administracion` | the last link serves until a reset with it is completed, alone; a completed one opens nothing; a tenant is as ordered or gone; a mail leaves with its own password; logos, images and categories are there; a batch that is refused leaves nothing it knows of | three requests over two spellings of one account and two tokens, so that requests cross or do not; two onboardings of two tenants; two changes of two mail accounts and two logos beside one mail; three requests over two catalogues of two services |
| `comercial` | the response of a repetition is true, the original is silent; an import repeats nothing it read or counted and its counts are true; figures agree; customers and contacts keep their types; the gate is faithful | two repetitions of an original with two lines, which others touch twice; two files of three and four rows of every kind beside one change; three quotations, one created during the summary; two customers with one RFC and three requests; two hosts, two accounts, two versions |
| `sin_vigencia`, `enlace`, `plazo_enlace`, `usuarios_carrera`, `notas` | violated: see Findings | one quotation and one request, two accounts and two requests, or one note and two requests: enough for it to happen |

`planificadores`, `administracion` and `comercial` check several modules that
share no document: a variable `parte`, chosen at the start, says which of them
moves, and the others stay in one initial state, so the run is the union of the
runs of its parts. `cotizacion` is the union of two instances of `Cotizacion` in the
same way (`MCCruces`). `MCAdministracion` and `MCComercial` choose the part, and
`Administracion` and `Comercial` say what a step of it is. The catalogue of
`Metricas` starts with one price, and a change of it is a step.

Requests of `Usuarios` overlap in two accounts only: the races are between a
request and what it read, of one account or of one count, and the theorems cover
any number of accounts, requests and tokens.

Bounds: `MaxTiempo` and `MaxReloj` stop the clocks, `MaxEnvios` the tokens,
`MaxSaldo` the times a quotation is opened again without an answer: large enough
for an answer, a reopening and a second answer. `MaxVersion` bounds the
suspensions of an account and the versions of the agreement, `MaxSesiones` the
tokens followed, `MaxAjenos` the steps of others beside a repetition, an import or
a summary (two for a repetition: one to move the original and one to move it
back, or to arm its reminder again), `Tocadas` the quotations they touch. `Vida`
and `Gracia` are the life of a link and the delay of the index that removes it.
`Fechas` holds a date that passes and one that does not. Symmetry is used where
the members of a set are alike: requests, tokens, copies and hosts. Deadlock is
not checked: a system where every request has ended and the clock has reached its
bound may stop.

Every property of a passing run has a *faulty variant* beside the definition it
replaces (a dropped condition, a missing `$unset`, a write in the wrong order):
TLC finds the property violated with it, which shows that the property depends on
the code.

### Fairness

Only the schedulers are assumed to be fair. `EquidadCron`: `@Cron` starts the
sweep again and again (weak fairness of `BarrerInicia`), and a sweep interrupted
now and then visits each document in the end (strong fairness, since an aborted
sweep disables the visit until the next one). `EquidadBarrido` says the same of
the hourly sweep, and that an attempt to send an email ends, well or not, since
the SMTP client has timeouts. Users, customers and requests owe nothing.

## 4. Proofs

TLAPS proves the safety properties for every value of the constants: any number
of quotations, requests and sweeps, any dates, and without the bounds mattering.
The assumptions are those on the constants: older folios are natural numbers,
dates and periods are positive, there are finitely many accounts, a database to
start from has an active administrator or no account at all, a sequence of lines
is of known services, and the values that stand for nothing are none of the
others. The parts of `Administracion` and `Comercial` state theirs as `ConstantsOK`,
which `ParametersAssumption` collects, so TLC evaluates them too.

* `CountersProofs`. Uniqueness is not inductive alone. `IndInv` adds that a
  request past the upsert works on an existing counter (`CounterReady`), that a
  number handed out is at most `seq` (`FolioReached`), and that a scan made while
  there is no counter has seen every folio (`ScanComplete`): no folio can be
  stored in a key without a counter, because a request saves only after `$inc`.
  The last one is what makes the unlocked first use of a year safe.
* `CotizacionProofs`. `IndInv` adds to the type what requests carry over their
  awaits (`LocalesValidos`): a document that `update` read exists, a manual
  change under way changes the state, the instant of a sweep is in the past.
  `AvisoPorApertura` needs more than its own text: `SaldoCubre` says that the
  balance of a quotation covers the requests about to notify it (`Cardinality`),
  one more if it is open. An answer closes it as it joins them, so it keeps the
  sum, and only whoever opens it adds to the balance.
  Each action is then classified once by what it does to a document (nothing that
  matters, created, changed by a user, answered, expired), and the invariants, the
  action properties and the refinement follow from the classification.
  `LaRespuestaNoSePisa` is about `CotizacionCruces`: `LeidoAntes` says that a change
  whose quotation nobody opened again has read it open if it is open or was answered
  meanwhile, so that it cannot match the answer it did not read.
* `RecordatorioProofs`. `IndInv` adds that the flag agrees with the state
  (`BanderaCoherente`) and that a sweep about to write holds the right to do so
  alone and unused (`CorreoReservado`), which is why overlapping sweeps send once.
* `UsuariosProofs`. `IInv` adds what a request knows from its earlier round trips
  (`Coherente`: the account it read is there, whoever removes an administrator
  counted another, the tenant fits the role) and that no token is newer than its
  account (`Antigua`), which is what a suspension and a reactivation keep. A
  write over what was read then preserves everything; one over something else is
  recorded in the history variables, so the theorems say exactly how far the
  protection of the code goes. For the tenant (`TenantConservaAdmin`) a request
  also knows that its actor could manage the account it read, and that the tenant
  it writes is the one it resolved: with the count, that leaves another
  administrator in place whenever a write removes one.
* `RestablecerProofs`. `IInv` says of each address how far the last request for it
  has come: which token it made, that its mail left (`Mandados`), that the token
  then is stored and serves (`Servidos`), and that the others of the address are
  gone once it is over (`Solos`). That the mark and `completados` agree
  (`Completados`) gives `UsoUnico`, and that a reset which stops between its writes
  leaves its token as it was gives the last link its promise.
* `RepetirProofs`. Each action is classified by what it does to the documents
  (`PasoDe`: before the copy, the copy, one case for each step after it; `DeOtros`
  for those of others). `IInv` adds that a copy is a quotation of its own
  (`Copias`, so that arming its reminder is not arming the original's), that the
  lines resolved so far are those the body asked for (`LineaAlDia`), and that what
  is about to be cancelled was not (`Leida`). `KeepsTheCycle` proves that a
  repetition moves quotations by steps of `CicloCotizacion` only, which is what
  `Cotizacion` implements and what `Repetir` assumes of the others.
* `AdministracionProofs`. One invariant for each part that is an instance.
  `A_IInv`, of the onboarding: nothing belongs to a tenant that was never created
  (`A_Virgen`), the onboarding of a tenant is the only one and what it has done so
  far is there (`A_EnCurso`), another request comes in between only by crossing it
  (`A_Apartada`), so that what succeeded stays complete (`A_Lograda`) and what was
  undone stays empty (`A_Deshecha`). `C_IInv`, of the mail account: unless two
  changes crossed, what the one in flight would write is coherent (`Cuenta`); each
  step of a change of a logo finds what the one before left (`Logo`, `Etapa`); a
  mail about to leave has a user with its own password (`Correspondencia`), which
  needs the first. `K_IInv`, of the catalogue: what a request read of a service or
  of a category still holds unless another request is about it (`K_Vista`, `K_Suyo`,
  `K_Baja`), and two requests in flight about the same thing are recorded as crossed
  (`K_Cruce`).
* `ComercialProofs`. `G_IInv`, of the agreement: what a host remembers is stored for
  the version it carries, and a request in flight is of the version of its host; a
  deployment preserves both only because it ends the requests of the host.
  `L_IInv`, of the customers: a request writes only what is there, which
  `TypesAreCorrect` rests on. `I_IInv`, of the import: the rows before
  the one in turn have been counted, each once (`I_Cuadra`), those stored with a lost
  answer as failed (`I_Cuenta`), and the names in memory cover what was read and what
  was created and counted (`I_Sabido`), which with the test of the row gives that none
  of it is repeated. `M_IInv`, of the summary: its figures
  agree when those still to be read are taken as they are now (`M_Cuadra`). That
  makes the query itself a step that changes nothing, and leaves the moves: a
  quotation that moves changes each set in one element, so it disturbs a comparison
  of counts by one (`M_Tercia`), which `movidos` counts, and a comparison of sums
  only by making `movidos` positive. At the start the figures are of one state, and
  agree since periods are nested, states are apart, and the lines of each type add
  up to the total of their quotation (`M_PorTipo`), which `M_Totales` keeps true
  from line to line.

Sums need induction over a finite set. The induction theorems of the library take
an operator, but its theorem that strict inclusion is well founded does not: the
first part of `ComercialProofs` derives from it that a family of subsets has a
minimal member (`Minimo`), that the recursion of `SumFunctionOnSet` has a solution
and one only (`AcumulaHay`, `AcumulaIgual`), and from these the laws that are cited:
a sum of natural numbers is one, a term can be taken out of it, and it is monotone
and additive.

`CumpleElCiclo`, in `CotizacionProofs` and `RecordatorioProofs`, proves that every
behaviour of the detailed specification, seen through the refinement mapping, is
one of the abstract.

Every invariant and action property that a passing run checks is also a theorem.
Model-checked only: the two liveness properties of `planificadores`, since the
prover does not handle liveness under fairness nor ENABLED. The specifications that
a run refutes (section 5) have no proof, and `Notas`, of which a refuted property is
the only one, has none at all.

## 5. Findings

* `sin_vigencia`: the schema says that `fechaVencimiento` is absent when
  `sinVigencia`; reopening or updating such a quotation writes a date and leaves
  the flag.
* `enlace`: the email promises a link good until a date; a later sending that
  fails, or stops half way, removes or replaces the token of that link.
* `plazo_enlace`: extending a quotation does not extend the link sent for it,
  which is then refused with "vigencia superada" although the quotation is open
  and within its date.
* `usuarios_carrera`: the check for the last active administrator counts first
  and writes later without a condition. Two administrators deactivated at once
  leave none; nobody can then manage the platform or register, since accounts
  exist. With requests one at a time there is always one.
* `notas`: notes are stored as plain objects, so without an `_id`; edits and
  removals look for one and find none. The author cannot edit a note.

Seen while modelling, and stated here without a run:

* The answer to a reset that is refused says that its link was used
  (auth.controller.ts:245). A reset that stops, or whose database fails, between the
  password and the mark on the token (password-reset.service.ts:194, :199) leaves its
  link open until it expires.
* The sheet that explains the import says that names are unique in the tenant
  (catalogo-import.ts:241). No index enforces it, and an import compares with what it
  read once and with the rows that were answered: two imports at once, or a row after
  a save applied and answered with an error (servicios.service.ts:291), repeat a name.
* The schema says that the RFC is unique when there is one (cliente.schema.ts:18). Its
  index is partial on `activo: true` (line 35), and a customer without the field counts
  as active everywhere else (clientes.service.ts:120).
* The one-shot migration of the catalogue puts `activo` in both `$set` and
  `$setOnInsert` of one update.

## 6. Not modelled

Tenant isolation of queries (a constant filter in each), validation of DTOs,
discounts and taxes, the snapshot of templates and of company data in a
quotation, PDF and public presentation, HTTP and framework wiring, the cipher of
the SMTP password, the calendar arithmetic of reminders (a date in the future is
all that is kept), rankings and the dashboard (one aggregation each), lists and
searches, one-shot scripts. Names, emails and passwords of accounts are left out
of `Usuarios`; changes of an email there race for the unique index, which decides
(users.service.ts:310). Texts of mails are left out of `Envio`, colours and texts
of a tenant out of `Configuracion`. Each component of `PROJECT.json` says what of
it is left out.

## 7. Plan

1. (done) `Counters`, `Cotizacion`, `Recordatorio`, `Usuarios`, with their
   abstract specifications and proofs.
2. (done) `Restablecer`, `Alta`, `Configuracion`, `Envio`, `Catalogo`,
   `Importacion`, `Repetir`, `Notas`, `Clientes`, `Confidencialidad`, `Metricas`.
3. (done) Proofs of every safety property that a passing run checks.
4. Pure algorithms against reference definitions: dates of the reminder, lists
   of addresses.
