-------------------------------- MODULE Alta --------------------------------
(***************************************************************************)
(* Onboarding of a tenant (tenants.service.ts): the tenant is created      *)
(* inactive, then its configuration, its templates, its activation and its *)
(* first administrator, each in a write of its own.  A failure takes back  *)
(* what was done, also one write at a time.                                *)
(*                                                                         *)
(* Meanwhile the tenant is in the inventory: an administrator of the       *)
(* system can enter it (TenantContextGuard), read its configuration, which *)
(* creates it, give it templates and accounts, suspend and restore it.     *)
(* Each action is one round trip; a write that fails has no effect.        *)
(***************************************************************************)
EXTENDS Naturals

CONSTANTS
    Tenants,        \* ids of tenants
    Claves,         \* slugs
    Cuentas,        \* emails
    Semillas,       \* PLANTILLAS_SEED
    Propia,         \* a template that someone wrote
    Peticiones,     \* requests; each one is made once
    Nada

ConstantsOK ==
    /\ Propia \notin Semillas
    /\ Nada \notin Tenants /\ Nada \notin Claves /\ Nada \notin Cuentas

VARIABLES
    tenant,         \* the documents of tenants
    config,         \* config[t]: it has a document of tenant_configs
    plantillas,     \* plantillas[t]: its templates
    usuarios,       \* usuarios[c]: the tenant of the account of email c
    pet,            \* pet[p]: progress and locals of a request
    logradas,       \* history: tenants whose onboarding was answered with success
    deshechas,      \* history: those that were taken back with no error
    inciertas,      \* history: those reported as incomplete, or left by a crash
    cruzados        \* history: those with another request during their onboarding

vars == <<tenant, config, plantillas, usuarios, pet, logradas, deshechas, inciertas, cruzados>>
historia == <<logradas, deshechas, inciertas>>

Documento == [estado : {"no", "borrado"}, clave : {Nada}]
             \cup [estado : {"inactivo", "activo"}, clave : Claves]

PasosAlta == {"configura", "siembra", "activa"}
PasosAdmin == {"email", "tenant", "inserta"}
PasosDeshacer == {"quitaPlantillas", "quitaConfig", "quitaTenant"}

\* op: what the request is; clave, cuenta: of its body; errores: some part of the
\* compensation failed.
Peticion ==
    [pc : {"libre", "hecha"}, op : {Nada}, t : {Nada}, clave : {Nada}, cuenta : {Nada},
     errores : {FALSE}]
    \cup [pc : {"crea"}, op : {"alta"}, t : {Nada}, clave : Claves, cuenta : Cuentas,
          errores : {FALSE}]
    \cup [pc : PasosAlta \cup PasosAdmin, op : {"alta"}, t : Tenants, clave : Claves,
          cuenta : Cuentas, errores : {FALSE}]
    \cup [pc : PasosDeshacer, op : {"alta"}, t : Tenants, clave : Claves,
          cuenta : Cuentas, errores : BOOLEAN]
    \cup [pc : PasosAdmin \cup {"config", "plantilla"}, op : {"soporte"}, t : Tenants,
          clave : {Nada}, cuenta : Cuentas, errores : {FALSE}]

EnReposo(pc) == [pc |-> pc, op |-> Nada, t |-> Nada, clave |-> Nada, cuenta |-> Nada,
                 errores |-> FALSE]

TypeOK ==
    /\ tenant \in [Tenants -> Documento]
    /\ config \in [Tenants -> BOOLEAN]
    /\ plantillas \in [Tenants -> SUBSET (Semillas \cup {Propia})]
    /\ usuarios \in [Cuentas -> Tenants \cup {Nada}]
    /\ pet \in [Peticiones -> Peticion]
    /\ logradas \subseteq Tenants /\ deshechas \subseteq Tenants
    /\ inciertas \subseteq Tenants /\ cruzados \subseteq Tenants

Init ==
    /\ tenant = [t \in Tenants |-> [estado |-> "no", clave |-> Nada]]
    /\ config = [t \in Tenants |-> FALSE]
    /\ plantillas = [t \in Tenants |-> {}]
    /\ usuarios = [c \in Cuentas |-> Nada]
    /\ pet = [p \in Peticiones |-> EnReposo("libre")]
    /\ logradas = {} /\ deshechas = {} /\ inciertas = {} /\ cruzados = {}

Existe(t) == tenant[t].estado \in {"inactivo", "activo"}
Activo(t) == tenant[t].estado = "activo"

Seguir(p, r) ==
    /\ pet' = [pet EXCEPT ![p] = r]
    /\ cruzados' = cruzados \cup
        {t \in {r.t} \ {Nada} : \E q \in Peticiones \ {p} :
            pet[q].t = t /\ "alta" \in {r.op, pet[q].op}}

Terminar(p) ==
    /\ pet' = [pet EXCEPT ![p] = EnReposo("hecha")]
    /\ UNCHANGED cruzados

Avanza(p, pc) == Seguir(p, [pet[p] EXCEPT !.pc = pc])

-----------------------------------------------------------------------------
(* Onboarding *)

\* POST /tenants/onboard, whose body is complete
Alta(p, k, c) ==
    /\ pet[p].pc = "libre"
    /\ Seguir(p, [EnReposo("crea") EXCEPT !.op = "alta", !.clave = k, !.cuenta = c])
    /\ UNCHANGED <<tenant, config, plantillas, usuarios, historia>>

\* createTenantDoc, under the unique index on clave
CreaTenant(p) ==
    /\ pet[p].pc = "crea"
    /\ IF \E t \in Tenants : tenant[t].clave = pet[p].clave
       THEN Terminar(p) /\ UNCHANGED tenant
       ELSE \E t \in Tenants :
            /\ tenant[t].estado = "no"
            /\ tenant' = [tenant EXCEPT ![t] = [estado |-> "inactivo", clave |-> pet[p].clave]]
            /\ Seguir(p, [pet[p] EXCEPT !.pc = "configura", !.t = t])
    /\ UNCHANGED <<config, plantillas, usuarios, historia>>

\* findOrCreateForTenant
Configura(p) ==
    /\ pet[p].pc = "configura"
    /\ config' = [config EXCEPT ![pet[p].t] = TRUE]
    /\ Avanza(p, "siembra")
    /\ UNCHANGED <<tenant, plantillas, usuarios, historia>>

\* Faulty variant: one template is enough.
SiembraUna(p) ==
    /\ pet[p].pc = "siembra"
    /\ \E x \in Semillas : plantillas' = [plantillas EXCEPT ![pet[p].t] = @ \cup {x}]
    /\ Avanza(p, "activa")
    /\ UNCHANGED <<tenant, config, usuarios, historia>>

\* ensureSeededForTenant: one upsert per template
Siembra(p) ==
    /\ pet[p].pc = "siembra"
    /\ LET t == pet[p].t IN
        IF Semillas \subseteq plantillas[t]
        THEN Avanza(p, "activa") /\ UNCHANGED plantillas
        ELSE \E x \in Semillas \ plantillas[t] :
             /\ plantillas' = [plantillas EXCEPT ![t] = @ \cup {x}]
             /\ Avanza(p, "siembra")
    /\ UNCHANGED <<tenant, config, usuarios, historia>>

\* activateTenant; only this request deletes the tenant
Activa(p) ==
    /\ pet[p].pc = "activa"
    /\ tenant' = [tenant EXCEPT ![pet[p].t].estado = "activo"]
    /\ Avanza(p, "email")
    /\ UNCHANGED <<config, plantillas, usuarios, historia>>

\* What a failure does: an onboarding takes back, another request just ends.
Fallar(p) == IF pet[p].op = "alta" THEN Avanza(p, "quitaPlantillas") ELSE Terminar(p)

\* UsersService.create: the email is looked up
BuscaEmail(p) ==
    /\ pet[p].pc = "email"
    /\ IF usuarios[pet[p].cuenta] = Nada THEN Avanza(p, "tenant") ELSE Fallar(p)
    /\ UNCHANGED <<tenant, config, plantillas, usuarios, historia>>

\* resolveTenantForRole: the tenant must be active
BuscaTenant(p) ==
    /\ pet[p].pc = "tenant"
    /\ IF Activo(pet[p].t) THEN Avanza(p, "inserta") ELSE Fallar(p)
    /\ UNCHANGED <<tenant, config, plantillas, usuarios, historia>>

\* save, under the unique index on email: the last step of an onboarding
InsertaUsuario(p) ==
    /\ pet[p].pc = "inserta"
    /\ LET r == pet[p] IN
        IF usuarios[r.cuenta] = Nada
        THEN /\ usuarios' = [usuarios EXCEPT ![r.cuenta] = r.t]
             /\ logradas' = logradas \cup {t \in {r.t} : r.op = "alta"}
             /\ Terminar(p)
        ELSE Fallar(p) /\ UNCHANGED <<usuarios, logradas>>
    /\ UNCHANGED <<tenant, config, plantillas, deshechas, inciertas>>

\* An error of the database, or a password the policy refuses
Falla(p) ==
    /\ pet[p].pc \in PasosAlta \cup PasosAdmin \cup {"config", "plantilla"}
    /\ Fallar(p)
    /\ UNCHANGED <<tenant, config, plantillas, usuarios, historia>>

\* Faulty variant: templates are left behind.
OlvidaPlantillas(p) ==
    /\ pet[p].pc = "quitaPlantillas"
    /\ Avanza(p, "quitaConfig")
    /\ UNCHANGED <<tenant, config, plantillas, usuarios, historia>>

\* compensatePartialOnboard
QuitaPlantillas(p) ==
    /\ pet[p].pc = "quitaPlantillas"
    /\ \/ /\ plantillas' = [plantillas EXCEPT ![pet[p].t] = {}]
          /\ Avanza(p, "quitaConfig")
       \/ /\ Seguir(p, [pet[p] EXCEPT !.pc = "quitaConfig", !.errores = TRUE])
          /\ UNCHANGED plantillas
    /\ UNCHANGED <<tenant, config, usuarios, historia>>

QuitaConfig(p) ==
    /\ pet[p].pc = "quitaConfig"
    /\ \/ /\ config' = [config EXCEPT ![pet[p].t] = FALSE]
          /\ Avanza(p, "quitaTenant")
       \/ /\ Seguir(p, [pet[p] EXCEPT !.pc = "quitaTenant", !.errores = TRUE])
          /\ UNCHANGED config
    /\ UNCHANGED <<tenant, plantillas, usuarios, historia>>

QuitaTenant(p) ==
    /\ pet[p].pc = "quitaTenant"
    /\ LET r == pet[p] IN
        \/ /\ tenant' = [tenant EXCEPT ![r.t] = [estado |-> "borrado", clave |-> Nada]]
           /\ IF r.errores THEN inciertas' = inciertas \cup {r.t} /\ UNCHANGED deshechas
              ELSE deshechas' = deshechas \cup {r.t} /\ UNCHANGED inciertas
        \/ inciertas' = inciertas \cup {r.t} /\ UNCHANGED <<tenant, deshechas>>
    /\ Terminar(p)
    /\ UNCHANGED <<config, plantillas, usuarios, logradas>>

\* The process ends
Cae(p) ==
    /\ pet[p].pc \notin {"libre", "hecha"}
    /\ Terminar(p)
    /\ inciertas' = inciertas \cup {t \in {pet[p].t} : pet[p].op = "alta" /\ t # Nada}
    /\ UNCHANGED <<tenant, config, plantillas, usuarios, logradas, deshechas>>

-----------------------------------------------------------------------------
(* What others do in the tenant *)

\* TenantContextGuard: an account of the tenant enters while it is active, an
\* administrator of the system whenever it exists.  Then the request reads the
\* configuration, creates a template or creates an account.
Entra(p, t, pc, c) ==
    /\ pet[p].pc = "libre"
    /\ Existe(t)
    /\ Seguir(p, [EnReposo(pc) EXCEPT !.op = "soporte", !.t = t, !.cuenta = c])
    /\ UNCHANGED <<tenant, config, plantillas, usuarios, historia>>

LeeConfig(p) ==
    /\ pet[p].pc = "config"
    /\ config' = [config EXCEPT ![pet[p].t] = TRUE]
    /\ Terminar(p)
    /\ UNCHANGED <<tenant, plantillas, usuarios, historia>>

CreaPlantilla(p) ==
    /\ pet[p].pc = "plantilla"
    /\ plantillas' = [plantillas EXCEPT ![pet[p].t] = @ \cup {Propia}]
    /\ Terminar(p)
    /\ UNCHANGED <<tenant, config, usuarios, historia>>

\* setActivo: one write
CambiaActivo(p, t, estado) ==
    /\ pet[p].pc = "libre"
    /\ Existe(t)
    /\ tenant' = [tenant EXCEPT ![t].estado = estado]
    /\ pet' = [pet EXCEPT ![p] = EnReposo("hecha")]
    /\ cruzados' = cruzados \cup {t2 \in {t} : \E q \in Peticiones : pet[q].t = t2
                                                                 /\ pet[q].op = "alta"}
    /\ UNCHANGED <<config, plantillas, usuarios, historia>>

Next ==
    \E p \in Peticiones :
        \/ \E k \in Claves, c \in Cuentas : Alta(p, k, c)
        \/ CreaTenant(p) \/ Configura(p) \/ Siembra(p) \/ Activa(p)
        \/ BuscaEmail(p) \/ BuscaTenant(p) \/ InsertaUsuario(p)
        \/ QuitaPlantillas(p) \/ QuitaConfig(p) \/ QuitaTenant(p)
        \/ Falla(p) \/ Cae(p)
        \/ \E t \in Tenants, c \in Cuentas, pc \in {"config", "plantilla", "email"} :
            Entra(p, t, pc, c)
        \/ LeeConfig(p) \/ CreaPlantilla(p)
        \/ \E t \in Tenants, estado \in {"inactivo", "activo"} : CambiaActivo(p, t, estado)

Spec == Init /\ [][Next]_vars

-----------------------------------------------------------------------------
(* Properties *)

\* An onboarding that is answered with success leaves the whole tenant, whatever
\* others did in it: its configuration, all its templates and an account
\* (tenants.service.ts:164).
AltaCompleta ==
    \A t \in logradas :
        /\ Existe(t) /\ config[t] /\ Semillas \subseteq plantillas[t]
        /\ \E c \in Cuentas : usuarios[c] = t

\* One that is taken back with no error leaves nothing: the tenant is gone, and
\* unless someone was in it meanwhile so are its configuration, its templates and
\* its accounts (tenants.service.ts:243).
SinHuerfanos ==
    \A t \in deshechas :
        /\ tenant[t].estado = "borrado"
        /\ t \notin cruzados =>
            /\ ~config[t] /\ plantillas[t] = {}
            /\ \A c \in Cuentas : usuarios[c] # t
=============================================================================
