------------------------------ MODULE Usuarios ------------------------------
(***************************************************************************)
(* Accounts and sessions (users.service.ts, auth.service.ts,               *)
(* jwt.strategy.ts): administrators create, change and suspend accounts;   *)
(* a login signs a token with what it read of the account, and every       *)
(* request is accepted by comparing its token with the account as stored.  *)
(*                                                                         *)
(* A request is a sequence of round trips: it is authorised, reads the     *)
(* account, counts administrators when it would remove one, reads the      *)
(* tenant and writes, unconditionally.  Each action is one round trip.     *)
(* An email is an account; passwords are right when they are tried.        *)
(***************************************************************************)
EXTENDS Integers, FiniteSets

CONSTANTS
    Cuentas,        \* the emails an account can have
    Tenants,
    Peticiones,     \* the management requests that can be in flight together
    Ingresos,       \* the logins that can be in flight together
    Ordenes,        \* what the requests ask for
    Iniciales,      \* the databases the system can start from
    SinTenant,      \* no tenantId
    Omitido,        \* a field the body does not have
    MaxVersion,     \* bound: suspensions of an account
    MaxSesiones     \* bound: tokens in use that are followed

Roles == {"operativo", "admin_tenant", "admin_sistema"}
Gestores == {"admin_tenant", "admin_sistema"}

Usuario == [rol : Roles, tenant : Tenants \cup {SinTenant},
            activo : BOOLEAN, version : Nat]

NoExiste == [rol |-> "ninguno", tenant |-> SinTenant, activo |-> FALSE, version |-> 0]

\* UpdateUserDto and CreateUserDto
Cambio == [rol : Roles \cup {Omitido}, tenant : Tenants \cup {Omitido},
           activo : BOOLEAN \cup {Omitido}]

\* POST, PATCH or DELETE /users; DELETE is softDelete, which has no body.
Orden == [op : {"create", "update"}, cambio : Cambio]
         \cup [op : {"softDelete"}, cambio : [rol : {Omitido}, tenant : {Omitido}, activo : {FALSE}]]

\* AD-11: who has a tenant.
RolConTenant(u) == u.rol = "admin_sistema" <=> u.tenant = SinTenant

ASSUME ConstantsAssumption ==
    /\ SinTenant \notin Tenants
    /\ Omitido \notin Roles /\ Omitido \notin Tenants /\ Omitido \notin BOOLEAN
    /\ Ordenes \subseteq Orden
    /\ IsFiniteSet(Cuentas)

\* Databases from before credentialsVersion: every account has version 0.
ASSUME InicialesAssumption ==
    /\ Iniciales \subseteq [Cuentas -> {NoExiste} \cup Usuario]
    /\ \A u \in Iniciales :
        /\ \A c \in Cuentas : u[c] # NoExiste => u[c].version = 0 /\ RolConTenant(u[c])
        /\ \/ \A c \in Cuentas : u[c] = NoExiste
           \/ \E c \in Cuentas : u[c].rol = "admin_sistema" /\ u[c].activo

VARIABLES
    user,           \* user[c]: the stored account of email c
    tenantActivo,   \* tenantActivo[t]: Tenant.activo
    sesiones,       \* tokens in use; "cortada": the account was suspended since
    ingreso,        \* ingreso[i]: progress and locals of a login
    pet,            \* pet[p]: progress and locals of a management request
    rancias,        \* accounts written by a request that had read them otherwise
    conteoRancio    \* an administrator was removed after a count that no longer held

vars == <<user, tenantActivo, sesiones, ingreso, pet, rancias, conteoRancio>>

Libre == [pc |-> "libre"]

\* The caller of the service: its role and the tenant it acts on, its own or
\* that of X-Tenant-Id.  "interno": register and the password reset pass none.
Actor == [rol : Gestores \cup {"interno"}, tenant : Tenants \cup {SinTenant}]
Interno == [rol |-> "interno", tenant |-> SinTenant]

Sesion == [cuenta : Cuentas, rol : Roles, tenant : Tenants \cup {SinTenant},
           version : Nat, cortada : BOOLEAN]

Ingreso == {Libre} \cup [pc : {"leido"}, cuenta : Cuentas, leido : Usuario, cortada : BOOLEAN]

Peticion ==
    {Libre} \cup
    [pc : {"leer", "contar", "resolver", "escribir"},
     op : {"create", "update", "softDelete"}, actor : Actor, cuenta : Cuentas,
     cambio : Cambio, leido : {NoExiste} \cup Usuario, contados : Nat,
     destino : Tenants \cup {SinTenant}]

TypeOK ==
    /\ user \in [Cuentas -> {NoExiste} \cup Usuario]
    /\ tenantActivo \in [Tenants -> BOOLEAN]
    /\ sesiones \subseteq Sesion
    /\ ingreso \in [Ingresos -> Ingreso]
    /\ pet \in [Peticiones -> Peticion]
    /\ rancias \subseteq Cuentas
    /\ conteoRancio \in BOOLEAN

Existe(c) == user[c] # NoExiste

\* The token that login signs for account c when it reads u.
Firmada(c, u, cortada) ==
    [cuenta |-> c, rol |-> u.rol, tenant |-> u.tenant, version |-> u.version,
     cortada |-> cortada]

\* Some are logged in; a token of an account suspended by now is cut off.
Init ==
    /\ user \in Iniciales
    /\ tenantActivo = [t \in Tenants |-> TRUE]
    /\ \E C \in SUBSET {c \in Cuentas : Existe(c)} :
        /\ Cardinality(C) <= MaxSesiones
        /\ sesiones = {Firmada(c, user[c], ~user[c].activo) : c \in C}
    /\ ingreso = [i \in Ingresos |-> Libre]
    /\ pet = [p \in Peticiones |-> Libre]
    /\ rancias = {}
    /\ conteoRancio = FALSE

-----------------------------------------------------------------------------
Seguir(p, registro) == pet' = [pet EXCEPT ![p] = registro]

\* JwtStrategy.validate
Acepta(s) ==
    LET u == user[s.cuenta] IN
    /\ Existe(s.cuenta) /\ u.activo
    /\ s.version = u.version /\ s.rol = u.rol /\ s.tenant = u.tenant

\* The active administrators that the two "last one" checks count for u.
AdminsActivos == {c \in Cuentas : user[c].rol = "admin_sistema" /\ user[c].activo}
AdminsDeTenant(t) ==
    {c \in Cuentas : user[c].rol = "admin_tenant" /\ user[c].tenant = t /\ user[c].activo}
Contados(u) ==
    Cardinality(IF u.rol = "admin_sistema" THEN AdminsActivos ELSE AdminsDeTenant(u.tenant))

\* Account c becomes u: suspending it cuts off its tokens and those being issued.
Guardar(c, u) ==
    LET suspende == user[c].activo /\ ~u.activo IN
    /\ user' = [user EXCEPT ![c] = u]
    /\ sesiones' = {[s EXCEPT !.cortada = @ \/ (suspende /\ s.cuenta = c)] : s \in sesiones}
    /\ ingreso' = [i \in Ingresos |->
                    IF suspende /\ ingreso[i].pc = "leido" /\ ingreso[i].cuenta = c
                    THEN [ingreso[i] EXCEPT !.cortada = TRUE] ELSE ingreso[i]]

(* Login *)

\* validateUser up to the password
LoginLee(i, c) ==
    /\ ingreso[i].pc = "libre"
    /\ Cardinality(sesiones) < MaxSesiones
    /\ Existe(c) /\ user[c].activo
    /\ ingreso' = [ingreso EXCEPT ![i] = [pc |-> "leido", cuenta |-> c, leido |-> user[c],
                                          cortada |-> FALSE]]
    /\ UNCHANGED <<user, tenantActivo, sesiones, pet, rancias, conteoRancio>>

\* The rest of validateUser and login: the token has what was read before.
LoginFirma(i) ==
    /\ ingreso[i].pc = "leido"
    /\ LET u == ingreso[i].leido IN
        sesiones' = IF u.rol # "admin_sistema" /\ u.tenant # SinTenant => tenantActivo[u.tenant]
                    THEN sesiones \cup {Firmada(ingreso[i].cuenta, u, ingreso[i].cortada)}
                    ELSE sesiones
    /\ ingreso' = [ingreso EXCEPT ![i] = Libre]
    /\ UNCHANGED <<user, tenantActivo, pet, rancias, conteoRancio>>

\* The token expires.
Expirar(s) ==
    /\ sesiones' = sesiones \ {s}
    /\ UNCHANGED <<user, tenantActivo, ingreso, pet, rancias, conteoRancio>>

(* A management request *)

Recibida(orden, actor, c) ==
    [pc |-> "leer", op |-> orden.op, cambio |-> orden.cambio, actor |-> actor, cuenta |-> c,
     leido |-> NoExiste, contados |-> 0, destino |-> SinTenant]

\* The token a login of account c gives: whatever token is accepted for c
\* says the same of it.
Vigente(c) == Firmada(c, user[c], FALSE)

\* JwtAuthGuard, RolesGuard and actorFrom.  The header h counts for
\* admin_sistema only; admin_tenant needs its tenant active.
Actua(c, h) ==
    /\ Acepta(Vigente(c)) /\ user[c].rol \in Gestores
    /\ IF user[c].rol = "admin_tenant"
       THEN h = user[c].tenant /\ h \in Tenants /\ tenantActivo[h]
       ELSE h \in Tenants \cup {SinTenant}

\* A request of a about account c
Autorizar(p, orden, c) ==
    /\ pet[p].pc = "libre"
    /\ \E a \in Cuentas, h \in Tenants \cup {SinTenant} :
        /\ Actua(a, h)
        /\ Seguir(p, Recibida(orden, [rol |-> user[a].rol, tenant |-> h], c))
    /\ UNCHANGED <<user, tenantActivo, sesiones, ingreso, rancias, conteoRancio>>

SinActor(op, rol) ==
    [op |-> op, cambio |-> [rol |-> rol, tenant |-> Omitido, activo |-> Omitido]]

\* POST /auth/register: the count, for the first administrator.
Registrar(p, c) ==
    /\ pet[p].pc = "libre"
    /\ \A d \in Cuentas : ~Existe(d)
    /\ Seguir(p, Recibida(SinActor("create", "admin_sistema"), Interno, c))
    /\ UNCHANGED <<user, tenantActivo, sesiones, ingreso, rancias, conteoRancio>>

\* resetPasswordForAdmin finds the account active and calls update.
Restablecer(p, c) ==
    /\ pet[p].pc = "libre"
    /\ Existe(c) /\ user[c].activo
    /\ Seguir(p, Recibida(SinActor("update", Omitido), Interno, c))
    /\ UNCHANGED <<user, tenantActivo, sesiones, ingreso, rancias, conteoRancio>>

\* assertAssignableRole, assertCanManage
PuedeAsignar(actor, rol) == ~(actor.rol = "admin_tenant" /\ rol = "admin_sistema")

PuedeGestionar(actor, u) ==
    CASE actor.rol = "admin_tenant"  -> u.rol # "admin_sistema" /\ u.tenant = actor.tenant
      [] actor.rol = "admin_sistema" -> u.rol = "admin_sistema"
                                        \/ (u.tenant = actor.tenant /\ u.tenant # SinTenant)
      [] OTHER -> TRUE

\* Faulty variant: only a suspension removes an administrator.
QuitaAdminSinRol(u, cambio) ==
    /\ u.activo
    /\ u.rol = "admin_sistema" \/ (u.rol = "admin_tenant" /\ u.tenant # SinTenant)
    /\ cambio.activo = FALSE

\* assertNotRemovingLastActiveAdmin and its tenant counterpart: when to count.
QuitaAdmin(u, cambio) ==
    /\ u.activo
    /\ u.rol = "admin_sistema" \/ (u.rol = "admin_tenant" /\ u.tenant # SinTenant)
    /\ cambio.rol \notin {Omitido, u.rol} \/ cambio.activo = FALSE

\* update and softDelete read the account.
Leer(p) ==
    /\ pet[p].pc = "leer" /\ pet[p].op # "create"
    /\ LET r == pet[p]
           u == user[r.cuenta] IN
        /\ r.cambio.activo = FALSE => u.version < MaxVersion
        /\ IF /\ Existe(r.cuenta) /\ PuedeGestionar(r.actor, u)
              /\ PuedeAsignar(r.actor, r.cambio.rol)
           THEN Seguir(p, [r EXCEPT !.leido = u,
                                    !.pc = IF QuitaAdmin(u, r.cambio) THEN "contar"
                                           ELSE IF r.op = "update" THEN "resolver"
                                           ELSE "escribir"])
           ELSE Seguir(p, Libre)
    /\ UNCHANGED <<user, tenantActivo, sesiones, ingreso, rancias, conteoRancio>>

\* countDocuments
Contar(p) ==
    /\ pet[p].pc = "contar"
    /\ LET r == pet[p]
           n == Contados(r.leido) IN
        Seguir(p, IF n <= 1 THEN Libre
                  ELSE [r EXCEPT !.contados = n,
                                 !.pc = IF r.op = "update" THEN "resolver" ELSE "escribir"])
    /\ UNCHANGED <<user, tenantActivo, sesiones, ingreso, rancias, conteoRancio>>

\* create looks for the email.
CrearLee(p) ==
    /\ pet[p].pc = "leer" /\ pet[p].op = "create"
    /\ LET r == pet[p] IN
        Seguir(p, IF r.cambio.rol # Omitido /\ PuedeAsignar(r.actor, r.cambio.rol)
                     /\ ~Existe(r.cuenta)
                  THEN [r EXCEPT !.pc = "resolver"] ELSE Libre)
    /\ UNCHANGED <<user, tenantActivo, sesiones, ingreso, rancias, conteoRancio>>

\* The role the account will have.
RolFinal(r) == IF r.cambio.rol = Omitido THEN r.leido.rol ELSE r.cambio.rol

\* The tenant it will have: the caller's, which the body may only repeat, or,
\* without a caller, the one it had.
TenantPedido(r) == IF r.actor.rol = "interno" THEN r.leido.tenant ELSE r.actor.tenant

\* resolveCreateTenantIdForActor or the tenant part of update, and
\* resolveTenantForRole.
Asignable(r) ==
    IF RolFinal(r) = "admin_sistema" THEN r.op = "update" => r.cambio.tenant = Omitido
    ELSE /\ TenantPedido(r) # SinTenant
         /\ r.cambio.tenant \in {Omitido, TenantPedido(r)}
         /\ tenantActivo[TenantPedido(r)]

\* Faulty variant: becoming admin_sistema does not clear tenantId.
DestinoSinUnset(r) ==
    IF RolFinal(r) = "admin_sistema" THEN r.leido.tenant ELSE TenantPedido(r)

\* Faulty variant: the tenant is the one of the body.
DestinoDelCuerpo(r) ==
    IF RolFinal(r) = "admin_sistema" THEN SinTenant ELSE r.cambio.tenant

Destino(r) == IF RolFinal(r) = "admin_sistema" THEN SinTenant ELSE TenantPedido(r)

Resolver(p) ==
    /\ pet[p].pc = "resolver"
    /\ LET r == pet[p] IN
        Seguir(p, IF Asignable(r) THEN [r EXCEPT !.pc = "escribir", !.destino = Destino(r)]
                  ELSE Libre)
    /\ UNCHANGED <<user, tenantActivo, sesiones, ingreso, rancias, conteoRancio>>

\* Faulty variant: a reactivation never touches the version.
SiguienteVersionSoloAlSuspender(leido, activo, actual) ==
    IF leido.activo /\ activo = FALSE THEN leido.version + 1 ELSE actual

\* nextCredentialsVersionOnActivoChange, over the version stored by now.
SiguienteVersion(leido, activo, actual) ==
    IF leido.activo /\ activo = FALSE THEN leido.version + 1
    ELSE IF ~leido.activo /\ activo = TRUE /\ leido.version = 0 THEN 1
    ELSE actual

\* The $set and $unset of update, over the account stored by now.
Actualizado(u, r) ==
    [rol |-> IF r.cambio.rol = Omitido THEN u.rol ELSE r.cambio.rol,
     tenant |-> r.destino,
     activo |-> IF r.cambio.activo = Omitido THEN u.activo ELSE r.cambio.activo,
     version |-> SiguienteVersion(r.leido, r.cambio.activo, u.version)]

\* save() writes what changed of the account read: nothing if it was inactive.
Suspendido(u, r) ==
    IF r.leido.activo THEN [u EXCEPT !.activo = FALSE, !.version = r.leido.version + 1]
    ELSE u

Escrito(r) ==
    IF r.op = "update" THEN Actualizado(user[r.cuenta], r) ELSE Suspendido(user[r.cuenta], r)

\* findByIdAndUpdate or save of an account read before.
Escribir(p) ==
    /\ pet[p].pc = "escribir" /\ pet[p].op # "create"
    /\ LET r == pet[p] IN
        /\ Guardar(r.cuenta, Escrito(r))
        /\ rancias' = rancias \cup (IF r.leido = user[r.cuenta] THEN {} ELSE {r.cuenta})
        /\ conteoRancio' = (conteoRancio \/ (r.contados > 0 /\ r.contados # Contados(r.leido)))
    /\ Seguir(p, Libre)
    /\ UNCHANGED tenantActivo

\* save of a new account: the unique index on email decides.
CrearEscribe(p) ==
    /\ pet[p].pc = "escribir" /\ pet[p].op = "create"
    /\ LET r == pet[p] IN
        IF Existe(r.cuenta) THEN UNCHANGED <<user, sesiones, ingreso>>
        ELSE Guardar(r.cuenta, [rol |-> r.cambio.rol, tenant |-> r.destino,
                                activo |-> TRUE, version |-> 0])
    /\ Seguir(p, Libre)
    /\ UNCHANGED <<tenantActivo, rancias, conteoRancio>>

\* TenantsService.setActivo, by an admin_sistema
SetActivo(t) ==
    /\ AdminsActivos # {}
    /\ tenantActivo' = [tenantActivo EXCEPT ![t] = ~@]
    /\ UNCHANGED <<user, sesiones, ingreso, pet, rancias, conteoRancio>>

Next ==
    \/ \E i \in Ingresos, c \in Cuentas : LoginLee(i, c)
    \/ \E i \in Ingresos : LoginFirma(i)
    \/ \E s \in sesiones : Expirar(s)
    \/ \E p \in Peticiones, c \in Cuentas :
        \/ \E orden \in Ordenes : Autorizar(p, orden, c)
        \/ Registrar(p, c)
        \/ Restablecer(p, c)
    \/ \E p \in Peticiones :
        \/ Leer(p) \/ Contar(p) \/ CrearLee(p) \/ Resolver(p)
        \/ Escribir(p) \/ CrearEscribe(p)
    \/ \E t \in Tenants : SetActivo(t)

Spec == Init /\ [][Next]_vars

-----------------------------------------------------------------------------
(* Properties *)

\* A token issued before a suspension of its account is never accepted again,
\* not even after a reactivation (nextCredentialsVersionOnActivoChange), unless
\* a request wrote over a change of that account it had not seen.
SesionCortada ==
    \A s \in sesiones : s.cortada /\ Acepta(s) => s.cuenta \in rancias

\* assertNotRemovingLastActiveAdmin, as its comment says: with any account,
\* there is an active admin_sistema.
HayAdmin == (\E c \in Cuentas : Existe(c)) => AdminsActivos # {}

\* What the check gives under concurrency: the last one goes only by a write
\* over an account, or after a count, that had changed.
HayAdminSinCarrera == conteoRancio \/ rancias # {} \/ HayAdmin

\* A tenant loses its last active admin_tenant only that way too.
TenantConservaAdmin ==
    [][\A t \in Tenants :
        AdminsDeTenant(t) # {} /\ AdminsDeTenant(t)' = {} => (conteoRancio \/ rancias # {})']_vars

\* AD-11: an account has a tenant exactly when it is not admin_sistema, through
\* promotions, demotions and password resets that did not overlap.
RolYTenant ==
    \A c \in Cuentas \ rancias : Existe(c) => RolConTenant(user[c])
=============================================================================
