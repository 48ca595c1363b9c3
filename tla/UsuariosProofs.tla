--------------------------- MODULE UsuariosProofs ---------------------------
(* Theorems about Usuarios, for any accounts, tenants, requests and logins. *)
EXTENDS Usuarios, FiniteSetTheorems, TLAPS

(* The inductive invariant *)

\* What a request in progress keeps.
Locales ==
    [pc : {"leer", "contar", "resolver", "escribir"},
     op : {"create", "update", "softDelete"}, actor : Actor, cuenta : Cuentas,
     cambio : Cambio, leido : {NoExiste} \cup Usuario, contados : Nat,
     destino : Tenants \cup {SinTenant}]

Existentes == {d \in Cuentas : Existe(d)}

\* A request knows what its earlier round trips told it, E being the accounts
\* there are: DELETE has no body, a creation comes from an administrator or
\* makes the first one, the account read is there and is one the caller manages,
\* whoever removes an administrator counted another, and the tenant is the one
\* resolved and fits the role.
Pedido(r, E) ==
    /\ r.op = "softDelete" => r.cambio.rol = Omitido /\ r.cambio.activo = FALSE
    /\ r.op = "create" => r.cambio.rol = "admin_sistema" \/ E # {}

Leido(r, E) ==
    r.pc # "leer" => IF r.op = "create" THEN r.pc # "contar" /\ r.cambio.rol # Omitido
                     ELSE /\ r.leido \in Usuario /\ r.cuenta \in E
                          /\ PuedeGestionar(r.actor, r.leido)

Contado(r) ==
    r.op # "create" /\ r.pc \in {"resolver", "escribir"} /\ QuitaAdmin(r.leido, r.cambio)
        => r.contados > 1

Resuelto(r) ==
    r.op # "softDelete" /\ r.pc = "escribir"
        => /\ RolFinal(r) = "admin_sistema" <=> r.destino = SinTenant
           /\ r.destino = Destino(r)

Coherente(r, E) == r.pc # "libre" => Pedido(r, E) /\ Leido(r, E) /\ Contado(r) /\ Resuelto(r)

\* Version v, cut off or not, is no newer than that of u, and, if cut off, it is
\* older, or will be as soon as u, suspended before there were versions, is
\* active again.
Antigua(v, cortada, u) ==
    /\ v <= u.version
    /\ cortada => v < u.version \/ (~u.activo /\ u.version = 0)

SesionesAntiguas ==
    \A s \in sesiones :
        /\ Existe(s.cuenta)
        /\ s.cuenta \notin rancias => Antigua(s.version, s.cortada, user[s.cuenta])

IngresosAntiguos ==
    \A i \in Ingresos : ingreso[i].pc = "leido" =>
        /\ Existe(ingreso[i].cuenta)
        /\ ingreso[i].cuenta \notin rancias =>
            Antigua(ingreso[i].leido.version, ingreso[i].cortada, user[ingreso[i].cuenta])

Tipos == TypeOK /\ \A p \in Peticiones : Coherente(pet[p], Existentes)

IInv == Tipos /\ SesionesAntiguas /\ IngresosAntiguos /\ RolYTenant /\ HayAdminSinCarrera

-----------------------------------------------------------------------------
(* Accounts, before and after a write *)

LEMMA NoExisteNoEsUsuario == NoExiste \notin Usuario
BY DEF NoExiste, Usuario, Roles

\* The body of a request, field by field.
LEMMA CambioCampos ==
    ASSUME NEW r \in Locales
    PROVE  /\ r.cambio.rol \in Roles \cup {Omitido}
           /\ r.cambio.activo \in BOOLEAN \cup {Omitido}
BY DEF Locales, Cambio

\* A locals record is that of a request in progress.
LEMMA PeticionLocales ==
    ASSUME NEW r \in Peticion, r.pc # "libre"
    PROVE  r \in Locales
BY DEF Peticion, Locales, Libre

\* The version written is a version.
LEMMA VersionTipo ==
    ASSUME NEW l \in Usuario, NEW a, NEW n \in Nat
    PROVE  SiguienteVersion(l, a, n) \in Nat
BY DEF SiguienteVersion, Usuario

\* update and softDelete leave an account of the schema.
LEMMA EscritoTipo ==
    ASSUME NEW r \in Locales, r.leido \in Usuario, NEW u \in Usuario
    PROVE  Actualizado(u, r) \in Usuario /\ Suspendido(u, r) \in Usuario
<1>1. Actualizado(u, r) \in Usuario
    <2>1. (IF r.cambio.rol = Omitido THEN u.rol ELSE r.cambio.rol) \in Roles
        BY CambioCampos DEF Usuario
    <2>2. (IF r.cambio.activo = Omitido THEN u.activo ELSE r.cambio.activo) \in BOOLEAN
        BY CambioCampos, Zenon DEF Usuario
    <2>3. SiguienteVersion(r.leido, r.cambio.activo, u.version) \in Nat
        BY VersionTipo DEF Usuario
    <2>4. r.destino \in Tenants \cup {SinTenant}
        BY DEF Locales
    <2> QED
        BY <2>1, <2>2, <2>3, <2>4 DEF Actualizado, Usuario
<1>2. Suspendido(u, r) \in Usuario
    <2>1. r.leido.version + 1 \in Nat
        BY DEF Usuario
    <2>2. ASSUME NEW n \in Nat
          PROVE  [u EXCEPT !.activo = FALSE, !.version = n] \in Usuario
        BY DEF Usuario
    <2> QED
        BY <2>1, <2>2 DEF Suspendido
<1> QED
    BY <1>1, <1>2

\* Writing over the account that was read keeps every token no newer than the
\* account, and cuts off those that a suspension must.
LEMMA SigueAntigua ==
    ASSUME NEW r \in Locales, r.leido \in Usuario,
           r.op = "softDelete" => r.cambio.activo = FALSE,
           NEW v \in Nat, NEW cortada \in BOOLEAN,
           Antigua(v, cortada, r.leido),
           NEW w, w = Actualizado(r.leido, r) \/ (w = Suspendido(r.leido, r))
    PROVE  Antigua(v, cortada \/ (r.leido.activo /\ ~w.activo), w)
<1> DEFINE u == r.leido
           a == r.cambio.activo
<1>0. /\ u.version \in Nat /\ u.activo \in BOOLEAN
      /\ v <= u.version
      /\ cortada => v < u.version \/ (~u.activo /\ u.version = 0)
    BY DEF Antigua, Usuario
<1>1. CASE w = Actualizado(u, r)
    <2>1. /\ w.version = SiguienteVersion(u, a, u.version)
          /\ w.activo = IF a = Omitido THEN u.activo ELSE a
        BY <1>1 DEF Actualizado
    <2>2. CASE a = FALSE
        <3>1. w.activo = FALSE
            BY <2>1, <2>2, ConstantsAssumption
        <3>2. CASE u.activo
            <4>1. w.version = u.version + 1
                BY <2>1, <2>2, <3>2 DEF SiguienteVersion
            <4> QED
                BY <4>1, <1>0 DEF Antigua
        <3>3. CASE ~u.activo
            <4>1. w.version = u.version
                BY <2>1, <2>2, <3>3 DEF SiguienteVersion
            <4> QED
                BY <4>1, <3>1, <3>3, <1>0 DEF Antigua
        <3> QED
            BY <3>2, <3>3
    <2>3. CASE a = TRUE
        <3>1. w.activo = TRUE
            BY <2>1, <2>3, ConstantsAssumption
        <3>2. CASE ~u.activo /\ u.version = 0
            <4>1. w.version = 1
                BY <2>1, <2>3, <3>2 DEF SiguienteVersion
            <4> QED
                BY <4>1, <3>2, <1>0 DEF Antigua
        <3>3. CASE ~(~u.activo /\ u.version = 0)
            <4>1. w.version = u.version
                BY <2>1, <2>3, <3>3 DEF SiguienteVersion
            <4> QED
                BY <4>1, <3>1, <3>3, <1>0 DEF Antigua
        <3> QED
            BY <3>2, <3>3
    <2>4. CASE a = Omitido
        <3>1. w.activo = u.activo
            BY <2>1, <2>4
        <3>2. w.version = u.version
            BY <2>1, <2>4, ConstantsAssumption DEF SiguienteVersion
        <3> QED
            BY <3>1, <3>2, <1>0 DEF Antigua
    <2> QED
        BY <2>2, <2>3, <2>4, CambioCampos
<1>2. CASE w = Suspendido(u, r)
    <2>1. CASE u.activo
        <3>1. w.version = u.version + 1 /\ w.activo = FALSE
            BY <1>2, <2>1 DEF Suspendido, Usuario
        <3> QED
            BY <3>1, <1>0 DEF Antigua
    <2>2. CASE ~u.activo
        <3>1. w = u
            BY <1>2, <2>2 DEF Suspendido
        <3> QED
            BY <3>1, <2>2, <1>0 DEF Antigua
    <2> QED
        BY <2>1, <2>2
<1> QED
    BY <1>1, <1>2

\* A count is a number.
LEMMA ContadosTipo == ASSUME NEW u PROVE Contados(u) \in Nat
<1>1. IsFiniteSet(AdminsActivos) /\ IsFiniteSet(AdminsDeTenant(u.tenant))
    BY ConstantsAssumption, FS_Subset DEF AdminsActivos, AdminsDeTenant
<1> QED
    BY <1>1, FS_CardinalityType DEF Contados

\* Of two administrators or more, one is not c.
LEMMA QuedaOtro ==
    ASSUME NEW c, Cardinality(AdminsActivos) > 1
    PROVE  \E a \in AdminsActivos : a # c
<1>1. IsFiniteSet(AdminsActivos)
    BY ConstantsAssumption, FS_Subset DEF AdminsActivos
<1>2. CASE AdminsActivos = {}
    BY <1>2, FS_EmptySet
<1>3. CASE AdminsActivos = {c}
    BY <1>3, FS_Singleton
<1> QED
    BY <1>2, <1>3

-----------------------------------------------------------------------------
(* Requests and accounts, step by step *)

\* New accounts do not disturb a request.
LEMMA CoherenteCrece ==
    ASSUME NEW r, NEW E, NEW F, E \subseteq F, Coherente(r, E)
    PROVE  Coherente(r, F)
BY DEF Coherente, Pedido, Leido

\* Writing an account, and passing from one round trip to the next, stay typed.
LEMMA GuardarTipo ==
    ASSUME TypeOK, NEW c \in Cuentas, NEW u \in Usuario, Guardar(c, u)
    PROVE  /\ user' \in [Cuentas -> {NoExiste} \cup Usuario]
           /\ sesiones' \subseteq Sesion
           /\ ingreso' \in [Ingresos -> Ingreso]
<1>1. user' \in [Cuentas -> {NoExiste} \cup Usuario]
    BY DEF TypeOK, Guardar
<1>2. ASSUME NEW s \in Sesion, NEW b \in BOOLEAN
      PROVE  [s EXCEPT !.cortada = b] \in Sesion
    BY DEF Sesion
<1>3. sesiones' \subseteq Sesion
    <2>1. sesiones \subseteq Sesion
        BY DEF TypeOK
    <2>2. ASSUME NEW t \in sesiones' PROVE t \in Sesion
        <3>1. PICK s \in sesiones, b \in BOOLEAN : t = [s EXCEPT !.cortada = b]
            <4>1. PICK s \in sesiones :
                    t = [s EXCEPT !.cortada =
                            @ \/ ((user[c].activo /\ ~u.activo) /\ s.cuenta = c)]
                BY <2>2 DEF Guardar
            <4>2. s.cortada \/ ((user[c].activo /\ ~u.activo) /\ s.cuenta = c) \in BOOLEAN
                OBVIOUS
            <4> QED
                BY <4>1, <4>2
        <3> QED
            BY <3>1, <2>1, <1>2
    <2> QED
        BY <2>2
<1>4. ASSUME NEW i \in Ingresos PROVE ingreso'[i] \in Ingreso
    <2>1. ingreso[i] \in Ingreso
        BY DEF TypeOK
    <2>2. ingreso[i].pc = "leido" => [ingreso[i] EXCEPT !.cortada = TRUE] \in Ingreso
        BY <2>1 DEF Ingreso, Libre
    <2> QED
        BY <2>1, <2>2 DEF Guardar
<1>5. ingreso' = [i \in Ingresos |-> ingreso'[i]]
    BY DEF Guardar
<1> QED
    BY <1>1, <1>3, <1>4, <1>5

LEMMA SeguirTipo ==
    ASSUME TypeOK, NEW p \in Peticiones, NEW r \in Peticion, Seguir(p, r)
    PROVE  /\ pet' \in [Peticiones -> Peticion]
           /\ pet'[p] = r
           /\ \A q \in Peticiones \ {p} : pet'[q] = pet[q]
BY DEF TypeOK, Seguir

\* What a request that is about to write over an account has at hand.
LEMMA AlEscribir ==
    ASSUME Tipos, NEW p \in Peticiones, pet[p].pc = "escribir", pet[p].op # "create"
    PROVE  /\ pet[p] \in Locales /\ pet[p].cuenta \in Cuentas /\ pet[p].leido \in Usuario
           /\ user[pet[p].cuenta] \in Usuario
           /\ Escrito(pet[p]) \in Usuario
           /\ Contado(pet[p]) /\ Resuelto(pet[p])
           /\ \/ /\ pet[p].op = "update"
                 /\ Escrito(pet[p]) = Actualizado(user[pet[p].cuenta], pet[p])
              \/ /\ pet[p].op = "softDelete"
                 /\ pet[p].cambio.rol = Omitido /\ pet[p].cambio.activo = FALSE
                 /\ Escrito(pet[p]) = Suspendido(user[pet[p].cuenta], pet[p])
<1> DEFINE r == pet[p]
<1>1. r \in Locales
    BY PeticionLocales DEF Tipos, TypeOK
<1>2. r.cuenta \in Cuentas /\ r.op \in {"update", "softDelete"}
    BY <1>1 DEF Locales
<1>3. Pedido(r, Existentes) /\ Leido(r, Existentes) /\ Contado(r) /\ Resuelto(r)
    BY DEF Tipos, Coherente
<1>4. r.leido \in Usuario /\ user[r.cuenta] \in Usuario
    BY <1>3, <1>2 DEF Leido, Existentes, Existe, Tipos, TypeOK
<1>5. Actualizado(user[r.cuenta], r) \in Usuario /\ Suspendido(user[r.cuenta], r) \in Usuario
    BY <1>1, <1>4, EscritoTipo
<1> QED
    BY <1>1, <1>2, <1>3, <1>4, <1>5 DEF Escrito, Pedido

\* What a request that is about to save a new account has at hand.
LEMMA AlCrear ==
    ASSUME Tipos, NEW p \in Peticiones, pet[p].pc = "escribir", pet[p].op = "create",
           NEW u, u = [rol |-> pet[p].cambio.rol, tenant |-> pet[p].destino,
                       activo |-> TRUE, version |-> 0]
    PROVE  /\ pet[p].cuenta \in Cuentas /\ u \in Usuario /\ RolConTenant(u)
           /\ u.rol = "admin_sistema" \/ Existentes # {}
<1> DEFINE r == pet[p]
<1>1. r \in Locales
    BY PeticionLocales DEF Tipos, TypeOK
<1>2. Pedido(r, Existentes) /\ r.cambio.rol # Omitido /\ Resuelto(r)
    BY DEF Tipos, Coherente, Leido
<1>3. r.cambio.rol \in Roles
    BY <1>1, <1>2, CambioCampos
<1>4. r.cuenta \in Cuentas /\ r.destino \in Tenants \cup {SinTenant}
    BY <1>1 DEF Locales
<1>5. u \in Usuario
    BY <1>3, <1>4 DEF Usuario
<1> QED
    BY <1>2, <1>4, <1>5 DEF Pedido, Resuelto, RolFinal, RolConTenant

\* An account written over was there; a new one was not.
LEMMA PasoEscribir ==
    ASSUME Tipos, NEW p \in Peticiones, Escribir(p)
    PROVE  /\ user' = [user EXCEPT ![pet[p].cuenta] = Escrito(pet[p])]
           /\ Existentes' = Existentes
<1>1. user' = [user EXCEPT ![pet[p].cuenta] = Escrito(pet[p])]
    BY DEF Escribir, Guardar
<1>2. user[pet[p].cuenta] # NoExiste /\ Escrito(pet[p]) # NoExiste
    BY AlEscribir, NoExisteNoEsUsuario DEF Escribir
<1>3. user \in [Cuentas -> {NoExiste} \cup Usuario]
    BY DEF Tipos, TypeOK
<1> QED
    BY <1>1, <1>2, <1>3 DEF Existentes, Existe

LEMMA LibreCoherente == Libre \in Peticion /\ \A E : Coherente(Libre, E)
BY DEF Libre, Peticion, Coherente

\* A round trip that does not write.
LEMMA AvanzaTipos ==
    ASSUME Tipos, NEW p \in Peticiones, NEW r \in Peticion,
           Coherente(r, Existentes), Seguir(p, r),
           UNCHANGED <<user, tenantActivo, sesiones, ingreso, rancias, conteoRancio>>
    PROVE  Tipos' /\ Existentes' = Existentes
<1>1. TypeOK
    BY DEF Tipos
<1>2. Existentes' = Existentes
    BY DEF Existentes, Existe
<1>3. TypeOK'
    BY <1>1, SeguirTipo DEF TypeOK
<1>4. ASSUME NEW q \in Peticiones PROVE Coherente(pet'[q], Existentes)
    <2>1. CASE q = p
        BY <2>1, <1>1, SeguirTipo
    <2>2. CASE q # p
        BY <2>2, <1>1, SeguirTipo DEF Tipos
    <2> QED
        BY <2>1, <2>2
<1> QED
    BY <1>2, <1>3, <1>4 DEF Tipos

\* A request as it arrives.
LEMMA RecibidaTipo ==
    ASSUME NEW orden \in Orden, NEW actor \in Actor, NEW c \in Cuentas, NEW E,
           orden.op = "create" => orden.cambio.rol = "admin_sistema" \/ E # {}
    PROVE  Recibida(orden, actor, c) \in Peticion /\ Coherente(Recibida(orden, actor, c), E)
<1> DEFINE r == Recibida(orden, actor, c)
<1>1. /\ orden.op \in {"create", "update", "softDelete"}
      /\ orden.op = "softDelete" => orden.cambio.rol = Omitido /\ orden.cambio.activo = FALSE
    BY DEF Orden
<1>2. orden.cambio \in Cambio
    BY DEF Orden, Cambio
<1>3. r \in Peticion
    BY <1>1, <1>2 DEF Recibida, Peticion
<1>4. Coherente(r, E)
    BY <1>1 DEF Recibida, Coherente, Pedido, Leido, Contado, Resuelto
<1> QED
    BY <1>3, <1>4

LEMMA SinActorTipo ==
    /\ SinActor("create", "admin_sistema") \in Orden
    /\ SinActor("update", Omitido) \in Orden
    /\ SinActor("create", "admin_sistema").cambio.rol = "admin_sistema"
    /\ SinActor("update", Omitido).op # "create"
BY DEF SinActor, Orden, Cambio, Roles

LEMMA RecibeTipos ==
    ASSUME Tipos, NEW p \in Peticiones, NEW c \in Cuentas,
           \/ \E orden \in Ordenes : Autorizar(p, orden, c)
           \/ Registrar(p, c)
           \/ Restablecer(p, c)
    PROVE  Tipos' /\ Existentes' = Existentes
<1>1. ASSUME NEW orden \in Ordenes, Autorizar(p, orden, c)
      PROVE  Tipos' /\ Existentes' = Existentes
    <2>1. PICK a \in Cuentas, h \in Tenants \cup {SinTenant} :
            /\ Actua(a, h)
            /\ Seguir(p, Recibida(orden, [rol |-> user[a].rol, tenant |-> h], c))
        BY <1>1 DEF Autorizar
    <2>2. user[a].rol \in Gestores /\ Existe(a)
        BY <2>1 DEF Actua, Acepta, Vigente, Firmada
    <2>3. [rol |-> user[a].rol, tenant |-> h] \in Actor
        BY <2>2 DEF Actor
    <2>4. Existentes # {} /\ orden \in Orden
        BY <2>2, ConstantsAssumption DEF Existentes
    <2> QED
        BY <2>1, <2>3, <2>4, <1>1, RecibidaTipo, AvanzaTipos DEF Autorizar
<1>2. Interno \in Actor
    BY DEF Interno, Actor
<1>3. CASE Registrar(p, c)
    BY <1>2, <1>3, SinActorTipo, RecibidaTipo, AvanzaTipos DEF Registrar
<1>4. CASE Restablecer(p, c)
    BY <1>2, <1>4, SinActorTipo, RecibidaTipo, AvanzaTipos DEF Restablecer
<1> QED
    BY <1>1, <1>3, <1>4

\* The next round trip of a request.
LEMMA AvancePeticion ==
    ASSUME NEW r \in Locales
    PROVE  /\ \A x \in {"leer", "contar", "resolver", "escribir"} :
                [r EXCEPT !.pc = x] \in Peticion
           /\ \A x \in {"contar", "resolver", "escribir"}, u \in Usuario :
                [r EXCEPT !.leido = u, !.pc = x] \in Peticion
           /\ \A x \in {"resolver", "escribir"}, n \in Nat :
                [r EXCEPT !.contados = n, !.pc = x] \in Peticion
           /\ \A t \in Tenants \cup {SinTenant} :
                [r EXCEPT !.pc = "escribir", !.destino = t] \in Peticion
BY DEF Locales, Peticion

LEMMA LeerTipos ==
    ASSUME Tipos, NEW p \in Peticiones, Leer(p)
    PROVE  Tipos' /\ Existentes' = Existentes
<1> DEFINE r == pet[p]
           u == user[r.cuenta]
           x == IF QuitaAdmin(u, r.cambio) THEN "contar"
                ELSE IF r.op = "update" THEN "resolver" ELSE "escribir"
           n == [r EXCEPT !.leido = u, !.pc = x]
<1>1. r \in Locales /\ r.pc = "leer" /\ r.op # "create"
    BY PeticionLocales DEF Leer, Tipos, TypeOK
<1>2. CASE Seguir(p, Libre)
    BY <1>2, LibreCoherente, AvanzaTipos DEF Leer
<1>3. CASE Existe(r.cuenta) /\ PuedeGestionar(r.actor, u) /\ Seguir(p, n)
    <2>1. r.cuenta \in Existentes /\ u \in Usuario
        BY <1>1, <1>3 DEF Existe, Existentes, Tipos, TypeOK, Locales
    <2>2. n \in Peticion
        BY <1>1, <2>1, AvancePeticion
    <2>3. /\ n.pc = x /\ n.op = r.op /\ n.cambio = r.cambio /\ n.leido = u
          /\ n.cuenta = r.cuenta /\ n.actor = r.actor
        BY <1>1 DEF Locales
    <2>4. Pedido(r, Existentes)
        BY <1>1 DEF Tipos, Coherente
    <2>5. Pedido(n, Existentes)
        BY <2>3, <2>4 DEF Pedido
    <2>6. Leido(n, Existentes)
        BY <2>1, <2>3, <1>1, <1>3 DEF Leido
    <2>7. Contado(n)
        BY <2>3 DEF Contado
    <2>8. Resuelto(n)
        BY <2>3, <1>1 DEF Resuelto, Locales
    <2> HIDE DEF n
    <2> QED
        BY <2>2, <2>5, <2>6, <2>7, <2>8, <1>3, AvanzaTipos DEF Coherente, Leer
<1> QED
    BY <1>2, <1>3 DEF Leer

LEMMA ContarTipos ==
    ASSUME Tipos, NEW p \in Peticiones, Contar(p)
    PROVE  Tipos' /\ Existentes' = Existentes
<1> DEFINE r == pet[p]
           k == Contados(r.leido)
           x == IF r.op = "update" THEN "resolver" ELSE "escribir"
           n == [r EXCEPT !.contados = k, !.pc = x]
<1>1. r \in Locales /\ r.pc = "contar"
    BY PeticionLocales DEF Contar, Tipos, TypeOK
<1>2. CASE Seguir(p, Libre)
    BY <1>2, LibreCoherente, AvanzaTipos DEF Contar
<1>3. CASE k > 1 /\ Seguir(p, n)
    <2>1. n \in Peticion
        BY <1>1, ContadosTipo, AvancePeticion
    <2>2. /\ n.pc = x /\ n.op = r.op /\ n.cambio = r.cambio /\ n.leido = r.leido
          /\ n.cuenta = r.cuenta /\ n.contados = k /\ n.actor = r.actor
        BY <1>1 DEF Locales
    <2>3. Pedido(r, Existentes) /\ Leido(r, Existentes)
        BY <1>1 DEF Tipos, Coherente
    <2>4. Pedido(n, Existentes) /\ Leido(n, Existentes)
        BY <2>2, <2>3, <1>1 DEF Pedido, Leido
    <2>5. Contado(n)
        BY <2>2, <1>3 DEF Contado
    <2>6. Resuelto(n)
        BY <2>2, <2>3, <1>1 DEF Resuelto, Leido, Locales
    <2> HIDE DEF n
    <2> QED
        BY <2>1, <2>4, <2>5, <2>6, <1>3, AvanzaTipos DEF Coherente, Contar
<1>4. k \in Nat
    BY ContadosTipo
<1> QED
    BY <1>2, <1>3, <1>4 DEF Contar

LEMMA CrearLeeTipos ==
    ASSUME Tipos, NEW p \in Peticiones, CrearLee(p)
    PROVE  Tipos' /\ Existentes' = Existentes
<1> DEFINE r == pet[p]
           n == [r EXCEPT !.pc = "resolver"]
<1>1. r \in Locales /\ r.pc = "leer" /\ r.op = "create"
    BY PeticionLocales DEF CrearLee, Tipos, TypeOK
<1>2. CASE Seguir(p, Libre)
    BY <1>2, LibreCoherente, AvanzaTipos DEF CrearLee
<1>3. CASE r.cambio.rol # Omitido /\ Seguir(p, n)
    <2>1. n \in Peticion
        BY <1>1, AvancePeticion
    <2>2. n.pc = "resolver" /\ n.op = r.op /\ n.cambio = r.cambio
        BY <1>1 DEF Locales
    <2>3. Pedido(r, Existentes)
        BY <1>1 DEF Tipos, Coherente
    <2>4. Pedido(n, Existentes) /\ Leido(n, Existentes) /\ Contado(n) /\ Resuelto(n)
        BY <2>2, <2>3, <1>1, <1>3 DEF Pedido, Leido, Contado, Resuelto
    <2> HIDE DEF n
    <2> QED
        BY <2>1, <2>4, <1>3, AvanzaTipos DEF Coherente, CrearLee
<1> QED
    BY <1>2, <1>3 DEF CrearLee

LEMMA ResolverTipos ==
    ASSUME Tipos, NEW p \in Peticiones, Resolver(p)
    PROVE  Tipos' /\ Existentes' = Existentes
<1> DEFINE r == pet[p]
           t == Destino(r)
           n == [r EXCEPT !.pc = "escribir", !.destino = t]
<1>1. r \in Locales /\ r.pc = "resolver"
    BY PeticionLocales DEF Resolver, Tipos, TypeOK
<1>2. CASE Seguir(p, Libre)
    BY <1>2, LibreCoherente, AvanzaTipos DEF Resolver
<1>3. CASE Asignable(r) /\ Seguir(p, n)
    <2>1. /\ t \in Tenants \cup {SinTenant}
          /\ RolFinal(r) = "admin_sistema" <=> t = SinTenant
        <3>1. TenantPedido(r) \in Tenants \cup {SinTenant}
            BY <1>1 DEF TenantPedido, Locales, Actor, Usuario, NoExiste
        <3> QED
            BY <3>1, <1>3 DEF Destino, Asignable
    <2>2. n \in Peticion
        BY <1>1, <2>1, AvancePeticion
    <2>3. /\ n.pc = "escribir" /\ n.op = r.op /\ n.cambio = r.cambio /\ n.leido = r.leido
          /\ n.cuenta = r.cuenta /\ n.contados = r.contados /\ n.destino = t
          /\ n.actor = r.actor
        BY <1>1 DEF Locales
    <2>4. Pedido(r, Existentes) /\ Leido(r, Existentes) /\ Contado(r)
        BY <1>1 DEF Tipos, Coherente
    <2>5. Pedido(n, Existentes) /\ Leido(n, Existentes) /\ Contado(n)
        BY <2>3, <2>4, <1>1 DEF Pedido, Leido, Contado
    <2>6. Resuelto(n)
        BY <2>1, <2>3 DEF Resuelto, RolFinal, Destino, TenantPedido
    <2> HIDE DEF n
    <2> QED
        BY <2>2, <2>5, <2>6, <1>3, AvanzaTipos DEF Coherente, Resolver
<1> QED
    BY <1>2, <1>3 DEF Resolver

LEMMA EscribirTipos ==
    ASSUME Tipos, NEW p \in Peticiones, Escribir(p)
    PROVE  Tipos'
<1> DEFINE r == pet[p]
<1>1. /\ r.cuenta \in Cuentas /\ Escrito(r) \in Usuario
      /\ Guardar(r.cuenta, Escrito(r)) /\ Seguir(p, Libre) /\ UNCHANGED tenantActivo
    BY AlEscribir DEF Escribir
<1>2. rancias' \subseteq Cuentas
    BY <1>1 DEF Escribir, Tipos, TypeOK
<1>3. conteoRancio' \in BOOLEAN
    BY Zenon DEF Escribir, Tipos, TypeOK
<1>4. TypeOK'
    BY <1>1, <1>2, <1>3, GuardarTipo, SeguirTipo, LibreCoherente DEF Tipos, TypeOK
<1>5. ASSUME NEW q \in Peticiones PROVE Coherente(pet'[q], Existentes')
    BY <1>1, PasoEscribir, SeguirTipo, LibreCoherente DEF Tipos
<1> QED
    BY <1>4, <1>5 DEF Tipos

LEMMA CrearTipos ==
    ASSUME Tipos, NEW p \in Peticiones, CrearEscribe(p)
    PROVE  Tipos' /\ Existentes \subseteq Existentes'
<1> DEFINE r == pet[p]
           u == [rol |-> r.cambio.rol, tenant |-> r.destino, activo |-> TRUE, version |-> 0]
<1>1. r.cuenta \in Cuentas /\ u \in Usuario
    BY AlCrear DEF CrearEscribe
<1>2. /\ user' \in [Cuentas -> {NoExiste} \cup Usuario]
      /\ sesiones' \subseteq Sesion
      /\ ingreso' \in [Ingresos -> Ingreso]
      /\ Existentes \subseteq Existentes'
    <2>1. CASE UNCHANGED <<user, sesiones, ingreso>>
        BY <2>1 DEF Tipos, TypeOK, Existentes, Existe
    <2>2. CASE Guardar(r.cuenta, u)
        <3>1. user' = [user EXCEPT ![r.cuenta] = u]
            BY <2>2 DEF Guardar
        <3>2. u # NoExiste
            BY <1>1, NoExisteNoEsUsuario
        <3>3. Existentes \subseteq Existentes'
            BY <3>1, <3>2 DEF Existentes, Existe, Tipos, TypeOK
        <3> HIDE DEF u
        <3> QED
            BY <1>1, <2>2, <3>3, GuardarTipo DEF Tipos
    <2> QED
        BY <2>1, <2>2 DEF CrearEscribe
<1>3. Seguir(p, Libre) /\ UNCHANGED <<tenantActivo, rancias, conteoRancio>>
    BY DEF CrearEscribe
<1>4. TypeOK'
    BY <1>2, <1>3, SeguirTipo, LibreCoherente DEF Tipos, TypeOK
<1>5. ASSUME NEW q \in Peticiones PROVE Coherente(pet'[q], Existentes')
    <2>1. CASE q = p
        BY <2>1, <1>3, SeguirTipo, LibreCoherente DEF Tipos
    <2>2. CASE q # p
        <3>1. pet'[q] = pet[q] /\ Coherente(pet[q], Existentes)
            BY <2>2, <1>3, SeguirTipo, LibreCoherente DEF Tipos
        <3> QED
            BY <3>1, <1>2, CoherenteCrece
    <2> QED
        BY <2>1, <2>2
<1> QED
    BY <1>2, <1>4, <1>5 DEF Tipos

\* The steps that are not of a request.
Ajeno ==
    \/ \E i \in Ingresos, c \in Cuentas : LoginLee(i, c)
    \/ \E i \in Ingresos : LoginFirma(i)
    \/ \E s \in sesiones : Expirar(s)
    \/ \E t \in Tenants : SetActivo(t)
    \/ UNCHANGED vars

LEMMA FirmadaTipo ==
    ASSUME NEW c \in Cuentas, NEW u \in Usuario, NEW b \in BOOLEAN
    PROVE  Firmada(c, u, b) \in Sesion
BY DEF Firmada, Sesion, Usuario

LEMMA IngresoLocales ==
    ASSUME NEW g \in Ingreso, g.pc = "leido"
    PROVE  g.cuenta \in Cuentas /\ g.leido \in Usuario /\ g.cortada \in BOOLEAN
BY DEF Ingreso, Libre

LEMMA AjenoTipos ==
    ASSUME Tipos, Ajeno
    PROVE  Tipos' /\ UNCHANGED <<user, pet, rancias, conteoRancio>>
<1>1. UNCHANGED <<user, pet, rancias, conteoRancio>>
    BY DEF Ajeno, LoginLee, LoginFirma, Expirar, SetActivo, vars
<1>2. TypeOK
    BY DEF Tipos
<1>3. sesiones' \subseteq Sesion /\ ingreso' \in [Ingresos -> Ingreso]
    <2>1. CASE \E i \in Ingresos, c \in Cuentas : LoginLee(i, c)
        <3>1. PICK i \in Ingresos, c \in Cuentas : LoginLee(i, c)
            BY <2>1
        <3>2. user[c] \in Usuario
            BY <3>1, <1>2 DEF LoginLee, Existe, TypeOK
        <3>3. [pc |-> "leido", cuenta |-> c, leido |-> user[c], cortada |-> FALSE] \in Ingreso
            BY <3>2 DEF Ingreso
        <3> QED
            BY <3>1, <3>3, <1>2 DEF LoginLee, TypeOK
    <2>2. CASE \E i \in Ingresos : LoginFirma(i)
        <3>1. PICK i \in Ingresos : LoginFirma(i)
            BY <2>2
        <3>2. ingreso[i].cuenta \in Cuentas /\ ingreso[i].leido \in Usuario
              /\ ingreso[i].cortada \in BOOLEAN
            BY <3>1, <1>2, IngresoLocales DEF LoginFirma, TypeOK
        <3>3. Firmada(ingreso[i].cuenta, ingreso[i].leido, ingreso[i].cortada) \in Sesion
            BY <3>2, FirmadaTipo
        <3>4. Libre \in Ingreso
            BY DEF Ingreso
        <3> QED
            BY <3>1, <3>3, <3>4, <1>2 DEF LoginFirma, TypeOK
    <2>3. CASE \E s \in sesiones : Expirar(s)
        BY <2>3, <1>2 DEF Expirar, TypeOK
    <2>4. CASE (\E t \in Tenants : SetActivo(t)) \/ UNCHANGED vars
        BY <2>4, <1>2 DEF SetActivo, TypeOK, vars
    <2> QED
        BY <2>1, <2>2, <2>3, <2>4 DEF Ajeno
<1>4. tenantActivo' \in [Tenants -> BOOLEAN]
    BY <1>2 DEF Ajeno, LoginLee, LoginFirma, Expirar, SetActivo, vars, TypeOK
<1>5. TypeOK'
    BY <1>1, <1>2, <1>3, <1>4 DEF TypeOK
<1> QED
    BY <1>1, <1>5 DEF Tipos, Existentes, Existe

\* The four kinds of steps: writing over an account, saving a new one, another
\* round trip of a request, and the steps that are not of a request.
LEMMA Pasos ==
    ASSUME Tipos, [Next]_vars
    PROVE  \/ \E p \in Peticiones : Escribir(p)
           \/ \E p \in Peticiones : CrearEscribe(p)
           \/ /\ Tipos' /\ Existentes' = Existentes
              /\ UNCHANGED <<user, sesiones, ingreso, rancias, conteoRancio>>
           \/ Ajeno
<1>1. CASE \E p \in Peticiones, c \in Cuentas :
            (\E orden \in Ordenes : Autorizar(p, orden, c)) \/ Registrar(p, c) \/ Restablecer(p, c)
    <2>1. PICK p \in Peticiones, c \in Cuentas :
            (\E orden \in Ordenes : Autorizar(p, orden, c)) \/ Registrar(p, c) \/ Restablecer(p, c)
        BY <1>1
    <2>2. UNCHANGED <<user, sesiones, ingreso, rancias, conteoRancio>>
        BY <2>1 DEF Autorizar, Registrar, Restablecer
    <2> QED
        BY <2>1, <2>2, RecibeTipos
<1>2. CASE \E p \in Peticiones : Leer(p) \/ Contar(p) \/ CrearLee(p) \/ Resolver(p)
    <2>1. PICK p \in Peticiones : Leer(p) \/ Contar(p) \/ CrearLee(p) \/ Resolver(p)
        BY <1>2
    <2>2. UNCHANGED <<user, sesiones, ingreso, rancias, conteoRancio>>
        BY <2>1 DEF Leer, Contar, CrearLee, Resolver
    <2> QED
        BY <2>1, <2>2, LeerTipos, ContarTipos, CrearLeeTipos, ResolverTipos
<1> QED
    BY <1>1, <1>2 DEF Next, Ajeno

LEMMA NextTipos ==
    ASSUME Tipos, [Next]_vars
    PROVE  Tipos' /\ Existentes \subseteq Existentes'
<1>1. Ajeno => Tipos' /\ Existentes' = Existentes
    BY AjenoTipos DEF Existentes, Existe
<1> QED
    BY <1>1, Pasos, EscribirTipos, PasoEscribir, CrearTipos

LEMMA InitTipos == Init => Tipos
<1> SUFFICES ASSUME Init PROVE Tipos
    OBVIOUS
<1>1. user \in [Cuentas -> {NoExiste} \cup Usuario]
    BY InicialesAssumption DEF Init
<1>2. sesiones \subseteq Sesion
    <2>1. PICK C \in SUBSET {c \in Cuentas : Existe(c)} :
            sesiones = {Firmada(c, user[c], ~user[c].activo) : c \in C}
        BY DEF Init
    <2>2. ASSUME NEW c \in C PROVE Firmada(c, user[c], ~user[c].activo) \in Sesion
        <3>1. c \in Cuentas /\ user[c] \in Usuario /\ (~user[c].activo) \in BOOLEAN
            BY <1>1 DEF Existe
        <3> QED
            BY <3>1, FirmadaTipo
    <2> QED
        BY <2>1, <2>2
<1>3. \A p \in Peticiones : pet[p] = Libre
    BY DEF Init
<1>4. TypeOK
    BY <1>1, <1>2, LibreCoherente DEF Init, TypeOK, Ingreso
<1> QED
    BY <1>3, <1>4, LibreCoherente DEF Tipos

-----------------------------------------------------------------------------
(* Tokens *)

\* Both kinds of token holders go through a write the same way.
LEMMA EscribirAntigua ==
    ASSUME Tipos, NEW p \in Peticiones, Escribir(p),
           NEW d \in Cuentas, NEW v \in Nat, NEW cortada \in BOOLEAN,
           d \notin rancias => Antigua(v, cortada, user[d])
    PROVE  d \notin rancias' =>
            Antigua(v, cortada \/ (/\ user[pet[p].cuenta].activo /\ ~Escrito(pet[p]).activo
                                  /\ d = pet[p].cuenta), user'[d])
<1> DEFINE r == pet[p]
<1>1. user' = [user EXCEPT ![r.cuenta] = Escrito(r)]
    BY PasoEscribir
<1>2. user \in [Cuentas -> {NoExiste} \cup Usuario]
    BY DEF Tipos, TypeOK
<1>3. CASE d = r.cuenta
    <2>1. SUFFICES ASSUME d \notin rancias'
                   PROVE  Antigua(v, cortada \/ (user[d].activo /\ ~user'[d].activo), user'[d])
        BY <1>1, <1>2, <1>3
    <2>2. r.leido = user[d] /\ d \notin rancias
        BY <2>1, <1>3 DEF Escribir
    <2>3. user'[d] = Actualizado(r.leido, r)
            \/ (user'[d] = Suspendido(r.leido, r) /\ r.cambio.activo = FALSE)
        BY <1>1, <1>2, <1>3, <2>2, AlEscribir DEF Escribir
    <2>4. /\ r \in Locales /\ r.leido \in Usuario
          /\ r.op = "softDelete" => r.cambio.activo = FALSE
        BY AlEscribir DEF Escribir
    <2> QED
        BY <2>2, <2>3, <2>4, SigueAntigua
<1>4. CASE d # r.cuenta
    BY <1>1, <1>2, <1>4 DEF Escribir
<1> QED
    BY <1>3, <1>4

LEMMA TokensNext ==
    ASSUME Tipos, [Next]_vars, SesionesAntiguas, IngresosAntiguos
    PROVE  SesionesAntiguas' /\ IngresosAntiguos'
<1>1. Existentes \subseteq Existentes' /\ Tipos'
    BY NextTipos
<1>2. /\ \A s \in sesiones : s \in Sesion
      /\ \A i \in Ingresos : ingreso[i] \in Ingreso
      /\ user \in [Cuentas -> {NoExiste} \cup Usuario]
    BY DEF Tipos, TypeOK
<1>3. CASE \E p \in Peticiones : Escribir(p)
    <2>1. PICK p \in Peticiones : Escribir(p)
        BY <1>3
    <2> DEFINE c == pet[p].cuenta
               w == Escrito(pet[p])
               suspende == user[c].activo /\ ~w.activo
    <2>2. /\ sesiones' = {[s EXCEPT !.cortada = @ \/ (suspende /\ s.cuenta = c)] : s \in sesiones}
          /\ ingreso' = [i \in Ingresos |->
                    IF suspende /\ ingreso[i].pc = "leido" /\ ingreso[i].cuenta = c
                    THEN [ingreso[i] EXCEPT !.cortada = TRUE] ELSE ingreso[i]]
        BY <2>1 DEF Escribir, Guardar
    <2>3. ASSUME NEW t \in sesiones'
          PROVE  /\ t.cuenta \in Existentes'
                 /\ t.cuenta \notin rancias' => Antigua(t.version, t.cortada, user'[t.cuenta])
        <3>1. PICK s \in sesiones : t = [s EXCEPT !.cortada = @ \/ (suspende /\ s.cuenta = c)]
            BY <2>2
        <3>2. /\ s.cuenta \in Cuentas /\ s.version \in Nat /\ s.cortada \in BOOLEAN
              /\ t.cuenta = s.cuenta /\ t.version = s.version
              /\ t.cortada = (s.cortada \/ (suspende /\ s.cuenta = c))
            BY <3>1, <1>2 DEF Sesion
        <3>3. s.cuenta \in Existentes
            BY <3>2 DEF SesionesAntiguas, Existentes
        <3>4. s.cuenta \notin rancias => Antigua(s.version, s.cortada, user[s.cuenta])
            BY DEF SesionesAntiguas
        <3>5. s.cuenta \notin rancias' =>
                Antigua(s.version, s.cortada \/ (user[c].activo /\ ~w.activo /\ s.cuenta = c),
                        user'[s.cuenta])
            BY <2>1, <3>2, <3>4, EscribirAntigua
        <3> HIDE DEF c, w
        <3> QED
            BY <1>1, <3>2, <3>3, <3>5
    <2>4. ASSUME NEW i \in Ingresos, ingreso'[i].pc = "leido"
          PROVE  /\ ingreso'[i].cuenta \in Existentes'
                 /\ ingreso'[i].cuenta \notin rancias' =>
                    Antigua(ingreso'[i].leido.version, ingreso'[i].cortada,
                            user'[ingreso'[i].cuenta])
        <3> DEFINE g == ingreso[i]
                   h == ingreso'[i]
        <3>1. g \in Ingreso
            BY <1>2
        <3>2. g.pc = "leido"
            BY <2>2, <2>4, <3>1 DEF Ingreso
        <3>3. /\ g.cuenta \in Cuentas /\ g.leido.version \in Nat /\ g.cortada \in BOOLEAN
              /\ g \in [pc : {"leido"}, cuenta : Cuentas, leido : Usuario, cortada : BOOLEAN]
            BY <3>1, <3>2 DEF Ingreso, Usuario, Libre
        <3>4. h = IF suspende /\ g.cuenta = c THEN [g EXCEPT !.cortada = TRUE] ELSE g
            BY <2>2, <3>2
        <3>5. /\ h.cuenta = g.cuenta /\ h.leido = g.leido
              /\ h.cortada = (g.cortada \/ (suspende /\ g.cuenta = c))
            BY <3>3, <3>4
        <3>6. g.cuenta \in Existentes
            BY <3>2, <3>3 DEF IngresosAntiguos, Existentes
        <3>7. g.cuenta \notin rancias => Antigua(g.leido.version, g.cortada, user[g.cuenta])
            BY <3>2 DEF IngresosAntiguos
        <3>8. g.cuenta \notin rancias' =>
                Antigua(g.leido.version, g.cortada \/ (user[c].activo /\ ~w.activo /\ g.cuenta = c),
                        user'[g.cuenta])
            BY <2>1, <3>3, <3>7, EscribirAntigua
        <3> HIDE DEF c, w, g, h
        <3>9. /\ h.cuenta \in Existentes'
              /\ h.cuenta \notin rancias' => Antigua(h.leido.version, h.cortada, user'[h.cuenta])
            BY <1>1, <3>5, <3>6, <3>8
        <3> QED
            BY <3>9 DEF h
    <2> QED
        BY <2>3, <2>4 DEF SesionesAntiguas, IngresosAntiguos, Existentes, Existe
<1>4. CASE \E p \in Peticiones : CrearEscribe(p)
    <2>1. PICK p \in Peticiones : CrearEscribe(p)
        BY <1>4
    <2> DEFINE c == pet[p].cuenta
    <2>2. CASE UNCHANGED <<user, sesiones, ingreso>>
        BY <2>1, <2>2 DEF CrearEscribe, SesionesAntiguas, IngresosAntiguos, Existe
    <2>3. CASE ~Existe(c)
        <3>1. c \in Cuentas /\ user[c].activo = FALSE
            BY <2>1, <2>3, AlCrear DEF CrearEscribe, Existe, NoExiste
        <3>2. PICK u : Guardar(c, u)
            BY <2>1, <2>3 DEF CrearEscribe
        <3>3. \A s \in sesiones : [s EXCEPT !.cortada = s.cortada] = s
            BY <1>2 DEF Sesion
        <3>4. \A s \in sesiones :
                [s EXCEPT !.cortada = @ \/ ((user[c].activo /\ ~u.activo) /\ s.cuenta = c)] = s
            <4>1. ASSUME NEW s \in sesiones
                  PROVE  (s.cortada \/ ((user[c].activo /\ ~u.activo) /\ s.cuenta = c)) = s.cortada
                <5>1. s.cortada \in BOOLEAN
                    BY <1>2 DEF Sesion
                <5> QED
                    BY <5>1, <3>1
            <4> QED
                BY <4>1, <3>3
        <3>5. sesiones' = sesiones
            <4>1. sesiones' = {[s EXCEPT !.cortada =
                    @ \/ ((user[c].activo /\ ~u.activo) /\ s.cuenta = c)] : s \in sesiones}
                BY <3>2 DEF Guardar
            <4> QED
                BY <4>1, <3>4
        <3>6. \A i \in Ingresos : ingreso'[i] = ingreso[i]
            BY <3>1, <3>2 DEF Guardar
        <3>7. \A d \in Cuentas \ {c} : user'[d] = user[d]
            BY <1>2, <3>2 DEF Guardar
        <3>8. UNCHANGED rancias
            BY <2>1 DEF CrearEscribe
        <3>9. /\ \A s \in sesiones : s.cuenta \in Cuentas \ {c}
              /\ \A i \in Ingresos : ingreso[i].pc = "leido" => ingreso[i].cuenta \in Cuentas \ {c}
            BY <1>2, <2>3, IngresoLocales DEF SesionesAntiguas, IngresosAntiguos, Sesion
        <3> QED
            BY <3>5, <3>6, <3>7, <3>8, <3>9 DEF SesionesAntiguas, IngresosAntiguos, Existe
    <2> QED
        BY <2>1, <2>2, <2>3 DEF CrearEscribe
<1>5. CASE UNCHANGED <<user, sesiones, ingreso, rancias>>
    BY <1>5 DEF SesionesAntiguas, IngresosAntiguos, Existe
<1>6. CASE Ajeno
    <2>0. UNCHANGED <<user, rancias>>
        BY <1>6, AjenoTipos
    <2>1. CASE \E i \in Ingresos, c \in Cuentas : LoginLee(i, c)
        <3>1. PICK i \in Ingresos, c \in Cuentas : LoginLee(i, c)
            BY <2>1
        <3>2. user[c].version \in Nat /\ Existe(c)
            BY <1>2, <3>1 DEF LoginLee, Existe, Usuario
        <3>3. Antigua(user[c].version, FALSE, user[c])
            BY <3>2 DEF Antigua
        <3>4. /\ ingreso'[i].cuenta = c /\ ingreso'[i].leido = user[c]
              /\ ingreso'[i].cortada = FALSE
              /\ \A j \in Ingresos \ {i} : ingreso'[j] = ingreso[j]
            BY <3>1 DEF LoginLee, Tipos, TypeOK
        <3>5. ASSUME NEW j \in Ingresos, ingreso'[j].pc = "leido"
              PROVE  /\ user'[ingreso'[j].cuenta] # NoExiste
                     /\ ingreso'[j].cuenta \notin rancias' =>
                        Antigua(ingreso'[j].leido.version, ingreso'[j].cortada,
                                user'[ingreso'[j].cuenta])
            <4>1. CASE j = i
                BY <2>0, <3>2, <3>3, <3>4, <4>1 DEF Existe
            <4>2. CASE j # i
                BY <2>0, <3>4, <3>5, <4>2 DEF IngresosAntiguos, Existe
            <4> QED
                BY <4>1, <4>2
        <3>6. sesiones' = sesiones
            BY <3>1 DEF LoginLee
        <3> QED
            BY <2>0, <3>5, <3>6 DEF SesionesAntiguas, IngresosAntiguos, Existe
    <2>2. CASE \E i \in Ingresos : LoginFirma(i)
        <3>1. PICK i \in Ingresos : LoginFirma(i)
            BY <2>2
        <3> DEFINE g == ingreso[i]
                   t == Firmada(g.cuenta, g.leido, g.cortada)
        <3>2. t.cuenta = g.cuenta /\ t.version = g.leido.version /\ t.cortada = g.cortada
            BY DEF Firmada
        <3>3. g.pc = "leido" /\ sesiones' \subseteq sesiones \cup {t}
            BY <3>1 DEF LoginFirma
        <3>4. Existe(t.cuenta)
              /\ (t.cuenta \notin rancias => Antigua(t.version, t.cortada, user[t.cuenta]))
            BY <3>2, <3>3 DEF IngresosAntiguos
        <3>5. \A j \in Ingresos : ingreso'[j].pc = "leido" => ingreso'[j] = ingreso[j]
            BY <3>1 DEF LoginFirma, Tipos, TypeOK, Libre
        <3> HIDE DEF g, t
        <3> QED
            BY <2>0, <3>3, <3>4, <3>5 DEF SesionesAntiguas, IngresosAntiguos, Existe
    <2>3. CASE sesiones' \subseteq sesiones /\ UNCHANGED ingreso
        BY <2>0, <2>3 DEF SesionesAntiguas, IngresosAntiguos, Existe
    <2> QED
        BY <1>6, <2>1, <2>2, <2>3 DEF Ajeno, Expirar, SetActivo, vars
<1> QED
    BY <1>3, <1>4, <1>5, <1>6, Pasos

-----------------------------------------------------------------------------
(* Roles and administrators *)

\* What a new account leaves as it was.
LEMMA PasoCrear ==
    ASSUME Tipos, NEW p \in Peticiones, CrearEscribe(p)
    PROVE  /\ UNCHANGED <<rancias, conteoRancio>>
           /\ \/ UNCHANGED user
              \/ \E c \in Cuentas, u \in Usuario :
                    /\ ~Existe(c) /\ user' = [user EXCEPT ![c] = u]
                    /\ RolConTenant(u) /\ u.activo = TRUE
                    /\ u.rol = "admin_sistema" \/ Existentes # {}
<1> DEFINE u == [rol |-> pet[p].cambio.rol, tenant |-> pet[p].destino,
                 activo |-> TRUE, version |-> 0]
<1>1. /\ pet[p].cuenta \in Cuentas /\ u \in Usuario /\ RolConTenant(u)
      /\ u.rol = "admin_sistema" \/ Existentes # {}
    BY AlCrear DEF CrearEscribe
<1>2. u.activo = TRUE
    OBVIOUS
<1>3. \/ UNCHANGED user
      \/ ~Existe(pet[p].cuenta) /\ user' = [user EXCEPT ![pet[p].cuenta] = u]
    BY DEF CrearEscribe, Guardar
<1>4. UNCHANGED <<rancias, conteoRancio>>
    BY DEF CrearEscribe
<1> HIDE DEF u
<1> QED
    BY <1>1, <1>2, <1>3, <1>4

LEMMA RolesNext ==
    ASSUME Tipos, [Next]_vars, RolYTenant
    PROVE  RolYTenant'
<1>1. user \in [Cuentas -> {NoExiste} \cup Usuario]
    BY DEF Tipos, TypeOK
<1>2. CASE \E p \in Peticiones : Escribir(p)
    <2>1. PICK p \in Peticiones : Escribir(p)
        BY <1>2
    <2> DEFINE r == pet[p]
    <2>2. user' = [user EXCEPT ![r.cuenta] = Escrito(r)] /\ rancias \subseteq rancias'
        BY <2>1, PasoEscribir DEF Escribir
    <2>3. ASSUME NEW c \in Cuentas, c \notin rancias', c = r.cuenta
          PROVE  RolConTenant(user'[c])
        <3>1. r.leido = user[c] /\ user[c] # NoExiste /\ c \notin rancias
            BY <2>1, <2>3, AlEscribir, NoExisteNoEsUsuario DEF Escribir
        <3>2. RolConTenant(r.leido)
            BY <3>1 DEF RolYTenant, Existe
        <3>3. user'[c] = Escrito(r) /\ Resuelto(r) /\ r.leido \in Usuario
            BY <1>1, <2>1, <2>2, <2>3, AlEscribir DEF Escribir
        <3>4. CASE r.op = "update" /\ Escrito(r) = Actualizado(r.leido, r)
            <4>1. user'[c].rol = RolFinal(r) /\ user'[c].tenant = r.destino
                BY <3>3, <3>4 DEF Actualizado, RolFinal
            <4> QED
                BY <4>1, <3>3, <3>4, <2>1 DEF Resuelto, RolConTenant, Escribir
        <3>5. CASE Escrito(r) = Suspendido(r.leido, r)
            <4>1. user'[c].rol = r.leido.rol /\ user'[c].tenant = r.leido.tenant
                BY <3>3, <3>5 DEF Suspendido, Usuario
            <4> QED
                BY <4>1, <3>2 DEF RolConTenant
        <3> QED
            BY <2>1, <2>3, <3>1, <3>4, <3>5, AlEscribir DEF Escribir
    <2>4. \A c \in Cuentas : c # r.cuenta => user'[c] = user[c]
        BY <1>1, <2>2
    <2> QED
        BY <2>2, <2>3, <2>4 DEF RolYTenant, Existe
<1>3. CASE \E p \in Peticiones : CrearEscribe(p)
    BY <1>1, <1>3, PasoCrear DEF RolYTenant, Existe
<1>4. CASE UNCHANGED <<user, rancias>>
    BY <1>4 DEF RolYTenant, Existe
<1> QED
    BY <1>2, <1>3, <1>4, Pasos, AjenoTipos

LEMMA AdminsNext ==
    ASSUME Tipos, [Next]_vars, HayAdminSinCarrera
    PROVE  HayAdminSinCarrera'
<1>1. user \in [Cuentas -> {NoExiste} \cup Usuario]
    BY DEF Tipos, TypeOK
<1>2. CASE \E p \in Peticiones : Escribir(p)
    <2>1. PICK p \in Peticiones : Escribir(p)
        BY <1>2
    <2> DEFINE r == pet[p]
               c == pet[p].cuenta
    <2>2. SUFFICES ASSUME ~conteoRancio', rancias' = {}
                   PROVE  \E a \in Cuentas : user'[a].rol = "admin_sistema" /\ user'[a].activo
        BY DEF HayAdminSinCarrera, HayAdmin, AdminsActivos
    <2>3. /\ ~conteoRancio /\ rancias = {} /\ r.leido = user[c]
          /\ r.contados > 0 => r.contados = Contados(r.leido)
        BY <2>1, <2>2 DEF Escribir
    <2>4. /\ user' = [user EXCEPT ![c] = Escrito(r)]
          /\ c \in Cuentas /\ r.leido \in Usuario /\ r \in Locales /\ Contado(r)
        BY <2>1, PasoEscribir, AlEscribir DEF Escribir
    <2>5. Existe(c)
        BY <2>3, <2>4, NoExisteNoEsUsuario DEF Existe
    <2>6. PICK a \in Cuentas : user[a].rol = "admin_sistema" /\ user[a].activo
        BY <2>3, <2>4, <2>5 DEF HayAdminSinCarrera, HayAdmin, AdminsActivos
    <2>7. CASE a # c
        BY <1>1, <2>4, <2>6, <2>7
    <2>8. CASE a = c /\ QuitaAdmin(r.leido, r.cambio)
        <3>1. r.contados > 1
            BY <2>1, <2>4, <2>8 DEF Contado, Escribir
        <3>2. Cardinality(AdminsActivos) > 1
            <4>1. r.contados = Contados(r.leido)
                BY <2>3, <2>4, <3>1 DEF Locales
            <4>2. Contados(r.leido) = Cardinality(AdminsActivos)
                BY <2>3, <2>6, <2>8 DEF Contados
            <4> QED
                BY <4>1, <4>2, <3>1
        <3>3. PICK b \in AdminsActivos : b # c
            BY <3>2, QuedaOtro
        <3> QED
            BY <1>1, <2>4, <3>3 DEF AdminsActivos
    <2>9. CASE a = c /\ ~QuitaAdmin(r.leido, r.cambio)
        <3>1. /\ r.leido.rol = "admin_sistema" /\ r.leido.activo
              /\ r.cambio.rol \in {Omitido, "admin_sistema"} /\ r.cambio.activo # FALSE
            BY <2>3, <2>6, <2>9 DEF QuitaAdmin
        <3>2. Escrito(r) = Actualizado(r.leido, r)
            BY <2>1, <2>3, <3>1, AlEscribir DEF Escribir
        <3>3. Escrito(r).rol = "admin_sistema"
            BY <3>1, <3>2 DEF Actualizado
        <3>4. Escrito(r).activo = IF r.cambio.activo = Omitido THEN r.leido.activo
                                  ELSE r.cambio.activo
            BY <3>2 DEF Actualizado
        <3>5. r.cambio.activo = TRUE \/ r.cambio.activo = Omitido
            BY <2>4, <3>1, CambioCampos
        <3>6. Escrito(r).activo
            BY <3>1, <3>4, <3>5
        <3> QED
            BY <1>1, <2>4, <3>3, <3>6
    <2> QED
        BY <2>7, <2>8, <2>9
<1>3. CASE \E p \in Peticiones : CrearEscribe(p)
    <2>1. PICK p \in Peticiones : CrearEscribe(p)
        BY <1>3
    <2>2. UNCHANGED <<rancias, conteoRancio>>
        BY <2>1, PasoCrear
    <2>3. CASE UNCHANGED user
        BY <2>2, <2>3 DEF HayAdminSinCarrera, HayAdmin, AdminsActivos, Existe
    <2>4. CASE \E c \in Cuentas, u \in Usuario :
                    /\ ~Existe(c) /\ user' = [user EXCEPT ![c] = u]
                    /\ RolConTenant(u) /\ u.activo = TRUE
                    /\ u.rol = "admin_sistema" \/ Existentes # {}
        <3>1. PICK c \in Cuentas, u \in Usuario :
                    /\ ~Existe(c) /\ user' = [user EXCEPT ![c] = u]
                    /\ u.activo = TRUE
                    /\ u.rol = "admin_sistema" \/ Existentes # {}
            BY <2>4
        <3>2. CASE u.rol = "admin_sistema"
            BY <1>1, <3>1, <3>2 DEF HayAdminSinCarrera, HayAdmin, AdminsActivos
        <3>3. CASE Existentes # {}
            <4>1. SUFFICES ASSUME ~conteoRancio, rancias = {} PROVE HayAdmin'
                BY <2>2 DEF HayAdminSinCarrera
            <4>2. PICK a \in AdminsActivos : TRUE
                BY <4>1, <3>3 DEF HayAdminSinCarrera, HayAdmin, Existentes
            <4>3. a \in Cuentas /\ user[a].activo /\ user[a].rol = "admin_sistema" /\ a # c
                BY <3>1 DEF AdminsActivos, Existe, NoExiste
            <4> QED
                BY <1>1, <3>1, <4>3 DEF HayAdmin, AdminsActivos
        <3> QED
            BY <3>1, <3>2, <3>3
    <2> QED
        BY <2>1, <2>3, <2>4, PasoCrear
<1>4. CASE UNCHANGED <<user, rancias, conteoRancio>>
    BY <1>4 DEF HayAdminSinCarrera, HayAdmin, AdminsActivos, Existe
<1> QED
    BY <1>2, <1>3, <1>4, Pasos, AjenoTipos

\* The tenant of an administrator that is written over what was read, and stays
\* one, is the one it had: its caller manages it.
LEMMA QuedaEnTenant ==
    ASSUME Tipos, NEW p \in Peticiones, Escribir(p),
           pet[p].leido.rol = "admin_tenant", pet[p].leido = user[pet[p].cuenta],
           RolFinal(pet[p]) = "admin_tenant", pet[p].op = "update"
    PROVE  pet[p].destino = pet[p].leido.tenant
<1> DEFINE r == pet[p]
<1>1. r \in Locales
    BY PeticionLocales DEF Tipos, TypeOK, Escribir
<1>2. PuedeGestionar(r.actor, r.leido) /\ Resuelto(r)
    BY DEF Tipos, Coherente, Leido, Escribir
<1>3. r.destino = TenantPedido(r)
    BY <1>2 DEF Resuelto, Destino, Escribir
<1>4. r.actor.rol \in {"admin_tenant", "admin_sistema", "interno"}
    BY <1>1 DEF Locales, Actor, Gestores
<1>5. r.actor.rol # "interno" => r.actor.tenant = r.leido.tenant
    BY <1>2, <1>4 DEF PuedeGestionar
<1> QED
    BY <1>3, <1>5 DEF TenantPedido

\* Of two administrators of a tenant or more, one is not c.
LEMMA QuedaOtroDeTenant ==
    ASSUME NEW c, NEW t, Cardinality(AdminsDeTenant(t)) > 1
    PROVE  \E a \in AdminsDeTenant(t) : a # c
<1>1. IsFiniteSet(AdminsDeTenant(t))
    BY ConstantsAssumption, FS_Subset DEF AdminsDeTenant
<1>2. CASE AdminsDeTenant(t) = {}
    BY <1>2, FS_EmptySet
<1>3. CASE AdminsDeTenant(t) = {c}
  <2>1. Cardinality({c}) = 1
      BY FS_Singleton
  <2> QED
      BY <1>3, <2>1
<1>4. CASE \A a \in AdminsDeTenant(t) : a = c
  <2>1. AdminsDeTenant(t) = {} \/ AdminsDeTenant(t) = {c}
      BY <1>4
  <2> QED
      BY <1>2, <1>3, <2>1
<1> QED
    BY <1>4

\* No step takes the last active administrator of a tenant but over a count or an
\* account out of date.
LEMMA TenantsNext ==
    ASSUME Tipos, [Next]_vars, NEW t \in Tenants,
           AdminsDeTenant(t) # {}, ~conteoRancio', rancias' = {}
    PROVE  AdminsDeTenant(t)' # {}
<1>1. user \in [Cuentas -> {NoExiste} \cup Usuario]
    BY DEF Tipos, TypeOK
<1>2. PICK a \in Cuentas :
        user[a].rol = "admin_tenant" /\ user[a].tenant = t /\ user[a].activo
    BY DEF AdminsDeTenant
<1>3. SUFFICES \E b \in Cuentas : /\ user'[b].rol = "admin_tenant" /\ user'[b].tenant = t
                                  /\ user'[b].activo
    BY DEF AdminsDeTenant
<1>4. CASE \E p \in Peticiones : Escribir(p)
    <2>1. PICK p \in Peticiones : Escribir(p)
        BY <1>4
    <2> DEFINE r == pet[p]
               c == pet[p].cuenta
    <2>2. /\ r.leido = user[c]
          /\ r.contados > 0 => r.contados = Contados(r.leido)
        BY <2>1 DEF Escribir
    <2>3. /\ user' = [user EXCEPT ![c] = Escrito(r)]
          /\ c \in Cuentas /\ r.leido \in Usuario /\ r \in Locales /\ Contado(r)
        BY <2>1, PasoEscribir, AlEscribir DEF Escribir
    <2>4. CASE a # c
        BY <1>1, <1>2, <2>3, <2>4
    <2>5. CASE a = c /\ QuitaAdmin(r.leido, r.cambio)
        <3>1. r.contados > 1
            BY <2>1, <2>3, <2>5 DEF Contado, Escribir
        <3>2. r.contados = Contados(r.leido)
            BY <2>2, <2>3, <3>1 DEF Locales
        <3>3. Contados(r.leido) = Cardinality(AdminsDeTenant(t))
            BY <1>2, <2>2, <2>5 DEF Contados
        <3>4. PICK b \in AdminsDeTenant(t) : b # c
            BY <3>1, <3>2, <3>3, QuedaOtroDeTenant
        <3> QED
            BY <1>1, <2>3, <3>4 DEF AdminsDeTenant
    <2>6. CASE a = c /\ ~QuitaAdmin(r.leido, r.cambio)
        <3>1. /\ r.leido.rol = "admin_tenant" /\ r.leido.activo /\ r.leido.tenant = t
              /\ r.cambio.rol \in {Omitido, "admin_tenant"} /\ r.cambio.activo # FALSE
            BY <1>2, <2>2, <2>6, ConstantsAssumption DEF QuitaAdmin
        <3>2. r.op = "update" /\ Escrito(r) = Actualizado(r.leido, r)
            BY <2>1, <2>2, <3>1, AlEscribir DEF Escribir
        <3>3. r.destino = t
            <4>1. RolFinal(r) = "admin_tenant"
                BY <3>1 DEF RolFinal
            <4> QED
                BY <2>1, <2>2, <3>1, <3>2, <4>1, QuedaEnTenant
        <3>4. Escrito(r).rol = "admin_tenant" /\ Escrito(r).tenant = t
            BY <3>1, <3>2, <3>3 DEF Actualizado
        <3>5. Escrito(r).activo = IF r.cambio.activo = Omitido THEN r.leido.activo
                                  ELSE r.cambio.activo
            BY <3>2 DEF Actualizado
        <3>6. r.cambio.activo = TRUE \/ r.cambio.activo = Omitido
            BY <2>3, <3>1, CambioCampos
        <3>7. Escrito(r).activo
            BY <3>1, <3>5, <3>6
        <3> QED
            BY <1>1, <2>3, <3>4, <3>7
    <2> QED
        BY <2>4, <2>5, <2>6
<1>5. CASE \E p \in Peticiones : CrearEscribe(p)
    <2>1. PICK p \in Peticiones : CrearEscribe(p)
        BY <1>5
    <2>2. Existe(a)
        BY <1>2 DEF Existe, NoExiste
    <2>3. user'[a] = user[a]
        BY <1>1, <2>1, <2>2, PasoCrear
    <2> QED
        BY <1>2, <2>3
<1>6. CASE UNCHANGED user
    BY <1>2, <1>6
<1> QED
    BY <1>4, <1>5, <1>6, Pasos, AjenoTipos

-----------------------------------------------------------------------------
(* Theorems *)

LEMMA InitIInv == Init => IInv
<1> SUFFICES ASSUME Init PROVE IInv
    OBVIOUS
<1>1. /\ user \in [Cuentas -> {NoExiste} \cup Usuario]
      /\ \A c \in Cuentas : Existe(c) => user[c].version = 0 /\ RolConTenant(user[c])
      /\ \/ \A c \in Cuentas : ~Existe(c)
         \/ \E c \in Cuentas : user[c].rol = "admin_sistema" /\ user[c].activo
    BY InicialesAssumption DEF Init, Existe
<1>2. SesionesAntiguas
    <2>1. PICK C \in SUBSET {c \in Cuentas : Existe(c)} :
            sesiones = {Firmada(c, user[c], ~user[c].activo) : c \in C}
        BY DEF Init
    <2>2. ASSUME NEW c \in C
          PROVE  /\ Existe(c) /\ Firmada(c, user[c], ~user[c].activo).cuenta = c
                 /\ Antigua(Firmada(c, user[c], ~user[c].activo).version,
                            Firmada(c, user[c], ~user[c].activo).cortada, user[c])
        <3>1. Existe(c) /\ user[c].version = 0
            BY <1>1
        <3>2. /\ Firmada(c, user[c], ~user[c].activo).version = 0
              /\ Firmada(c, user[c], ~user[c].activo).cortada = ~user[c].activo
              /\ Firmada(c, user[c], ~user[c].activo).cuenta = c
            BY <3>1 DEF Firmada
        <3>3. 0 <= 0
            OBVIOUS
        <3> QED
            BY <3>1, <3>2, <3>3, Zenon DEF Antigua
    <2> QED
        BY <2>1, <2>2 DEF SesionesAntiguas
<1>3. IngresosAntiguos
    BY DEF Init, IngresosAntiguos, Libre
<1>4. RolYTenant
    BY <1>1 DEF RolYTenant
<1>5. HayAdminSinCarrera
    BY <1>1 DEF HayAdminSinCarrera, HayAdmin, AdminsActivos
<1> QED
    BY <1>2, <1>3, <1>4, <1>5, InitTipos DEF IInv

LEMMA NextIInv == IInv /\ [Next]_vars => IInv'
BY NextTipos, TokensNext, RolesNext, AdminsNext DEF IInv

LEMMA SpecIInv == Spec => []IInv
BY InitIInv, NextIInv, PTL DEF Spec

\* Accounts, tokens and the locals of every request stay well typed.
THEOREM UsuariosTypeOK == Spec => []TypeOK
<1>1. IInv => TypeOK
    BY DEF IInv, Tipos
<1> QED
    BY <1>1, SpecIInv, PTL

\* A token from before a suspension is refused for good, unless somebody wrote
\* over a change of the account not seen: tokens cut off are older than the
\* account that is active.
THEOREM SesionCortadaSiempre == Spec => []SesionCortada
<1>1. IInv => SesionCortada
    <2> SUFFICES ASSUME IInv, NEW s \in sesiones, s.cortada, Acepta(s), s.cuenta \notin rancias
                 PROVE  FALSE
        BY DEF SesionCortada
    <2>1. Antigua(s.version, s.cortada, user[s.cuenta])
        BY DEF IInv, SesionesAntiguas
    <2>2. s.version = user[s.cuenta].version /\ user[s.cuenta].activo
        BY DEF Acepta
    <2>3. s.version \in Nat
        BY DEF IInv, Tipos, TypeOK, Sesion
    <2> QED
        BY <2>1, <2>2, <2>3 DEF Antigua
<1> QED
    BY <1>1, SpecIInv, PTL

\* The system keeps an active administrator while no count and no account read
\* is out of date when it is acted on.
THEOREM HayAdminSiempre == Spec => []HayAdminSinCarrera
<1>1. IInv => HayAdminSinCarrera
    BY DEF IInv
<1> QED
    BY <1>1, SpecIInv, PTL

\* A tenant that has an active administrator keeps one, unless a request wrote over an
\* account, or after a count, that had changed since it read them
\* (users.service.ts:115).
THEOREM TenantConservaAdminSiempre == Spec => TenantConservaAdmin
<1> DEFINE Conserva ==
        \A t \in Tenants :
            AdminsDeTenant(t) # {} /\ AdminsDeTenant(t)' = {} => (conteoRancio \/ rancias # {})'
<1>1. IInv /\ [Next]_vars => [Conserva]_vars
    BY TenantsNext DEF IInv
<1> QED
    BY <1>1, SpecIInv, PTL DEF Spec, TenantConservaAdmin

\* AD-11 for every account that no overlapping requests wrote.
THEOREM RolYTenantSiempre == Spec => []RolYTenant
<1>1. IInv => RolYTenant
    BY DEF IInv
<1> QED
    BY <1>1, SpecIInv, PTL
=============================================================================
