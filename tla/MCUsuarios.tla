----------------------------- MODULE MCUsuarios -----------------------------
(* Instance of Usuarios: three accounts of one tenant and of the platform. *)
EXTENDS Usuarios, TLC

CONSTANTS a1, b1, u1, t1

Cuenta(rol, tenant, activo) ==
    [rol |-> rol, tenant |-> tenant, activo |-> activo, version |-> 0]

Pedir(op, rol, activo) ==
    [op |-> op, cambio |-> [rol |-> rol, tenant |-> Omitido, activo |-> activo]]

Suspensiones ==
    {Pedir("update", Omitido, FALSE), Pedir("softDelete", Omitido, FALSE),
     Pedir("update", Omitido, TRUE)}

\* The empty database, one with two administrators and a suspended user, and
\* one with two administrators of the tenant.
MCIniciales ==
    { [c \in Cuentas |-> NoExiste],
      [c \in Cuentas |-> IF c = u1 THEN Cuenta("operativo", t1, FALSE)
                         ELSE Cuenta("admin_sistema", SinTenant, TRUE)],
      [c \in Cuentas |-> IF c = a1 THEN Cuenta("admin_sistema", SinTenant, TRUE)
                         ELSE Cuenta("admin_tenant", t1, TRUE)] }

MCOrdenes ==
    Suspensiones \cup {Pedir(op, rol, Omitido) : op \in {"create", "update"}, rol \in Roles}

\* Two accounts of the platform, or one of it and one of a tenant.
ParIniciales ==
    { [c \in Cuentas |-> Cuenta("admin_sistema", SinTenant, TRUE)],
      [c \in Cuentas |-> IF c = a1 THEN Cuenta("admin_sistema", SinTenant, TRUE)
                         ELSE Cuenta("admin_tenant", t1, TRUE)] }

ParOrdenes ==
    {Pedir("softDelete", Omitido, FALSE), Pedir("update", Omitido, TRUE),
     Pedir("update", "admin_sistema", Omitido), Pedir("update", "admin_tenant", Omitido)}

Simetria == Permutations(Peticiones)
=============================================================================
