------------------------ MODULE AdministracionProofs ------------------------
(* Theorems about the parts of Administracion, for any tenants, accounts,  *)
(* catalogues, requests and mails.  The letter of a part begins the names  *)
(* of its lemmas: A for Alta.                                              *)
EXTENDS Administracion, RestablecerProofs, TLAPS

-----------------------------------------------------------------------------
(* Alta: requests *)

A_Otras(p) == \A q \in Peticiones \ {p} : petA'[q] = petA[q]

\* p is the onboarding of t.
A_De(p, t) == petA[p].op = "alta" /\ petA[p].t = t

A_PasosDeTenant == A!PasosAlta \cup A!PasosAdmin \cup A!PasosDeshacer \cup {"config", "plantilla"}

LEMMA A_Fichas ==
    ASSUME NEW r \in A!Peticion
    PROVE  /\ r.pc \in {"libre", "hecha", "crea"} => r.t = Nada
           /\ r.pc \in {"libre", "hecha"} \/ r.pc = "crea" \/ r.pc \in A_PasosDeTenant
           /\ r.pc \in A_PasosDeTenant =>
                r.t \in Tenants /\ r.cuenta \in Emails /\ r.errores \in BOOLEAN
           /\ r.pc \in A!PasosAlta \cup A!PasosAdmin => ~r.errores
           /\ r.pc \in A!PasosAlta \cup A!PasosDeshacer \cup {"crea"} => r.op = "alta"
           /\ r.pc \in {"config", "plantilla"} => r.op = "soporte"
           /\ r.pc = "crea" => r.clave \in Claves /\ r.cuenta \in Emails
BY DEF A!Peticion, A_PasosDeTenant, A!PasosAlta, A!PasosAdmin, A!PasosDeshacer

\* The records a request goes on as.
LEMMA A_Siguientes ==
    ASSUME NEW r \in A!Peticion
    PROVE  /\ [r EXCEPT !.pc = r.pc] = r
           /\ \A x \in A!PasosAlta \cup A!PasosAdmin :
                r.pc \in A!PasosAlta => [r EXCEPT !.pc = x] \in A!Peticion
           /\ \A x \in A!PasosAdmin :
                r.pc \in A!PasosAdmin => [r EXCEPT !.pc = x] \in A!Peticion
           /\ r.op = "alta" /\ r.pc \in A!PasosAlta \cup A!PasosAdmin =>
                [r EXCEPT !.pc = "quitaPlantillas"] \in A!Peticion
           /\ \A x \in A!PasosDeshacer :
                r.pc \in A!PasosDeshacer =>
                    /\ [r EXCEPT !.pc = x] \in A!Peticion
                    /\ [r EXCEPT !.pc = x, !.errores = TRUE] \in A!Peticion
           /\ \A t \in Tenants :
                r.pc = "crea" => [r EXCEPT !.pc = "configura", !.t = t] \in A!Peticion
BY DEF A!Peticion, A!PasosAlta, A!PasosAdmin, A!PasosDeshacer

-----------------------------------------------------------------------------
(* Alta: the inductive invariant, tenant by tenant *)

\* Nothing is of a tenant that was never created.
A_Virgen(t) ==
    tenant[t].estado = "no" =>
        /\ ~config[t] /\ plantillas[t] = {}
        /\ \A c \in Emails : usuarios[c] # t
        /\ \A q \in Peticiones : petA[q].t # t
        /\ t \notin logradas \cup deshechas

\* Others do not come between the onboarding of t and t unless they crossed it.
A_Apartada(p, t) ==
    t \notin cruzadosA =>
        /\ \A q \in Peticiones : petA[q].t = t => q = p
        /\ \A c \in Emails : usuarios[c] # t
        /\ petA[p].pc \in {"quitaConfig", "quitaTenant"} /\ ~petA[p].errores => plantillas[t] = {}
        /\ petA[p].pc = "quitaTenant" /\ ~petA[p].errores => ~config[t]

\* What the onboarding of t has done so far: there is one, and the tenant is there.
A_EnCurso(t) ==
    \A p \in Peticiones : A_De(p, t) =>
        /\ A!Existe(t) /\ t \notin logradas \cup deshechas
        /\ \A q \in Peticiones : A_De(q, t) => q = p
        /\ petA[p].pc \in {"siembra", "activa"} \cup A!PasosAdmin => config[t]
        /\ petA[p].pc \in {"activa"} \cup A!PasosAdmin => Semillas \subseteq plantillas[t]
        /\ A_Apartada(p, t)

A_Lograda(t) ==
    t \in logradas =>
        /\ A!Existe(t) /\ config[t] /\ Semillas \subseteq plantillas[t]
        /\ \E c \in Emails : usuarios[c] = t

\* Nothing is of a tenant that was taken back, and nobody is in it.
A_Deshecha(t) ==
    t \in deshechas =>
        /\ tenant[t].estado = "borrado"
        /\ t \notin cruzadosA =>
            /\ ~config[t] /\ plantillas[t] = {}
            /\ \A c \in Emails : usuarios[c] # t
            /\ \A q \in Peticiones : petA[q].t # t

A_Tenant(t) == A_Virgen(t) /\ A_EnCurso(t) /\ A_Lograda(t) /\ A_Deshecha(t)

A_IInv == A!TypeOK /\ \A t \in Tenants : A_Tenant(t)

-----------------------------------------------------------------------------
(* Alta: steps *)

LEMMA A_Sigue ==
    ASSUME A!TypeOK, NEW p \in Peticiones, NEW r \in A!Peticion, A!Seguir(p, r)
    PROVE  /\ petA' \in [Peticiones -> A!Peticion] /\ A_Otras(p) /\ petA'[p] = r
           /\ cruzadosA' \subseteq Tenants /\ cruzadosA \subseteq cruzadosA'
           /\ \A t \in Tenants \ cruzadosA', q \in Peticiones \ {p} :
                r.t = t /\ petA[q].t = t => r.op # "alta" /\ petA[q].op # "alta"
<1>1. petA' \in [Peticiones -> A!Peticion] /\ A_Otras(p) /\ petA'[p] = r
    BY DEF A!Seguir, A!TypeOK, A_Otras
<1>2. cruzadosA' = cruzadosA \cup
        {t \in {r.t} \ {Nada} : \E q \in Peticiones \ {p} :
            petA[q].t = t /\ "alta" \in {r.op, petA[q].op}}
    BY DEF A!Seguir
<1>3. r.t \in Tenants \cup {Nada}
    BY A_Fichas
<1>4. cruzadosA' \subseteq Tenants /\ cruzadosA \subseteq cruzadosA'
    BY <1>2, <1>3 DEF A!TypeOK
<1>5. ASSUME NEW t \in Tenants \ cruzadosA', NEW q \in Peticiones \ {p},
             r.t = t, petA[q].t = t
      PROVE  r.op # "alta" /\ petA[q].op # "alta"
    BY <1>2, <1>5, ParametersAssumption DEF A!ConstantsOK
<1> QED
    BY <1>1, <1>4, <1>5

LEMMA A_Termina ==
    ASSUME A!TypeOK, NEW p \in Peticiones, A!Terminar(p)
    PROVE  /\ petA' \in [Peticiones -> A!Peticion] /\ A_Otras(p)
           /\ petA'[p].t = Nada /\ cruzadosA' = cruzadosA
<1>1. A!EnReposo("hecha") \in A!Peticion /\ A!EnReposo("hecha").t = Nada
    BY DEF A!EnReposo, A!Peticion
<1> QED
    BY <1>1 DEF A!Terminar, A!TypeOK, A_Otras

\* A step of a request leaves other tenants as they are.
LEMMA A_Marco ==
    ASSUME NEW p \in Peticiones, A_Otras(p), NEW t \in Tenants, A_Tenant(t),
           petA[p].t # t, petA'[p].t # t,
           tenant'[t] = tenant[t], config'[t] = config[t], plantillas'[t] = plantillas[t],
           \A c \in Emails : usuarios'[c] = t <=> usuarios[c] = t,
           t \in logradas' <=> t \in logradas, t \in deshechas' <=> t \in deshechas,
           cruzadosA \subseteq cruzadosA'
    PROVE  A_Tenant(t)'
<1>1. \A q \in Peticiones : petA'[q].t = t <=> petA[q].t = t
    BY DEF A_Otras
<1>2. \A q \in Peticiones : petA[q].t = t => petA'[q] = petA[q]
    BY DEF A_Otras
<1>3. \A q \in Peticiones : A_De(q, t)' <=> A_De(q, t)
    BY <1>1, <1>2 DEF A_De
<1>4. A_Virgen(t)'
    BY <1>1 DEF A_Tenant, A_Virgen
<1>5. A_EnCurso(t)'
    <2>1. ASSUME NEW q \in Peticiones, A_De(q, t)
          PROVE  petA'[q] = petA[q] /\ (A_Apartada(q, t) => A_Apartada(q, t)')
          BY <1>1, <1>2, <2>1 DEF A_De, A_Apartada
    <2> QED
          BY <1>3, <2>1 DEF A_Tenant, A_EnCurso, A!Existe
<1>6. A_Lograda(t)' /\ A_Deshecha(t)'
    BY <1>1 DEF A_Tenant, A_Lograda, A_Deshecha, A!Existe
<1> QED
    BY <1>4, <1>5, <1>6 DEF A_Tenant

\* A request that ends without a trace
LEMMA A_Fin ==
    ASSUME A_IInv, NEW p \in Peticiones, A!Terminar(p),
           UNCHANGED <<tenant, config, plantillas, usuarios, logradas, deshechas>>,
           inciertas' \subseteq Tenants
    PROVE  A_IInv'
<1>1. A!TypeOK'
    BY A_Termina DEF A_IInv, A!TypeOK
<1>2. ASSUME NEW t \in Tenants PROVE A_Tenant(t)'
  <2>1. CASE petA[p].t # t
        BY <2>1, A_Termina, A_Marco, ParametersAssumption DEF A_IInv, A!ConstantsOK
  <2>2. CASE petA[p].t = t
    <3>1. A_Otras(p) /\ petA'[p].t # t /\ cruzadosA' = cruzadosA
          BY A_Termina, ParametersAssumption DEF A_IInv, A!ConstantsOK
    <3>2. A_Virgen(t)' /\ A_Deshecha(t)'
          BY <2>2, <3>1 DEF A_IInv, A_Tenant, A_Virgen, A_Deshecha
    <3>3. A_Lograda(t)'
          BY DEF A_IInv, A_Tenant, A_Lograda, A!Existe
    <3>4. ASSUME NEW q \in Peticiones, A_De(q, t)'
          PROVE  q # p /\ petA'[q] = petA[q] /\ A_De(q, t)
          BY <3>1, <3>4 DEF A_De, A_Otras
    <3>5. \A q \in Peticiones : petA'[q].t = t => petA[q].t = t
          BY <2>2, <3>1 DEF A_Otras
    <3>6. A_EnCurso(t)'
          BY <3>1, <3>4, <3>5 DEF A_IInv, A_Tenant, A_EnCurso, A_Apartada, A_De, A!Existe
    <3> QED
          BY <3>2, <3>3, <3>6 DEF A_Tenant
  <2> QED
        BY <2>1, <2>2
<1> QED
    BY <1>1, <1>2 DEF A_IInv

\* A request that goes on in its tenant and writes nothing
LEMMA A_Lee ==
    ASSUME A_IInv, NEW p \in Peticiones, NEW r \in A!Peticion, A!Seguir(p, r),
           petA[p].t \in Tenants, r.t = petA[p].t, r.op = petA[p].op,
           r.pc \in A!PasosAdmin \cup {"quitaPlantillas"},
           petA[p].pc \in A!PasosAdmin \cup A!PasosAlta,
           r.pc \in A!PasosAdmin => petA[p].pc \in A!PasosAdmin,
           UNCHANGED <<tenant, config, plantillas, usuarios, logradas, deshechas, inciertas>>
    PROVE  A_IInv'
<1>1. A!TypeOK'
    BY A_Sigue DEF A_IInv, A!TypeOK
<1>2. ASSUME NEW t \in Tenants PROVE A_Tenant(t)'
  <2>1. CASE petA[p].t # t
        BY <2>1, A_Sigue, A_Marco DEF A_IInv
  <2>2. CASE petA[p].t = t
    <3>1. /\ A_Otras(p) /\ petA'[p] = r /\ cruzadosA \subseteq cruzadosA'
          BY A_Sigue DEF A_IInv
    <3>2. \A q \in Peticiones : petA'[q].t = t <=> petA[q].t = t
          BY <2>2, <3>1 DEF A_Otras
    <3>3. \A q \in Peticiones : A_De(q, t)' <=> A_De(q, t)
          BY <2>2, <3>1 DEF A_De, A_Otras
    <3>4. A_Virgen(t)' /\ A_Deshecha(t)' /\ A_Lograda(t)'
          BY <3>1, <3>2 DEF A_IInv, A_Tenant, A_Virgen, A_Deshecha, A_Lograda, A!Existe
    <3>5. ASSUME NEW q \in Peticiones, A_De(q, t)
          PROVE  /\ petA'[q].pc \in {"siembra", "activa"} \cup A!PasosAdmin
                        => petA[q].pc \in {"siembra", "activa"} \cup A!PasosAdmin
                 /\ petA'[q].pc \in {"activa"} \cup A!PasosAdmin
                        => petA[q].pc \in {"activa"} \cup A!PasosAdmin
                 /\ petA'[q].pc \in {"quitaConfig", "quitaTenant"}
                        => petA'[q] = petA[q]
          BY <3>1 DEF A_Otras, A!PasosAdmin
    <3>6. ASSUME NEW q \in Peticiones, A_De(q, t), A_Apartada(q, t)
          PROVE  A_Apartada(q, t)'
          BY <3>1, <3>2, <3>5, <3>6 DEF A_Apartada
    <3>7. A_EnCurso(t)'
          BY <3>1, <3>3, <3>5, <3>6 DEF A_IInv, A_Tenant, A_EnCurso, A!Existe
    <3> QED
          BY <3>4, <3>7 DEF A_Tenant
  <2> QED
        BY <2>1, <2>2
<1> QED
    BY <1>1, <1>2 DEF A_IInv

\* The onboarding of t goes on, and others stay where they are.
LEMMA A_Sola ==
    ASSUME A_IInv, NEW p \in Peticiones, NEW t \in Tenants, A_De(p, t),
           NEW r \in A!Peticion, A!Seguir(p, r), r.t = t, r.op = "alta"
    PROVE  /\ t \notin logradas \cup deshechas /\ A!Existe(t)
           /\ \A q \in Peticiones : petA'[q].t = t <=> petA[q].t = t
           /\ \A q \in Peticiones : A_De(q, t)' <=> q = p
           /\ t \notin cruzadosA' => /\ t \notin cruzadosA /\ \A c \in Emails : usuarios[c] # t
                                     /\ \A q \in Peticiones : petA'[q].t = t => q = p
<1>1. /\ A_Otras(p) /\ petA'[p] = r /\ cruzadosA \subseteq cruzadosA'
    BY A_Sigue DEF A_IInv
<1>2. t \notin logradas \cup deshechas /\ A!Existe(t)
    BY DEF A_IInv, A_Tenant, A_EnCurso
<1>3. \A q \in Peticiones : petA'[q].t = t <=> petA[q].t = t
    BY <1>1 DEF A_De, A_Otras
<1>4. \A q \in Peticiones : A_De(q, t)' <=> A_De(q, t)
    BY <1>1 DEF A_De, A_Otras
<1>5. \A q \in Peticiones : A_De(q, t) <=> q = p
    BY DEF A_IInv, A_Tenant, A_EnCurso
<1>6. A_Apartada(p, t)
    BY DEF A_IInv, A_Tenant, A_EnCurso
<1> QED
    BY <1>1, <1>2, <1>3, <1>4, <1>5, <1>6 DEF A_Apartada

LEMMA A_Avance ==
    ASSUME A!TypeOK, NEW p \in Peticiones, petA[p].pc \in A_PasosDeTenant,
           NEW x \in A_PasosDeTenant, A!Avanza(p, x), [petA[p] EXCEPT !.pc = x] \in A!Peticion
    PROVE  \E r \in A!Peticion :
              /\ A!Seguir(p, r) /\ r.pc = x /\ r.t = petA[p].t /\ r.op = petA[p].op
              /\ r.errores = petA[p].errores
<1> DEFINE r == [petA[p] EXCEPT !.pc = x]
<1>1. petA[p] \in A!Peticion
    BY DEF A!TypeOK
<1>2. r.pc = x /\ r.t = petA[p].t /\ r.op = petA[p].op /\ r.errores = petA[p].errores
    BY <1>1 DEF A!Peticion
<1>3. A!Seguir(p, r) /\ r \in A!Peticion
    BY DEF A!Avanza
<1> QED
    BY <1>2, <1>3

\* The onboarding of t goes on and writes in t alone.
LEMMA A_Escribe ==
    ASSUME A_IInv, NEW p \in Peticiones, NEW t \in Tenants, A_De(p, t),
           NEW r \in A!Peticion, A!Seguir(p, r), r.t = t, r.op = "alta",
           UNCHANGED <<usuarios, logradas, deshechas, inciertas>>,
           tenant' \in [Tenants -> A!Documento],
           config' \in [Tenants -> BOOLEAN],
           plantillas' \in [Tenants -> SUBSET (Semillas \cup {Propia})],
           \A x \in Tenants \ {t} : /\ tenant'[x] = tenant[x] /\ config'[x] = config[x]
                                    /\ plantillas'[x] = plantillas[x],
           tenant'[t].estado \in {"inactivo", "activo"},
           r.pc \in {"siembra", "activa"} \cup A!PasosAdmin => config'[t],
           r.pc \in {"activa"} \cup A!PasosAdmin => Semillas \subseteq plantillas'[t],
           t \notin cruzadosA' =>
              /\ r.pc \in {"quitaConfig", "quitaTenant"} /\ ~r.errores => plantillas'[t] = {}
              /\ r.pc = "quitaTenant" /\ ~r.errores => ~config'[t]
    PROVE  A_IInv'
<1>1. /\ petA' \in [Peticiones -> A!Peticion] /\ A_Otras(p) /\ petA'[p] = r
      /\ cruzadosA' \subseteq Tenants /\ cruzadosA \subseteq cruzadosA'
    BY A_Sigue DEF A_IInv
<1>2. A!TypeOK'
    BY <1>1 DEF A_IInv, A!TypeOK
<1>3. ASSUME NEW x \in Tenants, x # t PROVE A_Tenant(x)'
    BY <1>1, <1>3, A_Marco DEF A_IInv, A_De
<1>4. /\ t \notin logradas' \cup deshechas'
      /\ \A q \in Peticiones : A_De(q, t)' <=> q = p
      /\ t \notin cruzadosA' => /\ \A c \in Emails : usuarios'[c] # t
                                /\ \A q \in Peticiones : petA'[q].t = t => q = p
    BY A_Sola
<1>5. A_Apartada(p, t)'
    BY <1>1, <1>4 DEF A_Apartada
<1>6. A_EnCurso(t)'
    BY <1>1, <1>4, <1>5 DEF A_EnCurso, A!Existe
<1>7. tenant'[t].estado # "no"
    OBVIOUS
<1>8. A_Tenant(t)'
    BY <1>4, <1>6, <1>7 DEF A_Tenant, A_Virgen, A_Lograda, A_Deshecha
<1> QED
    BY <1>2, <1>3, <1>8 DEF A_IInv

\* What is known of the tenant of an onboarding in a step of it
LEMMA A_Suyo ==
    ASSUME A_IInv, NEW p \in Peticiones, petA[p].pc \in A!PasosAlta \cup A!PasosDeshacer
    PROVE  /\ petA[p].t \in Tenants /\ petA[p].op = "alta" /\ A_De(p, petA[p].t)
           /\ petA[p] \in A!Peticion
           /\ tenant[petA[p].t].estado \in {"inactivo", "activo"}
           /\ \A e \in {"inactivo", "activo"} :
                /\ [tenant[petA[p].t] EXCEPT !.estado = e] \in A!Documento
                /\ [tenant[petA[p].t] EXCEPT !.estado = e].estado = e
           /\ A_EnCurso(petA[p].t) /\ A_Apartada(p, petA[p].t)
<1>1. petA[p] \in A!Peticion
    BY DEF A_IInv, A!TypeOK
<1>2. petA[p].t \in Tenants /\ petA[p].op = "alta"
    BY <1>1, A_Fichas DEF A_PasosDeTenant
<1>3. A_De(p, petA[p].t)
    BY <1>2 DEF A_De
<1>4. A_EnCurso(petA[p].t) /\ A_Apartada(p, petA[p].t) /\ A!Existe(petA[p].t)
    BY <1>2, <1>3 DEF A_IInv, A_Tenant, A_EnCurso
<1>5. tenant[petA[p].t] \in A!Documento
    BY <1>2 DEF A_IInv, A!TypeOK
<1>6. ASSUME NEW e \in {"inactivo", "activo"}
      PROVE  /\ [tenant[petA[p].t] EXCEPT !.estado = e] \in A!Documento
             /\ [tenant[petA[p].t] EXCEPT !.estado = e].estado = e
    BY <1>4, <1>5 DEF A!Existe, A!Documento
<1> QED
    BY <1>1, <1>2, <1>3, <1>4, <1>6 DEF A!Existe

LEMMA A_Configura ==
    ASSUME A_IInv, NEW p \in Peticiones, A!Configura(p)
    PROVE  A_IInv'
<1> DEFINE t == petA[p].t
<1>1. /\ petA[p].pc = "configura" /\ A!Avanza(p, "siembra")
      /\ config' = [config EXCEPT ![t] = TRUE]
      /\ UNCHANGED <<tenant, plantillas, usuarios, logradas, deshechas, inciertas>>
    BY DEF A!Configura, A!historia
<1>2. t \in Tenants /\ A_De(p, t) /\ petA[p] \in A!Peticion
      /\ petA[p].op = "alta" /\ tenant[t].estado \in {"inactivo", "activo"}
    BY <1>1, A_Suyo DEF A!PasosAlta
<1>3. PICK r \in A!Peticion : A!Seguir(p, r) /\ r.pc = "siembra" /\ r.t = t /\ r.op = "alta"
  <2>1. [petA[p] EXCEPT !.pc = "siembra"] \in A!Peticion
        BY <1>1, <1>2, A_Siguientes DEF A!PasosAlta
  <2> QED
        BY <1>1, <1>2, <2>1, A_Avance DEF A_IInv, A_PasosDeTenant, A!PasosAlta
<1>4. /\ config' \in [Tenants -> BOOLEAN] /\ config'[t]
      /\ \A x \in Tenants \ {t} : config'[x] = config[x]
    BY <1>1, <1>2 DEF A_IInv, A!TypeOK
<1> QED
    BY <1>1, <1>2, <1>3, <1>4, A_Escribe DEF A_IInv, A!TypeOK, A!PasosAdmin

LEMMA A_Siembra ==
    ASSUME A_IInv, NEW p \in Peticiones, A!Siembra(p)
    PROVE  A_IInv'
<1> DEFINE t == petA[p].t
<1>1. /\ petA[p].pc = "siembra"
      /\ \/ A!Avanza(p, "activa") /\ Semillas \subseteq plantillas[t] /\ UNCHANGED plantillas
         \/ /\ A!Avanza(p, "siembra")
            /\ \E x \in Semillas : plantillas' = [plantillas EXCEPT ![t] = @ \cup {x}]
      /\ UNCHANGED <<tenant, config, usuarios, logradas, deshechas, inciertas>>
    BY DEF A!Siembra, A!historia
<1>2. t \in Tenants /\ A_De(p, t) /\ petA[p] \in A!Peticion
      /\ petA[p].op = "alta" /\ tenant[t].estado \in {"inactivo", "activo"} /\ config[t]
    BY <1>1, A_Suyo DEF A!PasosAlta, A_EnCurso
<1>3. ASSUME NEW y \in {"siembra", "activa"}, A!Avanza(p, y)
      PROVE  \E r \in A!Peticion : A!Seguir(p, r) /\ r.pc = y /\ r.t = t /\ r.op = "alta"
  <2>1. [petA[p] EXCEPT !.pc = y] \in A!Peticion
        BY <1>1, <1>2, A_Siguientes DEF A!PasosAlta
  <2> QED
        BY <1>1, <1>2, <1>3, <2>1, A_Avance DEF A_IInv, A_PasosDeTenant, A!PasosAlta
<1>4. CASE A!Avanza(p, "activa") /\ Semillas \subseteq plantillas[t] /\ UNCHANGED plantillas
  <2>1. PICK r \in A!Peticion : A!Seguir(p, r) /\ r.pc = "activa" /\ r.t = t /\ r.op = "alta"
        BY <1>3, <1>4
  <2> QED
        BY <1>1, <1>2, <1>4, <2>1, A_Escribe DEF A_IInv, A!TypeOK, A!PasosAdmin
<1>5. ASSUME A!Avanza(p, "siembra"),
             NEW x \in Semillas, plantillas' = [plantillas EXCEPT ![t] = @ \cup {x}]
      PROVE  A_IInv'
  <2>1. PICK r \in A!Peticion : A!Seguir(p, r) /\ r.pc = "siembra" /\ r.t = t /\ r.op = "alta"
        BY <1>3, <1>5
  <2>2. /\ plantillas' \in [Tenants -> SUBSET (Semillas \cup {Propia})]
        /\ \A y \in Tenants \ {t} : plantillas'[y] = plantillas[y]
        BY <1>2, <1>5 DEF A_IInv, A!TypeOK
  <2> QED
        BY <1>1, <1>2, <2>1, <2>2, A_Escribe DEF A_IInv, A!TypeOK, A!PasosAdmin
<1> QED
    BY <1>1, <1>4, <1>5

LEMMA A_Activa ==
    ASSUME A_IInv, NEW p \in Peticiones, A!Activa(p)
    PROVE  A_IInv'
<1> DEFINE t == petA[p].t
<1>1. /\ petA[p].pc = "activa" /\ A!Avanza(p, "email")
      /\ tenant' = [tenant EXCEPT ![t] = [tenant[t] EXCEPT !.estado = "activo"]]
      /\ UNCHANGED <<config, plantillas, usuarios, logradas, deshechas, inciertas>>
    BY DEF A!Activa, A!historia
<1>2. t \in Tenants /\ A_De(p, t) /\ petA[p] \in A!Peticion /\ petA[p].op = "alta"
      /\ config[t] /\ Semillas \subseteq plantillas[t]
      /\ [tenant[t] EXCEPT !.estado = "activo"] \in A!Documento
      /\ [tenant[t] EXCEPT !.estado = "activo"].estado = "activo"
    BY <1>1, A_Suyo DEF A!PasosAlta, A_EnCurso
<1>3. PICK r \in A!Peticion : A!Seguir(p, r) /\ r.pc = "email" /\ r.t = t /\ r.op = "alta"
  <2>1. [petA[p] EXCEPT !.pc = "email"] \in A!Peticion
        BY <1>1, <1>2, A_Siguientes DEF A!PasosAlta, A!PasosAdmin
  <2> QED
        BY <1>1, <1>2, <2>1, A_Avance DEF A_IInv, A_PasosDeTenant, A!PasosAlta, A!PasosAdmin
<1>4. /\ tenant' \in [Tenants -> A!Documento] /\ tenant'[t].estado = "activo"
      /\ \A x \in Tenants \ {t} : tenant'[x] = tenant[x]
    BY <1>1, <1>2 DEF A_IInv, A!TypeOK
<1> QED
    BY <1>1, <1>2, <1>3, <1>4, A_Escribe DEF A_IInv, A!TypeOK

LEMMA A_QuitaPlantillas ==
    ASSUME A_IInv, NEW p \in Peticiones, A!QuitaPlantillas(p)
    PROVE  A_IInv'
<1> DEFINE t == petA[p].t
<1>1. /\ petA[p].pc = "quitaPlantillas"
      /\ \/ A!Avanza(p, "quitaConfig") /\ plantillas' = [plantillas EXCEPT ![t] = {}]
         \/ /\ A!Seguir(p, [petA[p] EXCEPT !.pc = "quitaConfig", !.errores = TRUE])
            /\ UNCHANGED plantillas
      /\ UNCHANGED <<tenant, config, usuarios, logradas, deshechas, inciertas>>
    BY DEF A!QuitaPlantillas, A!historia
<1>2. t \in Tenants /\ A_De(p, t) /\ petA[p] \in A!Peticion
      /\ petA[p].op = "alta" /\ tenant[t].estado \in {"inactivo", "activo"}
    BY <1>1, A_Suyo DEF A!PasosDeshacer
<1>3. /\ [petA[p] EXCEPT !.pc = "quitaConfig"] \in A!Peticion
      /\ [petA[p] EXCEPT !.pc = "quitaConfig", !.errores = TRUE] \in A!Peticion
    BY <1>1, <1>2, A_Siguientes DEF A!PasosDeshacer
<1>4. CASE A!Avanza(p, "quitaConfig") /\ plantillas' = [plantillas EXCEPT ![t] = {}]
  <2>1. PICK r \in A!Peticion : A!Seguir(p, r) /\ r.pc = "quitaConfig" /\ r.t = t /\ r.op = "alta"
        BY <1>1, <1>2, <1>3, <1>4, A_Avance DEF A_IInv, A_PasosDeTenant, A!PasosDeshacer
  <2>2. /\ plantillas' \in [Tenants -> SUBSET (Semillas \cup {Propia})] /\ plantillas'[t] = {}
        /\ \A y \in Tenants \ {t} : plantillas'[y] = plantillas[y]
        BY <1>2, <1>4 DEF A_IInv, A!TypeOK
  <2> QED
        BY <1>1, <1>2, <2>1, <2>2, A_Escribe DEF A_IInv, A!TypeOK, A!PasosAdmin
<1>5. ASSUME A!Seguir(p, [petA[p] EXCEPT !.pc = "quitaConfig", !.errores = TRUE]),
             UNCHANGED plantillas
      PROVE  A_IInv'
  <2> DEFINE r == [petA[p] EXCEPT !.pc = "quitaConfig", !.errores = TRUE]
  <2>1. r \in A!Peticion /\ r.pc = "quitaConfig" /\ r.t = t /\ r.op = "alta" /\ r.errores = TRUE
        BY <1>2, <1>3 DEF A!Peticion
  <2>2. A!Seguir(p, r)
        BY <1>5
  <2> HIDE DEF r
  <2> QED
        BY <1>1, <1>2, <1>5, <2>1, <2>2, A_Escribe DEF A_IInv, A!TypeOK, A!PasosAdmin
<1> QED
    BY <1>1, <1>4, <1>5

LEMMA A_QuitaConfig ==
    ASSUME A_IInv, NEW p \in Peticiones, A!QuitaConfig(p)
    PROVE  A_IInv'
<1> DEFINE t == petA[p].t
<1>1. /\ petA[p].pc = "quitaConfig"
      /\ \/ A!Avanza(p, "quitaTenant") /\ config' = [config EXCEPT ![t] = FALSE]
         \/ /\ A!Seguir(p, [petA[p] EXCEPT !.pc = "quitaTenant", !.errores = TRUE])
            /\ UNCHANGED config
      /\ UNCHANGED <<tenant, plantillas, usuarios, logradas, deshechas, inciertas>>
    BY DEF A!QuitaConfig, A!historia
<1>2. t \in Tenants /\ A_De(p, t) /\ petA[p] \in A!Peticion
      /\ petA[p].op = "alta" /\ tenant[t].estado \in {"inactivo", "activo"}
    BY <1>1, A_Suyo DEF A!PasosDeshacer
<1>3. /\ [petA[p] EXCEPT !.pc = "quitaTenant"] \in A!Peticion
      /\ [petA[p] EXCEPT !.pc = "quitaTenant", !.errores = TRUE] \in A!Peticion
    BY <1>1, <1>2, A_Siguientes DEF A!PasosDeshacer
<1>4. CASE A!Avanza(p, "quitaTenant") /\ config' = [config EXCEPT ![t] = FALSE]
  <2>1. PICK r \in A!Peticion : /\ A!Seguir(p, r) /\ r.pc = "quitaTenant" /\ r.t = t
                                /\ r.op = "alta" /\ r.errores = petA[p].errores
        BY <1>1, <1>2, <1>3, <1>4, A_Avance DEF A_IInv, A_PasosDeTenant, A!PasosDeshacer
  <2>2. /\ config' \in [Tenants -> BOOLEAN] /\ ~config'[t]
        /\ \A y \in Tenants \ {t} : config'[y] = config[y]
        BY <1>2, <1>4 DEF A_IInv, A!TypeOK
  <2>3. t \notin cruzadosA' /\ ~r.errores => plantillas[t] = {}
        BY <1>1, <1>2, <2>1, A_Suyo, A_Sigue DEF A_IInv, A_Apartada, A!PasosDeshacer
  <2> QED
        BY <1>1, <1>2, <2>1, <2>2, <2>3, A_Escribe DEF A_IInv, A!TypeOK, A!PasosAdmin
<1>5. ASSUME A!Seguir(p, [petA[p] EXCEPT !.pc = "quitaTenant", !.errores = TRUE]),
             UNCHANGED config
      PROVE  A_IInv'
  <2> DEFINE r == [petA[p] EXCEPT !.pc = "quitaTenant", !.errores = TRUE]
  <2>1. r \in A!Peticion /\ r.pc = "quitaTenant" /\ r.t = t /\ r.op = "alta" /\ r.errores = TRUE
        BY <1>2, <1>3 DEF A!Peticion
  <2>2. A!Seguir(p, r)
        BY <1>5
  <2> HIDE DEF r
  <2> QED
        BY <1>1, <1>2, <1>5, <2>1, <2>2, A_Escribe DEF A_IInv, A!TypeOK, A!PasosAdmin
<1> QED
    BY <1>1, <1>4, <1>5

\* The tenant goes, last of all.
LEMMA A_QuitaTenant ==
    ASSUME A_IInv, NEW p \in Peticiones, A!QuitaTenant(p)
    PROVE  A_IInv'
<1>0. petA[p].t \in Tenants /\ petA[p].pc = "quitaTenant"
    BY A_Suyo DEF A!QuitaTenant, A!PasosDeshacer
<1> PICK t \in Tenants : t = petA[p].t
    BY <1>0
<1>1. /\ petA[p].pc = "quitaTenant" /\ A!Terminar(p)
      /\ UNCHANGED <<config, plantillas, usuarios, logradas>>
    BY DEF A!QuitaTenant
<1>2. t \in Tenants /\ A_De(p, t) /\ petA[p] \in A!Peticion /\ A_EnCurso(t) /\ A_Apartada(p, t)
    BY <1>1, A_Suyo DEF A!PasosDeshacer
<1>3. CASE inciertas' = inciertas \cup {t} /\ UNCHANGED <<tenant, deshechas>>
  <2>1. inciertas' \subseteq Tenants
        BY <1>2, <1>3 DEF A_IInv, A!TypeOK
  <2> QED
        BY <1>1, <1>3, <2>1, A_Fin
<1>4. ASSUME tenant' = [tenant EXCEPT ![t] = [estado |-> "borrado", clave |-> Nada]],
             \/ petA[p].errores /\ inciertas' = inciertas \cup {t} /\ UNCHANGED deshechas
             \/ ~petA[p].errores /\ deshechas' = deshechas \cup {t} /\ UNCHANGED inciertas
      PROVE  A_IInv'
  <2>1. [estado |-> "borrado", clave |-> Nada] \in A!Documento
        BY DEF A!Documento
  <2>2. /\ petA' \in [Peticiones -> A!Peticion] /\ A_Otras(p)
        /\ petA'[p].t = Nada /\ petA'[p].t \notin Tenants /\ cruzadosA' = cruzadosA
        BY <1>1, A_Termina, ParametersAssumption DEF A_IInv, A!ConstantsOK
  <2>3. tenant' \in [Tenants -> A!Documento] /\ tenant'[t].estado = "borrado"
        BY <1>2, <1>4, <2>1 DEF A_IInv, A!TypeOK
  <2>4. inciertas' \subseteq Tenants /\ deshechas' \subseteq Tenants
        BY <1>2, <1>4 DEF A_IInv, A!TypeOK
  <2>5. A!TypeOK'
        BY <1>1, <2>2, <2>3, <2>4 DEF A_IInv, A!TypeOK
  <2>6. ASSUME NEW x \in Tenants, x # t PROVE A_Tenant(x)'
    <3>1. /\ tenant'[x] = tenant[x] /\ petA'[p].t # x
          /\ x \in deshechas' <=> x \in deshechas
          BY <1>2, <1>4, <2>2, <2>6 DEF A_IInv, A!TypeOK
    <3> QED
          BY <1>1, <2>2, <2>6, <3>1, A_Marco DEF A_IInv
  <2>7. \A q \in Peticiones : ~A_De(q, t)'
        BY <1>2, <2>2 DEF A_EnCurso, A_De, A_Otras
  <2>8. t \notin logradas' /\ (t \in deshechas' => ~petA[p].errores)
        BY <1>1, <1>2, <1>4 DEF A_EnCurso
  <2>9. t \in deshechas' /\ t \notin cruzadosA' =>
            /\ ~config'[t] /\ plantillas'[t] = {}
            /\ \A c \in Emails : usuarios'[c] # t
            /\ \A q \in Peticiones : petA'[q].t # t
        BY <1>1, <1>2, <2>2, <2>8 DEF A_Apartada, A_Otras
  <2>10. A_Tenant(t)'
        BY <2>3, <2>7, <2>8, <2>9 DEF A_Tenant, A_Virgen, A_EnCurso, A_Lograda, A_Deshecha
  <2> QED
        BY <2>5, <2>6, <2>10 DEF A_IInv
<1> QED
    BY <1>3, <1>4 DEF A!QuitaTenant

\* A failure of any step before the compensation
LEMMA A_Fallar ==
    ASSUME A_IInv, NEW p \in Peticiones,
           petA[p].pc \in A!PasosAlta \cup A!PasosAdmin \cup {"config", "plantilla"},
           A!Fallar(p),
           UNCHANGED <<tenant, config, plantillas, usuarios, logradas, deshechas, inciertas>>
    PROVE  A_IInv'
<1>1. petA[p] \in A!Peticion
    BY DEF A_IInv, A!TypeOK
<1>2. CASE petA[p].op = "alta"
  <2>1. A!Avanza(p, "quitaPlantillas") /\ petA[p].pc \in A!PasosAlta \cup A!PasosAdmin
        BY <1>1, <1>2, A_Fichas DEF A!Fallar
  <2>2. [petA[p] EXCEPT !.pc = "quitaPlantillas"] \in A!Peticion
        BY <1>1, <1>2, <2>1, A_Siguientes
  <2>3. PICK r \in A!Peticion : /\ A!Seguir(p, r) /\ r.pc = "quitaPlantillas"
                                /\ r.t = petA[p].t /\ r.op = petA[p].op
        BY <2>1, <2>2, A_Avance DEF A_IInv, A_PasosDeTenant, A!PasosDeshacer
  <2>4. petA[p].t \in Tenants
        BY <1>1, <2>1, A_Fichas DEF A_PasosDeTenant
  <2>5. "quitaPlantillas" \notin A!PasosAdmin
        BY DEF A!PasosAdmin
  <2> QED
        BY <2>1, <2>3, <2>4, <2>5, A_Lee
<1>3. CASE petA[p].op # "alta"
  <2>1. A!Terminar(p) /\ inciertas' \subseteq Tenants
        BY <1>3 DEF A!Fallar, A_IInv, A!TypeOK
  <2> QED
        BY <2>1, A_Fin
<1> QED
    BY <1>2, <1>3

\* The next step of the creation of an account
LEMMA A_Sigue2 ==
    ASSUME A_IInv, NEW p \in Peticiones, NEW x \in A!PasosAdmin,
           petA[p].pc \in A!PasosAdmin, A!Avanza(p, x),
           UNCHANGED <<tenant, config, plantillas, usuarios, logradas, deshechas, inciertas>>
    PROVE  A_IInv'
<1>1. petA[p] \in A!Peticion
    BY DEF A_IInv, A!TypeOK
<1>2. [petA[p] EXCEPT !.pc = x] \in A!Peticion
    BY <1>1, A_Siguientes
<1>3. PICK r \in A!Peticion : /\ A!Seguir(p, r) /\ r.pc = x
                              /\ r.t = petA[p].t /\ r.op = petA[p].op
    BY <1>2, A_Avance DEF A_IInv, A_PasosDeTenant
<1>4. petA[p].t \in Tenants
    BY <1>1, A_Fichas DEF A_PasosDeTenant
<1> QED
    BY <1>3, <1>4, A_Lee

LEMMA A_Lecturas ==
    ASSUME A_IInv, NEW p \in Peticiones, A!BuscaEmail(p) \/ A!BuscaTenant(p) \/ A!Falla(p)
    PROVE  A_IInv'
<1>1. UNCHANGED <<tenant, config, plantillas, usuarios, logradas, deshechas, inciertas>>
    BY DEF A!BuscaEmail, A!BuscaTenant, A!Falla, A!historia
<1>2. CASE A!Falla(p)
    BY <1>1, <1>2, A_Fallar DEF A!Falla
<1>3. CASE A!BuscaEmail(p)
    BY <1>1, <1>3, A_Fallar, A_Sigue2 DEF A!BuscaEmail, A!PasosAdmin
<1>4. CASE A!BuscaTenant(p)
    BY <1>1, <1>4, A_Fallar, A_Sigue2 DEF A!BuscaTenant, A!PasosAdmin
<1> QED
    BY <1>2, <1>3, <1>4

LEMMA A_Cae ==
    ASSUME A_IInv, NEW p \in Peticiones, A!Cae(p)
    PROVE  A_IInv'
<1>1. petA[p].t \in Tenants \cup {Nada}
    BY A_Fichas DEF A_IInv, A!TypeOK
<1>2. inciertas' \subseteq Tenants
    BY <1>1 DEF A!Cae, A_IInv, A!TypeOK
<1> QED
    BY <1>2, A_Fin DEF A!Cae

\* A request that comes in, or enters no tenant yet, and writes nothing
LEMMA A_Alta ==
    ASSUME A_IInv, NEW p \in Peticiones, NEW k \in Claves, NEW c \in Emails, A!Alta(p, k, c)
    PROVE  A_IInv'
<1> DEFINE r == [A!EnReposo("crea") EXCEPT !.op = "alta", !.clave = k, !.cuenta = c]
<1>1. r \in A!Peticion /\ r.t = Nada
    BY DEF A!EnReposo, A!Peticion
<1>2. A!Seguir(p, r) /\ petA[p].pc = "libre"
      /\ UNCHANGED <<tenant, config, plantillas, usuarios, logradas, deshechas, inciertas>>
    BY DEF A!Alta, A!historia
<1> HIDE DEF r
<1>3. /\ petA' \in [Peticiones -> A!Peticion] /\ A_Otras(p) /\ petA'[p].t = Nada
      /\ cruzadosA' \subseteq Tenants /\ cruzadosA \subseteq cruzadosA'
    BY <1>1, <1>2, A_Sigue DEF A_IInv
<1>4. petA[p].t = Nada /\ Nada \notin Tenants
    BY <1>2, A_Fichas, ParametersAssumption DEF A_IInv, A!TypeOK, A!ConstantsOK
<1>5. A!TypeOK'
    BY <1>2, <1>3 DEF A_IInv, A!TypeOK
<1>6. ASSUME NEW t \in Tenants PROVE A_Tenant(t)'
    BY <1>2, <1>3, <1>4, A_Marco DEF A_IInv
<1> QED
    BY <1>5, <1>6 DEF A_IInv

LEMMA A_Crea ==
    ASSUME A_IInv, NEW p \in Peticiones, A!CreaTenant(p)
    PROVE  A_IInv'
<1>1. petA[p].pc = "crea" /\ petA[p] \in A!Peticion /\ petA[p].op = "alta"
      /\ petA[p].clave \in Claves /\ petA[p].t = Nada /\ Nada \notin Tenants
      /\ UNCHANGED <<config, plantillas, usuarios, logradas, deshechas, inciertas>>
    BY A_Fichas, ParametersAssumption
    DEF A!CreaTenant, A!historia, A_IInv, A!TypeOK, A!ConstantsOK
<1>2. CASE A!Terminar(p) /\ UNCHANGED tenant
  <2>1. inciertas' \subseteq Tenants
        BY <1>1 DEF A_IInv, A!TypeOK
  <2> QED
        BY <1>1, <1>2, <2>1, A_Fin
<1>3. ASSUME NEW t \in Tenants, tenant[t].estado = "no",
             tenant' = [tenant EXCEPT ![t] = [estado |-> "inactivo", clave |-> petA[p].clave]],
             A!Seguir(p, [petA[p] EXCEPT !.pc = "configura", !.t = t])
      PROVE  A_IInv'
  <2> DEFINE r == [petA[p] EXCEPT !.pc = "configura", !.t = t]
  <2>1. r \in A!Peticion /\ r.pc = "configura" /\ r.t = t /\ r.op = "alta"
    <3>1. r \in A!Peticion
          BY <1>1, A_Siguientes
    <3> QED
          BY <1>1, <3>1 DEF A!Peticion
  <2>2. A!Seguir(p, r)
        BY <1>3
  <2> HIDE DEF r
  <2>3. /\ petA' \in [Peticiones -> A!Peticion] /\ A_Otras(p) /\ petA'[p] = r
        /\ cruzadosA' \subseteq Tenants /\ cruzadosA \subseteq cruzadosA'
        BY <2>1, <2>2, A_Sigue DEF A_IInv
  <2>4. [estado |-> "inactivo", clave |-> petA[p].clave] \in A!Documento
        BY <1>1 DEF A!Documento
  <2>5. /\ tenant' \in [Tenants -> A!Documento] /\ tenant'[t].estado = "inactivo"
        /\ \A x \in Tenants \ {t} : tenant'[x] = tenant[x]
        BY <1>3, <2>4 DEF A_IInv, A!TypeOK
  <2>6. A!TypeOK'
        BY <1>1, <2>3, <2>5 DEF A_IInv, A!TypeOK
  <2>7. ASSUME NEW x \in Tenants, x # t PROVE A_Tenant(x)'
        BY <1>1, <2>1, <2>3, <2>5, <2>7, A_Marco DEF A_IInv
  <2>8. /\ ~config[t] /\ plantillas[t] = {}
        /\ \A c \in Emails : usuarios[c] # t
        /\ \A q \in Peticiones : petA[q].t # t
        /\ t \notin logradas \cup deshechas
        BY <1>3 DEF A_IInv, A_Tenant, A_Virgen
  <2>9. \A q \in Peticiones : petA'[q].t = t => q = p
        BY <2>3, <2>8 DEF A_Otras
  <2>10. A_Apartada(p, t)'
        BY <1>1, <2>1, <2>3, <2>8, <2>9 DEF A_Apartada
  <2>11. A_EnCurso(t)'
        BY <1>1, <2>1, <2>3, <2>5, <2>8, <2>9, <2>10
        DEF A_EnCurso, A_De, A!Existe, A!PasosAdmin
  <2>12. A_Tenant(t)'
        BY <1>1, <2>5, <2>8, <2>11 DEF A_Tenant, A_Virgen, A_Lograda, A_Deshecha
  <2> QED
        BY <2>6, <2>7, <2>12 DEF A_IInv
<1> QED
    BY <1>2, <1>3 DEF A!CreaTenant

\* A request of another kind ends, having added to its tenant.
LEMMA A_Ajeno ==
    ASSUME A_IInv, NEW p \in Peticiones, NEW t \in Tenants, petA[p].t = t,
           petA[p].op # "alta", A!Terminar(p),
           UNCHANGED <<tenant, logradas, deshechas, inciertas>>,
           config' \in [Tenants -> BOOLEAN],
           plantillas' \in [Tenants -> SUBSET (Semillas \cup {Propia})],
           usuarios' \in [Emails -> Tenants \cup {Nada}],
           \A x \in Tenants \ {t} : /\ config'[x] = config[x] /\ plantillas'[x] = plantillas[x]
                                    /\ \A c \in Emails : usuarios'[c] = x <=> usuarios[c] = x,
           config[t] => config'[t], plantillas[t] \subseteq plantillas'[t],
           \A c \in Emails : usuarios[c] = t => usuarios'[c] = t
    PROVE  A_IInv'
<1>1. /\ petA' \in [Peticiones -> A!Peticion] /\ A_Otras(p)
      /\ petA'[p].t = Nada /\ petA'[p].t \notin Tenants /\ cruzadosA' = cruzadosA
    BY A_Termina, ParametersAssumption DEF A_IInv, A!ConstantsOK
<1>2. A!TypeOK'
    BY <1>1 DEF A_IInv, A!TypeOK
<1>3. ASSUME NEW x \in Tenants, x # t PROVE A_Tenant(x)'
    BY <1>1, <1>3, A_Marco DEF A_IInv
<1>4. A_Virgen(t)'
    BY DEF A_IInv, A_Tenant, A_Virgen
<1>5. ASSUME NEW q \in Peticiones, A_De(q, t)'
      PROVE  q # p /\ petA'[q] = petA[q] /\ A_De(q, t) /\ t \in cruzadosA
    BY <1>1, <1>5 DEF A_De, A_Otras, A_IInv, A_Tenant, A_EnCurso, A_Apartada
<1>6. A_EnCurso(t)'
    BY <1>1, <1>5 DEF A_IInv, A_Tenant, A_EnCurso, A_Apartada, A!Existe
<1>7. A_Lograda(t)' /\ A_Deshecha(t)'
    BY <1>1 DEF A_IInv, A_Tenant, A_Lograda, A_Deshecha, A!Existe
<1> QED
    BY <1>2, <1>3, <1>4, <1>6, <1>7 DEF A_IInv, A_Tenant

LEMMA A_LeeConfig ==
    ASSUME A_IInv, NEW p \in Peticiones, A!LeeConfig(p) \/ A!CreaPlantilla(p)
    PROVE  A_IInv'
<1>1. petA[p].pc \in {"config", "plantilla"} /\ A!Terminar(p)
      /\ UNCHANGED <<tenant, usuarios, logradas, deshechas, inciertas>>
    BY DEF A!LeeConfig, A!CreaPlantilla, A!historia
<1>2. petA[p].t \in Tenants /\ petA[p].op # "alta"
    BY <1>1, A_Fichas DEF A_IInv, A!TypeOK, A_PasosDeTenant
<1> PICK t \in Tenants : t = petA[p].t
    BY <1>2
<1>3. CASE A!LeeConfig(p)
  <2>1. config' = [config EXCEPT ![t] = TRUE] /\ UNCHANGED plantillas
        BY <1>3 DEF A!LeeConfig
  <2>2. /\ config' \in [Tenants -> BOOLEAN] /\ config'[t]
        /\ \A x \in Tenants \ {t} : config'[x] = config[x]
        BY <2>1 DEF A_IInv, A!TypeOK
  <2> QED
        BY <1>1, <1>2, <2>1, <2>2, A_Ajeno DEF A_IInv, A!TypeOK
<1>4. CASE A!CreaPlantilla(p)
  <2>1. plantillas' = [plantillas EXCEPT ![t] = @ \cup {Propia}] /\ UNCHANGED config
        BY <1>4 DEF A!CreaPlantilla
  <2>2. /\ plantillas' \in [Tenants -> SUBSET (Semillas \cup {Propia})]
        /\ plantillas[t] \subseteq plantillas'[t]
        /\ \A x \in Tenants \ {t} : plantillas'[x] = plantillas[x]
        BY <2>1 DEF A_IInv, A!TypeOK
  <2> QED
        BY <1>1, <1>2, <2>1, <2>2, A_Ajeno DEF A_IInv, A!TypeOK
<1> QED
    BY <1>3, <1>4

\* The last step: the first administrator of an onboarding, or an account that
\* another request creates.
LEMMA A_Inserta ==
    ASSUME A_IInv, NEW p \in Peticiones, A!InsertaUsuario(p)
    PROVE  A_IInv'
<1>1. petA[p].pc = "inserta" /\ UNCHANGED <<tenant, config, plantillas, deshechas, inciertas>>
    BY DEF A!InsertaUsuario
<1>2. petA[p].t \in Tenants /\ petA[p].cuenta \in Emails /\ petA[p].pc \in A!PasosAdmin
    BY <1>1, A_Fichas DEF A_IInv, A!TypeOK, A_PasosDeTenant, A!PasosAdmin
<1> PICK t \in Tenants : t = petA[p].t
    BY <1>2
<1> PICK c \in Emails : c = petA[p].cuenta
    BY <1>2
<1>3. CASE A!Fallar(p) /\ UNCHANGED <<usuarios, logradas>>
    BY <1>1, <1>2, <1>3, A_Fallar
<1>4. ASSUME usuarios[c] = Nada, usuarios' = [usuarios EXCEPT ![c] = t],
             logradas' = logradas \cup {x \in {t} : petA[p].op = "alta"}, A!Terminar(p)
      PROVE  A_IInv'
  <2>1. /\ usuarios' \in [Emails -> Tenants \cup {Nada}] /\ usuarios'[c] = t
        /\ \A x \in Tenants \ {t}, d \in Emails : usuarios'[d] = x <=> usuarios[d] = x
        /\ \A d \in Emails : usuarios[d] = t => usuarios'[d] = t
        BY <1>4, ParametersAssumption DEF A_IInv, A!TypeOK, A!ConstantsOK
  <2>2. CASE petA[p].op # "alta"
        BY <1>1, <1>4, <2>1, <2>2, A_Ajeno DEF A_IInv, A!TypeOK
  <2>3. CASE petA[p].op = "alta"
    <3>1. logradas' = logradas \cup {t}
          BY <1>4, <2>3
    <3>2. /\ petA' \in [Peticiones -> A!Peticion] /\ A_Otras(p)
          /\ petA'[p].t = Nada /\ petA'[p].t \notin Tenants /\ cruzadosA' = cruzadosA
          BY <1>4, A_Termina, ParametersAssumption DEF A_IInv, A!ConstantsOK
    <3>3. A!TypeOK'
          BY <1>1, <2>1, <3>1, <3>2 DEF A_IInv, A!TypeOK
    <3>4. ASSUME NEW x \in Tenants, x # t PROVE A_Tenant(x)'
      <4>1. x \in logradas' <=> x \in logradas
            BY <3>1, <3>4
      <4> QED
            BY <1>1, <2>1, <3>2, <3>4, <4>1, A_Marco DEF A_IInv
    <3>5. A_De(p, t) /\ A_EnCurso(t)
          BY <2>3 DEF A_De, A_IInv, A_Tenant
    <3>6. /\ A!Existe(t) /\ t \notin deshechas /\ config[t] /\ Semillas \subseteq plantillas[t]
          /\ \A q \in Peticiones : A_De(q, t) => q = p
          BY <1>2, <3>5 DEF A_EnCurso
    <3>7. \A q \in Peticiones : ~A_De(q, t)'
          BY <3>2, <3>6 DEF A_De, A_Otras
    <3>8. A_Tenant(t)'
          BY <1>1, <2>1, <3>6, <3>7
          DEF A_Tenant, A_Virgen, A_EnCurso, A_Lograda, A_Deshecha, A!Existe
    <3> QED
          BY <3>3, <3>4, <3>8 DEF A_IInv
  <2> QED
        BY <2>2, <2>3
<1> QED
    BY <1>3, <1>4 DEF A!InsertaUsuario

\* Somebody enters the tenant: if it was being onboarded, it is crossed from now on.
LEMMA A_Entra ==
    ASSUME A_IInv, NEW p \in Peticiones, NEW t \in Tenants, NEW c \in Emails,
           NEW pc \in {"config", "plantilla", "email"}, A!Entra(p, t, pc, c)
    PROVE  A_IInv'
<1> DEFINE r == [A!EnReposo(pc) EXCEPT !.op = "soporte", !.t = t, !.cuenta = c]
<1>1. r \in A!Peticion /\ r.t = t /\ r.op = "soporte"
    BY DEF A!EnReposo, A!Peticion, A!PasosAdmin
<1>2. A!Seguir(p, r) /\ petA[p].pc = "libre" /\ A!Existe(t)
      /\ UNCHANGED <<tenant, config, plantillas, usuarios, logradas, deshechas, inciertas>>
    BY DEF A!Entra, A!historia
<1> HIDE DEF r
<1>3. /\ petA' \in [Peticiones -> A!Peticion] /\ A_Otras(p) /\ petA'[p] = r
      /\ cruzadosA' \subseteq Tenants /\ cruzadosA \subseteq cruzadosA'
      /\ \A q \in Peticiones \ {p} : A_De(q, t) => t \in cruzadosA'
    BY <1>1, <1>2, A_Sigue DEF A_IInv, A_De
<1>4. petA[p].t = Nada /\ Nada \notin Tenants
    BY <1>2, A_Fichas, ParametersAssumption DEF A_IInv, A!TypeOK, A!ConstantsOK
<1>5. A!TypeOK'
    BY <1>2, <1>3 DEF A_IInv, A!TypeOK
<1>6. ASSUME NEW x \in Tenants, x # t PROVE A_Tenant(x)'
    BY <1>1, <1>2, <1>3, <1>4, <1>6, A_Marco DEF A_IInv
<1>7. A_Virgen(t)' /\ A_Lograda(t)' /\ A_Deshecha(t)'
    BY <1>2 DEF A_IInv, A_Tenant, A_Virgen, A_Lograda, A_Deshecha, A!Existe
<1>8. ASSUME NEW q \in Peticiones, A_De(q, t)'
      PROVE  q # p /\ petA'[q] = petA[q] /\ A_De(q, t) /\ t \in cruzadosA'
    BY <1>1, <1>3, <1>8 DEF A_De, A_Otras
<1>9. A_EnCurso(t)'
    BY <1>2, <1>8 DEF A_IInv, A_Tenant, A_EnCurso, A_Apartada, A!Existe
<1> QED
    BY <1>5, <1>6, <1>7, <1>9 DEF A_IInv, A_Tenant

\* The tenant is suspended or restored, in the middle of its onboarding or after it.
LEMMA A_CambiaActivo ==
    ASSUME A_IInv, NEW p \in Peticiones, NEW t \in Tenants,
           NEW estado \in {"inactivo", "activo"}, A!CambiaActivo(p, t, estado)
    PROVE  A_IInv'
<1>1. /\ petA[p].pc = "libre" /\ A!Existe(t)
      /\ tenant' = [tenant EXCEPT ![t] = [tenant[t] EXCEPT !.estado = estado]]
      /\ petA' = [petA EXCEPT ![p] = A!EnReposo("hecha")]
      /\ cruzadosA' = cruzadosA \cup {x \in {t} : \E q \in Peticiones : petA[q].t = x
                                                              /\ petA[q].op = "alta"}
      /\ UNCHANGED <<config, plantillas, usuarios, logradas, deshechas, inciertas>>
    BY DEF A!CambiaActivo, A!historia
<1>2. /\ petA' \in [Peticiones -> A!Peticion] /\ A_Otras(p) /\ petA'[p].t = Nada
      /\ cruzadosA' \subseteq Tenants /\ cruzadosA \subseteq cruzadosA'
  <2>1. A!EnReposo("hecha") \in A!Peticion /\ A!EnReposo("hecha").t = Nada
        BY DEF A!EnReposo, A!Peticion
  <2> QED
        BY <1>1, <2>1 DEF A_IInv, A!TypeOK, A_Otras
<1>3. petA[p].t = Nada /\ Nada \notin Tenants
    BY <1>1, A_Fichas, ParametersAssumption DEF A_IInv, A!TypeOK, A!ConstantsOK
<1>4. tenant' \in [Tenants -> A!Documento] /\ tenant'[t].estado = estado
  <2>1. tenant[t] \in A!Documento
        BY DEF A_IInv, A!TypeOK
  <2>2. /\ [tenant[t] EXCEPT !.estado = estado] \in A!Documento
        /\ [tenant[t] EXCEPT !.estado = estado].estado = estado
        BY <1>1, <2>1 DEF A!Existe, A!Documento
  <2> QED
        BY <1>1, <2>2 DEF A_IInv, A!TypeOK
<1>5. A!TypeOK'
    BY <1>1, <1>2, <1>4 DEF A_IInv, A!TypeOK
<1>6. ASSUME NEW x \in Tenants, x # t PROVE A_Tenant(x)'
  <2>1. tenant'[x] = tenant[x]
        BY <1>1, <1>6 DEF A_IInv, A!TypeOK
  <2> QED
        BY <1>1, <1>2, <1>3, <1>6, <2>1, A_Marco DEF A_IInv
<1>7. \A q \in Peticiones : petA'[q].t = t <=> petA[q].t = t
    BY <1>2, <1>3 DEF A_Otras
<1>8. ASSUME NEW q \in Peticiones, A_De(q, t)' \/ A_De(q, t)
      PROVE  q # p /\ petA'[q] = petA[q]
    BY <1>2, <1>3, <1>8 DEF A_De, A_Otras
<1>9. A_Virgen(t)' /\ A_Lograda(t)' /\ A_Deshecha(t)'
    BY <1>1, <1>4 DEF A_IInv, A_Tenant, A_Virgen, A_Lograda, A_Deshecha, A!Existe
<1>10. A_EnCurso(t)'
  <2>1. \A q \in Peticiones : A_De(q, t)' <=> A_De(q, t)
        BY <1>8 DEF A_De
  <2>2. ASSUME NEW q \in Peticiones, A_De(q, t), A_Apartada(q, t)
        PROVE  A_Apartada(q, t)'
        BY <1>1, <1>2, <1>7, <1>8, <2>2 DEF A_Apartada
  <2> QED
        BY <1>1, <1>4, <1>8, <2>1, <2>2 DEF A_IInv, A_Tenant, A_EnCurso, A!Existe
<1> QED
    BY <1>5, <1>6, <1>9, <1>10 DEF A_IInv, A_Tenant

LEMMA A_Inicio ==
    ASSUME A!Init
    PROVE  A_IInv
<1>1. [estado |-> "no", clave |-> Nada] \in A!Documento
    BY DEF A!Documento
<1>2. A!EnReposo("libre") \in A!Peticion /\ A!EnReposo("libre").t = Nada
    BY DEF A!EnReposo, A!Peticion
<1>3. A!TypeOK
    BY <1>1, <1>2 DEF A!Init, A!TypeOK
<1>4. ASSUME NEW t \in Tenants PROVE A_Tenant(t)
    BY <1>2, ParametersAssumption
    DEF A!Init, A!ConstantsOK, A_Tenant, A_Virgen, A_EnCurso, A_De, A_Lograda, A_Deshecha
<1> QED
    BY <1>3, <1>4 DEF A_IInv

LEMMA A_Paso ==
    ASSUME A_IInv, [A!Next]_varsA
    PROVE  A_IInv'
<1>1. CASE UNCHANGED varsA
    BY <1>1 DEF varsA, A_IInv, A!TypeOK, A_Tenant, A_Virgen, A_EnCurso, A_De, A_Apartada,
                A_Lograda, A_Deshecha, A!Existe
<1>2. ASSUME NEW p \in Peticiones,
             \/ \E k \in Claves, c \in Emails : A!Alta(p, k, c)
             \/ A!CreaTenant(p) \/ A!Configura(p) \/ A!Siembra(p) \/ A!Activa(p)
             \/ A!BuscaEmail(p) \/ A!BuscaTenant(p) \/ A!InsertaUsuario(p)
             \/ A!QuitaPlantillas(p) \/ A!QuitaConfig(p) \/ A!QuitaTenant(p)
             \/ A!Falla(p) \/ A!Cae(p)
             \/ \E t \in Tenants, c \in Emails, pc \in {"config", "plantilla", "email"} :
                    A!Entra(p, t, pc, c)
             \/ A!LeeConfig(p) \/ A!CreaPlantilla(p)
             \/ \E t \in Tenants, estado \in {"inactivo", "activo"} :
                    A!CambiaActivo(p, t, estado)
      PROVE  A_IInv'
    BY <1>2, A_Alta, A_Crea, A_Configura, A_Siembra, A_Activa, A_Lecturas, A_Inserta,
       A_QuitaPlantillas, A_QuitaConfig, A_QuitaTenant, A_Cae, A_Entra, A_LeeConfig,
       A_CambiaActivo
<1> QED
    BY <1>1, <1>2 DEF A!Next

-----------------------------------------------------------------------------
(* Envio and Configuracion: requests *)

C_Pasos == {"libre", "hecha", "correo", "guarda", "registra", "desregistra", "borra", "vacia",
          "desregistraVacio"}

C_PasosLogo == C_Pasos \ {"libre", "hecha", "correo"}

LEMMA C_Fichas ==
    ASSUME NEW r \in C!Peticion
    PROVE  /\ r.pc \in C_Pasos
           /\ C!DeLogo(r) <=> r.pc \in C_PasosLogo
           /\ r.pc = "correo" =>
                    r \in [pc : {"correo"}, usuario : Buzones \cup {Omitido, Nada},
                           secreto : Buzones \cup {Omitido}]
           /\ r.pc \in {"guarda", "registra"} =>
                    r \in [pc : {"guarda", "registra"}, ranura : Ranuras, formato : Formatos]
           /\ r.pc \in {"desregistra", "borra"} =>
                    r \in [pc : {"desregistra", "borra"}, ranura : Ranuras]
           /\ r.pc \in {"vacia", "desregistraVacio"} =>
                    r \in [pc : {"vacia", "desregistraVacio"}, ranura : {Banco}]
BY DEF C!Peticion, C_Pasos, C_PasosLogo, C!DeLogo

LEMMA C_Ranurados ==
    ASSUME C!ConstantsOK, NEW r \in C!Peticion, r.pc \in C_PasosLogo
    PROVE  r.ranura \in Ranuras
<1>1. r.pc \in {"guarda", "registra"} \/ r.pc \in {"desregistra", "borra"}
      \/ r.pc \in {"vacia", "desregistraVacio"}
    BY DEF C_PasosLogo, C_Pasos
<1> QED
    BY <1>1, C_Fichas DEF C!ConstantsOK

C_Otras(p) == \A q \in Ajustes \ {p} : petC'[q] = petC[q]

-----------------------------------------------------------------------------
(* Configuracion: the mail account *)

\* The pair a change would write now.
C_UsuarioTras(r) == IF r.usuario = Omitido THEN usuario ELSE r.usuario
C_SecretoTras(r) == IF r.secreto = Omitido THEN secreto ELSE r.secreto

\* Unless two of them crossed, one change of the account is in flight and what it
\* would write is coherent.
C_Cuenta ==
    ~cruzada =>
        /\ secreto # Nada => usuario = secreto
        /\ \A p, q \in Ajustes : petC[p].pc = "correo" /\ petC[q].pc = "correo" => p = q
        /\ \A p \in Ajustes :
            petC[p].pc = "correo" /\ C_SecretoTras(petC[p]) # Nada
                => C_UsuarioTras(petC[p]) = C_SecretoTras(petC[p])

-----------------------------------------------------------------------------
(* Configuracion: the logos *)

C_Servida(x) == archivosC[x] = {url[x]} \ {Nada}

\* What is left of a logo by the steps of its change.
C_Etapa(r, x) ==
    CASE r.pc = "registra" -> archivosC[x] = {r.formato}
      [] r.pc = "borra" -> url[x] = Nada
      [] r.pc = "desregistraVacio" -> archivosC[x] = {}
      [] OTHER -> C_Servida(x)

C_De(p, x) == C!DeLogo(petC[p]) /\ petC[p].ranura = x

C_Logo(x) ==
    x \notin sueltas =>
        /\ \A p, q \in Ajustes : C_De(p, x) /\ C_De(q, x) => p = q
        /\ \A p \in Ajustes : C_De(p, x) => C_Etapa(petC[p], x)
        /\ (\A p \in Ajustes : ~C_De(p, x)) => C_Servida(x)

C_Conf == C!TypeOK /\ C_Cuenta /\ \A x \in Ranuras : C_Logo(x)

-----------------------------------------------------------------------------
(* Configuracion: steps *)

\* Where a request goes on.
LEMMA C_Sigue ==
    ASSUME C!ConstantsOK, C!TypeOK, NEW p \in Ajustes, NEW r \in C!Peticion, C!Seguir(p, r)
    PROVE  /\ petC' \in [Ajustes -> C!Peticion] /\ C_Otras(p) /\ petC'[p] = r
           /\ cruzada' \in BOOLEAN /\ sueltas' \subseteq Ranuras /\ sueltas \subseteq sueltas'
           /\ ~cruzada' => /\ ~cruzada
                           /\ r.pc = "correo" =>
                                \A q \in Ajustes \ {p} : petC[q].pc # "correo"
           /\ \A x \in Ranuras \ sueltas' :
                C!DeLogo(r) /\ r.ranura = x => \A q \in Ajustes \ {p} : ~C_De(q, x)
<1>1. petC' \in [Ajustes -> C!Peticion] /\ C_Otras(p) /\ petC'[p] = r
    BY DEF C!Seguir, C!TypeOK, C_Otras
<1>2. cruzada' = (cruzada \/ (r.pc = "correo"
                             /\ \E q \in Ajustes \ {p} : petC[q].pc = "correo"))
    BY DEF C!Seguir
<1>3. sueltas' = sueltas \cup {x \in Ranuras : C!DeLogo(r) /\ r.ranura = x /\ C!Otra(p, x)}
    BY DEF C!Seguir
<1>4. cruzada' \in BOOLEAN
    BY <1>2
<1>5. sueltas' \subseteq Ranuras /\ sueltas \subseteq sueltas'
    BY <1>3 DEF C!TypeOK
<1>6. ASSUME NEW x \in Ranuras \ sueltas', C!DeLogo(r), r.ranura = x
      PROVE  \A q \in Ajustes \ {p} : ~C_De(q, x)
    BY <1>3, <1>6 DEF C!Otra, C_De
<1> QED
    BY <1>1, <1>2, <1>4, <1>5, <1>6

LEMMA C_Termina ==
    ASSUME C!ConstantsOK, C!TypeOK, NEW p \in Ajustes, NEW x \in Ranuras \cup {Nada},
           C!Terminar(p, x)
    PROVE  /\ petC' \in [Ajustes -> C!Peticion] /\ C_Otras(p)
           /\ petC'[p] = [pc |-> "hecha"] /\ petC'[p].pc = "hecha"
           /\ ~C!DeLogo(petC'[p]) /\ cruzada' = cruzada
           /\ sueltas' \subseteq Ranuras /\ sueltas \subseteq sueltas'
           /\ x # Nada => x \in sueltas'
<1>1. [pc |-> "hecha"] \in C!Peticion /\ ~C!DeLogo([pc |-> "hecha"])
    BY DEF C!Peticion, C!DeLogo
<1> QED
    BY <1>1 DEF C!Terminar, C!TypeOK, C_Otras

\* A step that leaves the account as it is, and no request of it begins.
LEMMA C_CuentaIgual ==
    ASSUME C_Cuenta, NEW p \in Ajustes, C_Otras(p), petC'[p].pc # "correo",
           UNCHANGED <<usuario, secreto>>, ~cruzada' => ~cruzada
    PROVE  C_Cuenta'
BY DEF C_Cuenta, C_Otras, C_UsuarioTras, C_SecretoTras

\* A step of one logo leaves the others as they are.
LEMMA C_LogosIguales ==
    ASSUME NEW p \in Ajustes, C_Otras(p), NEW x \in Ranuras, C_Logo(x),
           ~C_De(p, x), ~C_De(p, x)', sueltas \subseteq sueltas',
           archivosC'[x] = archivosC[x], url'[x] = url[x]
    PROVE  C_Logo(x)'
<1>1. \A q \in Ajustes : C_De(q, x)' <=> C_De(q, x)
    BY DEF C_Otras, C_De
<1>2. \A q \in Ajustes : C_De(q, x) => petC'[q] = petC[q]
    BY DEF C_Otras
<1> QED
    BY <1>1, <1>2 DEF C_Logo, C_Etapa, C_Servida

\* One that goes on with a logo: no other was changing it.
LEMMA C_LogoSigue ==
    ASSUME C!TypeOK, NEW p \in Ajustes, C_Otras(p), NEW x \in Ranuras, C_Logo(x),
           C_De(p, x)', sueltas \subseteq sueltas',
           x \notin sueltas' => \A q \in Ajustes \ {p} : ~C_De(q, x),
           x \notin sueltas' => C_Etapa(petC[p], x)'
    PROVE  C_Logo(x)'
<1>1. \A q \in Ajustes \ {p} : C_De(q, x)' <=> C_De(q, x)
    BY DEF C_Otras, C_De
<1> QED
    BY <1>1 DEF C_Logo

\* One that ends the change of a logo.
LEMMA C_LogoTermina ==
    ASSUME C!TypeOK, NEW p \in Ajustes, C_Otras(p), NEW x \in Ranuras, C_Logo(x),
           C_De(p, x), ~C_De(p, x)', sueltas \subseteq sueltas',
           x \notin sueltas' => C_Servida(x)'
    PROVE  C_Logo(x)'
<1>1. \A q \in Ajustes \ {p} : C_De(q, x)' <=> C_De(q, x)
    BY DEF C_Otras, C_De
<1> QED
    BY <1>1 DEF C_Logo

LEMMA C_Correos ==
    ASSUME C!ConstantsOK, C_Conf, NEW p \in Ajustes,
           \/ \E u \in Buzones \cup {Omitido, Nada}, b \in BOOLEAN : C!EditarCorreo(p, u, b)
           \/ C!EscribeCorreo(p)
    PROVE  C_Conf'
<1> USE DEF C_Conf
<1>1. ASSUME NEW u \in Buzones \cup {Omitido, Nada}, NEW b \in BOOLEAN, C!EditarCorreo(p, u, b)
      PROVE  C_Conf'
  <2> DEFINE s == IF ~b THEN Omitido ELSE IF u = Omitido THEN usuario ELSE u
             r == [pc |-> "correo", usuario |-> u, secreto |-> s]
  <2>1. /\ petC[p].pc = "libre" /\ C!CambioValido(u, b) /\ C!Seguir(p, r)
        /\ UNCHANGED <<usuario, secreto, url, archivosC>>
        BY <1>1 DEF C!EditarCorreo, C!correo
  <2>2. s \in Buzones \cup {Omitido}
        BY <2>1 DEF C!CambioValido, C!TypeOK
  <2>3. /\ r \in C!Peticion /\ r.pc = "correo" /\ r.usuario = u /\ r.secreto = s /\ ~C!DeLogo(r)
        BY <2>2 DEF C!Peticion, C!DeLogo
  <2> HIDE DEF r
  <2>4. /\ petC' \in [Ajustes -> C!Peticion] /\ C_Otras(p) /\ petC'[p] = r
        /\ cruzada' \in BOOLEAN /\ sueltas' \subseteq Ranuras /\ sueltas \subseteq sueltas'
        /\ ~cruzada' => ~cruzada /\ \A q \in Ajustes \ {p} : petC[q].pc # "correo"
        BY <2>1, <2>3, C_Sigue
  <2>5. C!TypeOK'
        BY <2>1, <2>4 DEF C!TypeOK
  <2>6. C_Cuenta'
    <3>1. ASSUME ~cruzada', C_SecretoTras(r) # Nada PROVE C_UsuarioTras(r) = C_SecretoTras(r)
      <4>1. secreto # Nada => usuario = secreto
            BY <2>4, <3>1 DEF C_Cuenta
      <4> QED
            BY <2>1, <2>3, <3>1, <4>1 DEF C_UsuarioTras, C_SecretoTras, C!CambioValido, C!ConstantsOK
    <3>2. \A q \in Ajustes \ {p} : ~cruzada' => petC'[q].pc # "correo"
          BY <2>4 DEF C_Otras
    <3> QED
          BY <2>1, <2>4, <3>1, <3>2 DEF C_Cuenta, C_UsuarioTras, C_SecretoTras
  <2>7. \A x \in Ranuras : ~C_De(p, x) /\ ~C_De(p, x)'
        BY <2>1, <2>3, <2>4 DEF C_De, C!DeLogo
  <2>8. \A x \in Ranuras : C_Logo(x)'
        BY <2>1, <2>4, <2>7, C_LogosIguales
  <2> QED
        BY <2>5, <2>6, <2>8
<1>2. ASSUME C!EscribeCorreo(p) PROVE C_Conf'
  <2>1. /\ petC[p].pc = "correo" /\ usuario' = C_UsuarioTras(petC[p])
        /\ secreto' = C_SecretoTras(petC[p]) /\ C!Terminar(p, Nada)
        /\ UNCHANGED <<url, archivosC>>
        BY <1>2 DEF C!EscribeCorreo, C_UsuarioTras, C_SecretoTras
  <2>2. /\ petC' \in [Ajustes -> C!Peticion] /\ C_Otras(p) /\ petC'[p].pc = "hecha"
        /\ ~C!DeLogo(petC'[p]) /\ cruzada' = cruzada
        /\ sueltas' \subseteq Ranuras /\ sueltas \subseteq sueltas'
        BY <2>1, C_Termina
  <2>3. petC[p].usuario \in Buzones \cup {Omitido, Nada}
        /\ petC[p].secreto \in Buzones \cup {Omitido}
        BY <2>1, C_Fichas DEF C!TypeOK
  <2>4. C!TypeOK'
        BY <2>1, <2>2, <2>3 DEF C!TypeOK, C_UsuarioTras, C_SecretoTras
  <2>5. C_Cuenta'
    <3>1. ~cruzada => \A q \in Ajustes : petC'[q].pc # "correo"
          BY <2>1, <2>2 DEF C_Cuenta, C_Otras
    <3> QED
          BY <2>1, <2>2, <3>1 DEF C_Cuenta
  <2>6. \A x \in Ranuras : ~C_De(p, x) /\ ~C_De(p, x)'
        BY <2>1, <2>2 DEF C_De, C!DeLogo
  <2>7. \A x \in Ranuras : C_Logo(x)'
        BY <2>1, <2>2, <2>6, C_LogosIguales
  <2> QED
        BY <2>4, <2>5, <2>7
<1> QED
    BY <1>1, <1>2

\* A change of a logo that begins.
LEMMA C_LogosEmpiezan ==
    ASSUME C!ConstantsOK, C_Conf, NEW p \in Ajustes, petC[p].pc = "libre",
           NEW r \in C!Peticion, r.pc \in {"guarda", "desregistra", "vacia"}, C!Seguir(p, r),
           UNCHANGED <<C!correo, url, archivosC>>
    PROVE  C_Conf'
<1> USE DEF C_Conf
<1>1. /\ petC' \in [Ajustes -> C!Peticion] /\ C_Otras(p) /\ petC'[p] = r
      /\ cruzada' \in BOOLEAN /\ sueltas' \subseteq Ranuras /\ sueltas \subseteq sueltas'
      /\ ~cruzada' => ~cruzada
      /\ \A x \in Ranuras \ sueltas' :
            C!DeLogo(r) /\ r.ranura = x => \A q \in Ajustes \ {p} : ~C_De(q, x)
    BY C_Sigue
<1>2. C!DeLogo(r) /\ r.ranura \in Ranuras
    BY C_Fichas, C_Ranurados DEF C_PasosLogo, C_Pasos
<1>3. C!TypeOK'
    BY <1>1 DEF C!TypeOK, C!correo
<1>4. C_Cuenta'
    BY <1>1, C_CuentaIgual DEF C!correo
<1>5. \A x \in Ranuras : ~C_De(p, x)
    BY DEF C_De, C!DeLogo
<1>6. ASSUME NEW x \in Ranuras, x # r.ranura PROVE C_Logo(x)'
    BY <1>1, <1>5, <1>6, C_LogosIguales DEF C_De
<1>7. ASSUME NEW x \in Ranuras, x = r.ranura PROVE C_Logo(x)'
  <2>1. x \notin sueltas' => \A q \in Ajustes \ {p} : ~C_De(q, x)
        BY <1>1, <1>2, <1>7
  <2>2. x \notin sueltas' => C_Servida(x)
        BY <1>1, <1>5, <2>1 DEF C_Logo
  <2>3. C_Servida(x) => C_Etapa(petC[p], x)'
        BY <1>1 DEF C_Etapa, C_Servida
  <2>4. C_De(p, x)'
        BY <1>1, <1>2, <1>7 DEF C_De
  <2> QED
        BY <1>1, <2>1, <2>2, <2>3, <2>4, C_LogoSigue
<1> QED
    BY <1>3, <1>4, <1>6, <1>7

\* One that goes on to its next step, with what that step is to find.
LEMMA C_LogosSiguen ==
    ASSUME C!ConstantsOK, C_Conf, NEW p \in Ajustes, NEW r \in C!Peticion, C!Seguir(p, r),
           petC[p].pc \in C_PasosLogo, r.pc \in {"registra", "borra", "desregistraVacio"},
           r.ranura = petC[p].ranura, UNCHANGED C!correo,
           url' \in [Ranuras -> Formatos \cup {Nada}],
           archivosC' \in [Ranuras -> SUBSET Formatos],
           \A x \in Ranuras \ {r.ranura} : archivosC'[x] = archivosC[x] /\ url'[x] = url[x],
           r.pc = "registra" => archivosC'[r.ranura] = {r.formato},
           r.pc = "borra" => url'[r.ranura] = Nada,
           r.pc = "desregistraVacio" => archivosC'[r.ranura] = {}
    PROVE  C_Conf'
<1> USE DEF C_Conf
<1>1. /\ petC' \in [Ajustes -> C!Peticion] /\ C_Otras(p) /\ petC'[p] = r
      /\ cruzada' \in BOOLEAN /\ sueltas' \subseteq Ranuras /\ sueltas \subseteq sueltas'
      /\ ~cruzada' => ~cruzada
      /\ \A x \in Ranuras \ sueltas' :
            C!DeLogo(r) /\ r.ranura = x => \A q \in Ajustes \ {p} : ~C_De(q, x)
    BY C_Sigue
<1>2. C!DeLogo(r) /\ C!DeLogo(petC[p])
    BY C_Fichas DEF C!TypeOK, C_PasosLogo, C_Pasos
<1>3. C!TypeOK'
    BY <1>1 DEF C!TypeOK, C!correo
<1>4. C_Cuenta'
    BY <1>1, C_CuentaIgual DEF C!correo
<1>5. ASSUME NEW x \in Ranuras, x # r.ranura PROVE C_Logo(x)'
    BY <1>1, <1>5, C_LogosIguales DEF C_De
<1>6. ASSUME NEW x \in Ranuras, x = r.ranura PROVE C_Logo(x)'
  <2>1. C_De(p, x)'
        BY <1>1, <1>2, <1>6 DEF C_De
  <2>2. C_Etapa(petC[p], x)'
        BY <1>1, <1>6 DEF C_Etapa
  <2> QED
        BY <1>1, <1>2, <1>6, <2>1, <2>2, C_LogoSigue
<1> QED
    BY <1>3, <1>4, <1>5, <1>6

\* One that ends, with the logo in order or noted as loose.
LEMMA C_LogosTerminan ==
    ASSUME C!ConstantsOK, C_Conf, NEW p \in Ajustes, NEW y \in Ranuras \cup {Nada},
           NEW z \in Ranuras, z = petC[p].ranura,
           C!Terminar(p, y), petC[p].pc \in C_PasosLogo, UNCHANGED C!correo,
           url' \in [Ranuras -> Formatos \cup {Nada}],
           archivosC' \in [Ranuras -> SUBSET Formatos],
           \A x \in Ranuras \ {z} : archivosC'[x] = archivosC[x] /\ url'[x] = url[x],
           y = z \/ (z \notin sueltas => C_Servida(z)')
    PROVE  C_Conf'
<1> USE DEF C_Conf
<1>1. /\ petC' \in [Ajustes -> C!Peticion] /\ C_Otras(p) /\ petC'[p].pc = "hecha"
      /\ ~C!DeLogo(petC'[p]) /\ cruzada' = cruzada
      /\ sueltas' \subseteq Ranuras /\ sueltas \subseteq sueltas'
      /\ y # Nada => y \in sueltas'
    BY C_Termina
<1>2. C!DeLogo(petC[p]) /\ petC[p].ranura \in Ranuras
    BY C_Fichas, C_Ranurados DEF C!TypeOK
<1>3. C!TypeOK'
    BY <1>1 DEF C!TypeOK, C!correo
<1>4. C_Cuenta'
    BY <1>1, C_CuentaIgual DEF C!correo
<1>5. \A x \in Ranuras : ~C_De(p, x)'
    BY <1>1 DEF C_De
<1>6. ASSUME NEW x \in Ranuras, x # z PROVE C_Logo(x)'
    BY <1>1, <1>5, <1>6, C_LogosIguales DEF C_De
<1>7. ASSUME NEW x \in Ranuras, x = z PROVE C_Logo(x)'
  <2>1. x # Nada
        BY DEF C!ConstantsOK
  <2>2. x \notin sueltas' => C_Servida(x)'
        BY <1>1, <1>7, <2>1
  <2>3. C_De(p, x)
        BY <1>2, <1>7 DEF C_De
  <2> QED
        BY <1>1, <1>5, <2>2, <2>3, C_LogoTermina
<1> QED
    BY <1>3, <1>4, <1>6, <1>7

LEMMA C_Logos ==
    ASSUME C!ConstantsOK, C_Conf, NEW p \in Ajustes,
           \/ \E r \in Ranuras, f \in Formatos : C!SubirLogo(p, r, f)
           \/ \E r \in Ranuras : C!QuitarLogo(p, r)
           \/ C!VaciarBancarios(p) \/ C!GuardaLogo(p) \/ C!DesregistraLogo(p) \/ C!VaciaArchivos(p)
    PROVE  C_Conf'
<1> DEFINE z == petC[p].ranura
<1>1. ASSUME NEW r \in Ranuras, NEW f \in Formatos, C!SubirLogo(p, r, f) PROVE C_Conf'
  <2>1. [pc |-> "guarda", ranura |-> r, formato |-> f] \in C!Peticion
        BY DEF C!Peticion
  <2> QED
        BY <1>1, <2>1, C_LogosEmpiezan DEF C!SubirLogo
<1>2. ASSUME NEW r \in Ranuras, C!QuitarLogo(p, r) PROVE C_Conf'
  <2>1. [pc |-> "desregistra", ranura |-> r] \in C!Peticion
        BY DEF C!Peticion
  <2> QED
        BY <1>2, <2>1, C_LogosEmpiezan DEF C!QuitarLogo
<1>3. ASSUME C!VaciarBancarios(p) PROVE C_Conf'
  <2>1. [pc |-> "vacia", ranura |-> Banco] \in C!Peticion
        BY DEF C!Peticion
  <2> QED
        BY <1>3, <2>1, C_LogosEmpiezan DEF C!VaciarBancarios
<1>4. ASSUME C!GuardaLogo(p) PROVE C_Conf'
  <2> DEFINE r == [petC[p] EXCEPT !.pc = "registra"]
  <2>1. /\ petC[p].pc = "guarda" /\ C!Seguir(p, r) /\ UNCHANGED <<C!correo, url>>
        /\ archivosC' = [archivosC EXCEPT ![z] = {petC[p].formato}]
        BY <1>4 DEF C!GuardaLogo
  <2>2. petC[p] \in [pc : {"guarda", "registra"}, ranura : Ranuras, formato : Formatos]
        BY <2>1, C_Fichas DEF C_Conf, C!TypeOK
  <2>3. /\ r \in [pc : {"guarda", "registra"}, ranura : Ranuras, formato : Formatos]
        /\ r.pc = "registra" /\ r.ranura = z /\ r.formato = petC[p].formato
        BY <2>2
  <2>4. r \in C!Peticion
        BY <2>3 DEF C!Peticion
  <2>5. /\ archivosC' \in [Ranuras -> SUBSET Formatos] /\ archivosC'[z] = {petC[p].formato}
        /\ \A x \in Ranuras \ {z} : archivosC'[x] = archivosC[x]
        BY <2>1, <2>2 DEF C_Conf, C!TypeOK
  <2> HIDE DEF r
  <2> QED
        BY <2>1, <2>3, <2>4, <2>5, C_LogosSiguen DEF C_Conf, C!TypeOK, C_PasosLogo, C_Pasos
<1>5. ASSUME C!DesregistraLogo(p) PROVE C_Conf'
  <2> DEFINE r == [petC[p] EXCEPT !.pc = "borra"]
  <2>1. /\ petC[p].pc = "desregistra" /\ C!Seguir(p, r) /\ UNCHANGED <<C!correo, archivosC>>
        /\ url' = [url EXCEPT ![z] = Nada]
        BY <1>5 DEF C!DesregistraLogo
  <2>2. petC[p] \in [pc : {"desregistra", "borra"}, ranura : Ranuras]
        BY <2>1, C_Fichas DEF C_Conf, C!TypeOK
  <2>3. /\ r \in [pc : {"desregistra", "borra"}, ranura : Ranuras]
        /\ r.pc = "borra" /\ r.ranura = z
        BY <2>2
  <2>4. r \in C!Peticion
        BY <2>3 DEF C!Peticion
  <2>5. /\ url' \in [Ranuras -> Formatos \cup {Nada}] /\ url'[z] = Nada
        /\ \A x \in Ranuras \ {z} : url'[x] = url[x]
        BY <2>1, <2>2 DEF C_Conf, C!TypeOK
  <2> HIDE DEF r
  <2> QED
        BY <2>1, <2>3, <2>4, <2>5, C_LogosSiguen DEF C_Conf, C!TypeOK, C_PasosLogo, C_Pasos
<1>6. ASSUME C!VaciaArchivos(p) PROVE C_Conf'
  <2> DEFINE r == [petC[p] EXCEPT !.pc = "desregistraVacio"]
  <2>1. /\ petC[p].pc = "vacia" /\ C!Seguir(p, r) /\ UNCHANGED <<C!correo, url>>
        /\ archivosC' = [archivosC EXCEPT ![Banco] = {}]
        BY <1>6 DEF C!VaciaArchivos
  <2>2. petC[p] \in [pc : {"vacia", "desregistraVacio"}, ranura : {Banco}]
        BY <2>1, C_Fichas DEF C_Conf, C!TypeOK
  <2>3. /\ r \in [pc : {"vacia", "desregistraVacio"}, ranura : {Banco}]
        /\ r.pc = "desregistraVacio" /\ r.ranura = z /\ z = Banco
        BY <2>2
  <2>4. r \in C!Peticion
        BY <2>3 DEF C!Peticion
  <2>5. /\ archivosC' \in [Ranuras -> SUBSET Formatos] /\ archivosC'[z] = {}
        /\ \A x \in Ranuras \ {z} : archivosC'[x] = archivosC[x]
        BY <2>1, <2>3 DEF C_Conf, C!TypeOK, C!ConstantsOK
  <2> HIDE DEF r
  <2> QED
        BY <2>1, <2>3, <2>4, <2>5, C_LogosSiguen DEF C_Conf, C!TypeOK, C_PasosLogo, C_Pasos
<1> QED
    BY <1>1, <1>2, <1>3, <1>4, <1>5, <1>6

\* What a step of a logo finds, unless the logo is loose.
LEMMA C_Hallazgos ==
    ASSUME C_Conf, NEW p \in Ajustes, petC[p].pc \in C_PasosLogo, petC[p].ranura \in Ranuras,
           petC[p].ranura \notin sueltas
    PROVE  C_Etapa(petC[p], petC[p].ranura)
BY C_Fichas DEF C_Conf, C!TypeOK, C_Logo, C_De

LEMMA C_Finales ==
    ASSUME C!ConstantsOK, C_Conf, NEW p \in Ajustes,
           C!RegistraLogo(p) \/ C!BorraLogo(p) \/ C!VaciaDatos(p) \/ C!Cae(p)
    PROVE  C_Conf'
<1> DEFINE z == petC[p].ranura
<1> USE DEF C_PasosLogo, C_Pasos
<1>1. ASSUME C!RegistraLogo(p) PROVE C_Conf'
  <2>1. petC[p].pc = "registra" /\ UNCHANGED C!correo
        BY <1>1 DEF C!RegistraLogo
  <2>2. petC[p] \in [pc : {"guarda", "registra"}, ranura : Ranuras, formato : Formatos]
        BY <2>1, C_Fichas DEF C_Conf, C!TypeOK
  <2>3. CASE /\ url' = [url EXCEPT ![z] = petC[p].formato] /\ C!Terminar(p, Nada)
             /\ UNCHANGED archivosC
    <3>1. /\ url' \in [Ranuras -> Formatos \cup {Nada}]
          /\ url'[z] = petC[p].formato /\ petC[p].formato # Nada
          /\ \A x \in Ranuras \ {z} : url'[x] = url[x]
          BY <2>2, <2>3 DEF C_Conf, C!TypeOK, C!ConstantsOK
    <3>2. z \notin sueltas => archivosC[z] = {petC[p].formato}
          BY <2>1, <2>2, C_Hallazgos DEF C_Etapa
    <3>3. PICK y \in Ranuras : y = z
          BY <2>2
    <3>4. y \notin sueltas => archivosC'[y] = {url'[y]} \ {Nada}
          BY <2>3, <3>1, <3>2, <3>3
    <3> QED
          BY <2>1, <2>3, <3>1, <3>3, <3>4, C_LogosTerminan DEF C_Conf, C!TypeOK, C_Servida
  <2>4. CASE /\ archivosC' = [archivosC EXCEPT ![z] = @ \ {petC[p].formato}] /\ C!Terminar(p, z)
             /\ UNCHANGED url
    <3>1. /\ archivosC' \in [Ranuras -> SUBSET Formatos]
          /\ \A x \in Ranuras \ {z} : archivosC'[x] = archivosC[x]
          BY <2>2, <2>4 DEF C_Conf, C!TypeOK
    <3>2. PICK y \in Ranuras : y = z
          BY <2>2
    <3> QED
          BY <2>1, <2>4, <3>1, <3>2, C_LogosTerminan DEF C_Conf, C!TypeOK
  <2> QED
        BY <1>1, <2>3, <2>4 DEF C!RegistraLogo
<1>2. ASSUME C!BorraLogo(p) PROVE C_Conf'
  <2>1. /\ petC[p].pc = "borra" /\ archivosC' = [archivosC EXCEPT ![z] = {}]
        /\ C!Terminar(p, Nada) /\ UNCHANGED <<C!correo, url>>
        BY <1>2 DEF C!BorraLogo
  <2>2. petC[p] \in [pc : {"desregistra", "borra"}, ranura : Ranuras]
        BY <2>1, C_Fichas DEF C_Conf, C!TypeOK
  <2>3. z \notin sueltas => url[z] = Nada
        BY <2>1, <2>2, C_Hallazgos DEF C_Etapa
  <2>4. /\ archivosC' \in [Ranuras -> SUBSET Formatos] /\ archivosC'[z] = {}
        /\ \A x \in Ranuras \ {z} : archivosC'[x] = archivosC[x]
        BY <2>1, <2>2 DEF C_Conf, C!TypeOK
  <2>5. PICK y \in Ranuras : y = z
        BY <2>2
  <2>6. y \notin sueltas => archivosC'[y] = {url'[y]} \ {Nada}
        BY <2>1, <2>3, <2>4, <2>5
  <2> QED
        BY <2>1, <2>4, <2>5, <2>6, C_LogosTerminan DEF C_Conf, C!TypeOK, C_Servida
<1>3. ASSUME C!VaciaDatos(p) PROVE C_Conf'
  <2>1. /\ petC[p].pc = "desregistraVacio" /\ url' = [url EXCEPT ![Banco] = Nada]
        /\ C!Terminar(p, Nada) /\ UNCHANGED <<C!correo, archivosC>>
        BY <1>3 DEF C!VaciaDatos
  <2>2. petC[p] \in [pc : {"vacia", "desregistraVacio"}, ranura : {Banco}]
        BY <2>1, C_Fichas DEF C_Conf, C!TypeOK
  <2>3. z = Banco /\ Banco \in Ranuras
        BY <2>2 DEF C!ConstantsOK
  <2>4. z \notin sueltas => archivosC[z] = {}
        BY <2>1, <2>3, C_Hallazgos DEF C_Etapa
  <2>5. /\ url' \in [Ranuras -> Formatos \cup {Nada}] /\ url'[Banco] = Nada
        /\ \A x \in Ranuras \ {Banco} : url'[x] = url[x]
        BY <2>1, <2>3 DEF C_Conf, C!TypeOK
  <2>6. Banco \notin sueltas => archivosC'[Banco] = {url'[Banco]} \ {Nada}
        BY <2>1, <2>3, <2>4, <2>5
  <2> QED
        BY <2>1, <2>3, <2>5, <2>6, C_LogosTerminan DEF C_Conf, C!TypeOK, C_Servida
<1>4. ASSUME C!Cae(p) PROVE C_Conf'
  <2> DEFINE roto == petC[p].pc \in {"registra", "borra", "desregistraVacio"}
  <2>1. /\ petC[p].pc \notin {"libre", "hecha"} /\ UNCHANGED <<C!correo, url, archivosC>>
        /\ C!Terminar(p, IF roto THEN z ELSE Nada)
        BY <1>4 DEF C!Cae
  <2>2. CASE petC[p].pc = "correo"
    <3>1. /\ petC' \in [Ajustes -> C!Peticion] /\ C_Otras(p) /\ petC'[p].pc = "hecha"
          /\ ~C!DeLogo(petC'[p]) /\ cruzada' = cruzada
          /\ sueltas' \subseteq Ranuras /\ sueltas \subseteq sueltas'
          BY <2>1, <2>2, C_Termina DEF C_Conf
    <3>2. \A x \in Ranuras : ~C_De(p, x) /\ ~C_De(p, x)'
          BY <2>2, <3>1 DEF C_De, C!DeLogo
    <3>3. C!TypeOK' /\ C_Cuenta'
          BY <2>1, <3>1, C_CuentaIgual DEF C_Conf, C!TypeOK, C!correo
    <3>4. \A x \in Ranuras : C_Logo(x)'
          BY <2>1, <3>1, <3>2, C_LogosIguales DEF C_Conf
    <3> QED
          BY <3>3, <3>4 DEF C_Conf
  <2>3. CASE petC[p].pc # "correo"
    <3>1. petC[p].pc \in C_PasosLogo
          BY <2>1, <2>3, C_Fichas DEF C_Conf, C!TypeOK
    <3>2. PICK y \in Ranuras : y = z
          BY <3>1, C_Ranurados DEF C_Conf, C!TypeOK
    <3>3. CASE roto
          BY <2>1, <3>1, <3>2, <3>3, C_LogosTerminan DEF C_Conf, C!TypeOK
    <3>4. CASE ~roto
      <4>1. y \notin sueltas => archivosC[y] = {url[y]} \ {Nada}
            BY <3>1, <3>2, <3>4, C_Hallazgos DEF C_Etapa, C_Servida
      <4>2. C!Terminar(p, Nada)
            BY <2>1, <3>4
      <4> QED
            BY <2>1, <3>1, <3>2, <4>1, <4>2, C_LogosTerminan DEF C_Conf, C!TypeOK, C_Servida
    <3> QED
          BY <3>3, <3>4
  <2> QED
        BY <2>2, <2>3
<1> QED
    BY <1>1, <1>2, <1>3, <1>4

-----------------------------------------------------------------------------
(* Envio: mails *)

\* What a mail is about to use is a user with its own password, and only a mail
\* that is about to leave has a connection.
C_Correspondencia ==
    /\ C!EnvioTypeOK
    /\ \A v \in Envios : envio[v].pc = "envia" =>
            envio[v].con.usuario = envio[v].con.secreto \/ cruzada
    /\ C!EnvioPropio

C_IInv == C_Conf /\ C_Correspondencia

LEMMA C_Mails ==
    /\ \A r \in C!Mail : r.pc = "envia" => r \in [pc : {"envia"}, con : C!Credencial]
    /\ \A x \in {"libre", "tenant", "credencial", "hecha"} :
            [pc |-> x] \in C!Mail /\ [pc |-> x].pc = x
    /\ \A c \in C!Credencial : /\ [pc |-> "envia", con |-> c] \in C!Mail
                             /\ [pc |-> "envia", con |-> c].pc = "envia"
                             /\ [pc |-> "envia", con |-> c].con = c
BY DEF C!Mail

\* Where a mail goes on, with the connections it leaves open.
LEMMA C_MailSigue ==
    ASSUME C_Correspondencia, C_Cuenta, NEW v \in Envios, NEW r \in C!Mail, C!Pasar(v, r),
           r.pc = "envia" => r.con.usuario = r.con.secreto \/ cruzada,
           \/ abiertos' = abiertos \ {v}
           \/ UNCHANGED abiertos /\ envio[v].pc # "envia"
           \/ abiertos' = abiertos \cup {v} /\ r.pc = "envia",
           salidas' \subseteq C!Credencial,
           \A s \in salidas' : s.usuario = s.secreto \/ cruzada,
           activa' \in BOOLEAN, UNCHANGED cruzada
    PROVE  C_Correspondencia'
<1>1. /\ envio' \in [Envios -> C!Mail] /\ envio'[v] = r
      /\ \A w \in Envios \ {v} : envio'[w] = envio[w]
    BY DEF C!Pasar, C_Correspondencia, C!EnvioTypeOK
<1>2. /\ abiertos' \subseteq Envios
      /\ \A w \in abiertos' : envio'[w].pc = "envia"
    BY <1>1 DEF C_Correspondencia, C!EnvioTypeOK, C!EnvioPropio
<1>3. \A w \in Envios : envio'[w].pc = "envia" =>
            envio'[w].con.usuario = envio'[w].con.secreto \/ cruzada'
    BY <1>1 DEF C_Correspondencia
<1> QED
    BY <1>1, <1>2, <1>3 DEF C_Correspondencia, C!EnvioTypeOK, C!EnvioPropio

LEMMA C_Envian ==
    ASSUME C_Conf, C_Correspondencia, C!EnvioNext, UNCHANGED C!vars
    PROVE  C_Correspondencia'
<1>1. C_Cuenta /\ UNCHANGED cruzada
    BY DEF C_Conf, C!vars
<1>2. ASSUME NEW v \in Envios, NEW b \in BOOLEAN, NEW r \in C!Mail, C!Empieza(v, b, r),
             r.pc = "envia" => r.con.usuario = r.con.secreto
      PROVE  C_Correspondencia'
  <2>1. PICK m \in {r, [pc |-> "hecha"]} : C!Pasar(v, m)
        BY <1>2 DEF C!Empieza, C!Renunciar
  <2>2. /\ m \in C!Mail /\ (m.pc = "envia" => m.con.usuario = m.con.secreto)
        BY <1>2, <2>1, C_Mails
  <2>3. envio[v].pc # "envia" /\ UNCHANGED <<activa, abiertos, salidas>>
        BY <1>2 DEF C!Empieza
  <2> QED
        BY <1>1, <2>1, <2>2, <2>3, C_MailSigue DEF C_Correspondencia, C!EnvioTypeOK, C!EnvioPropio
<1>3. ASSUME NEW v \in Envios, NEW b \in BOOLEAN, NEW f \in BOOLEAN,
             \/ C!EnviaDecision(v, b) \/ C!EnviaCotizacion(v, b, f)
             \/ C!EnviaRecordatorio(v, b, f)
      PROVE  C_Correspondencia'
  <2>1. PICK x \in BOOLEAN : C!Empieza(v, x, [pc |-> "tenant"])
        BY <1>3 DEF C!EnviaDecision, C!EnviaCotizacion, C!EnviaRecordatorio
  <2> QED
        BY <1>2, <2>1, C_Mails
<1>4. ASSUME NEW v \in Envios, NEW b \in BOOLEAN, C!EnviaRestablecer(v, b)
      PROVE  C_Correspondencia'
  <2> DEFINE c == [usuario |-> Plataforma, secreto |-> Plataforma]
  <2>1. c \in C!Credencial /\ c.usuario = c.secreto
        BY DEF C!Credencial
  <2> HIDE DEF c
  <2> QED
        BY <1>2, <1>4, <2>1, C_Mails DEF C!EnviaRestablecer, c
<1>5. ASSUME NEW v \in Envios, C!MiraTenant(v) PROVE C_Correspondencia'
  <2>1. PICK x \in {"credencial", "hecha"} : C!Pasar(v, [pc |-> x])
        BY <1>5 DEF C!MiraTenant, C!Renunciar
  <2>2. envio[v].pc = "tenant" /\ UNCHANGED <<activa, abiertos, salidas>>
        BY <1>5 DEF C!MiraTenant
  <2> QED
        BY <1>1, <2>1, <2>2, C_Mails, C_MailSigue DEF C_Correspondencia, C!EnvioTypeOK, C!EnvioPropio
<1>6. ASSUME NEW v \in Envios, C!LeeCredencial(v) PROVE C_Correspondencia'
  <2>1. envio[v].pc = "credencial" /\ UNCHANGED <<activa, salidas>>
        BY <1>6 DEF C!LeeCredencial
  <2>2. CASE C!Renunciar(v) /\ UNCHANGED abiertos
        BY <1>1, <2>1, <2>2, C_Mails, C_MailSigue
        DEF C!Renunciar, C_Correspondencia, C!EnvioTypeOK, C!EnvioPropio
  <2> DEFINE c == [usuario |-> usuario, secreto |-> secreto]
  <2>3. CASE /\ usuario # Nada /\ secreto # Nada /\ abiertos' = abiertos \cup {v}
             /\ C!Pasar(v, [pc |-> "envia", con |-> c])
    <3>1. c \in C!Credencial /\ c.usuario = usuario /\ c.secreto = secreto
          BY <2>3 DEF C_Conf, C!TypeOK, C!Credencial
    <3>2. usuario = secreto \/ cruzada
          BY <2>3 DEF C_Conf, C_Cuenta
    <3> HIDE DEF c
    <3>3. /\ [pc |-> "envia", con |-> c] \in C!Mail
          /\ [pc |-> "envia", con |-> c].pc = "envia"
          /\ [pc |-> "envia", con |-> c].con = c
          BY <3>1, C_Mails
    <3> QED
          BY <1>1, <2>1, <2>3, <3>1, <3>2, <3>3, C_MailSigue
          DEF C_Correspondencia, C!EnvioTypeOK, C!EnvioPropio
  <2> QED
        BY <1>6, <2>2, <2>3 DEF C!LeeCredencial
<1>7. ASSUME NEW v \in Envios, C!Sale(v) PROVE C_Correspondencia'
  <2>1. /\ envio[v].pc = "envia" /\ abiertos' = abiertos \ {v}
        /\ C!Pasar(v, [pc |-> "hecha"]) /\ UNCHANGED activa
        /\ salidas' = salidas \cup {envio[v].con} \/ UNCHANGED salidas
        BY <1>7 DEF C!Sale, C!Renunciar
  <2>2. envio[v].con \in C!Credencial
        BY <2>1, C_Mails DEF C_Correspondencia, C!EnvioTypeOK
  <2>3. /\ salidas' \subseteq C!Credencial
        /\ \A s \in salidas' : s.usuario = s.secreto \/ cruzada
        BY <2>1, <2>2 DEF C_Correspondencia, C!EnvioTypeOK, C!EnvioPropio
  <2> QED
        BY <1>1, <2>1, <2>3, C_Mails, C_MailSigue DEF C_Correspondencia, C!EnvioTypeOK
<1>8. ASSUME C!CambiaTenant PROVE C_Correspondencia'
    BY <1>1, <1>8 DEF C!CambiaTenant, C_Correspondencia, C!EnvioTypeOK, C!EnvioPropio
<1> QED
    BY <1>3, <1>4, <1>5, <1>6, <1>7, <1>8 DEF C!EnvioNext

\* A change of the configuration does not touch the mails, and crossed changes stay
\* crossed.
LEMMA C_Cruces ==
    ASSUME C_Conf, C!Next
    PROVE  cruzada => cruzada'
<1>1. ASSUME NEW p \in Ajustes, NEW r, C!Seguir(p, r) PROVE cruzada => cruzada'
    BY <1>1 DEF C!Seguir
<1>2. ASSUME NEW p \in Ajustes, NEW x, C!Terminar(p, x) PROVE cruzada => cruzada'
    BY <1>2 DEF C!Terminar
<1> QED
    BY <1>1, <1>2
    DEF C!Next, C!EditarCorreo, C!EscribeCorreo, C!SubirLogo, C!GuardaLogo, C!RegistraLogo, C!QuitarLogo,
        C!DesregistraLogo, C!BorraLogo, C!VaciarBancarios, C!VaciaArchivos, C!VaciaDatos, C!Cae

LEMMA C_Inicio ==
    ASSUME C!ConstantsOK, C!TodoInit
    PROVE  C_IInv
<1>1. C!TypeOK
    BY DEF C!TodoInit, C!Init, C!TypeOK, C!Peticion
<1>2. \A p \in Ajustes : petC[p].pc = "libre" /\ ~C!DeLogo(petC[p])
    BY DEF C!TodoInit, C!Init, C!DeLogo
<1>3. C_Cuenta
    BY <1>2 DEF C!TodoInit, C!Init, C_Cuenta
<1>4. \A x \in Ranuras : C_Logo(x)
    BY <1>2 DEF C!TodoInit, C!Init, C_Logo, C_De, C_Servida
<1>5. C_Correspondencia
    BY DEF C!TodoInit, C!EnvioInit, C_Correspondencia, C!EnvioTypeOK, C!Mail, C!EnvioPropio
<1> QED
    BY <1>1, <1>3, <1>4, <1>5 DEF C_IInv, C_Conf

LEMMA C_Paso ==
    ASSUME C!ConstantsOK, C_IInv, [C!TodoNext]_varsC
    PROVE  C_IInv'
<1>1. C!TodoNext \/ (UNCHANGED C!vars /\ UNCHANGED C!envioVars)
    BY DEF varsC, C!vars, C!envioVars
<1>2. CASE C!Next /\ UNCHANGED C!envioVars
  <2>1. C_Conf'
        BY <1>2, C_Correos, C_Logos, C_Finales DEF C_IInv, C!Next
  <2>2. C_Correspondencia'
        BY <1>2, C_Cruces
        DEF C_IInv, C!envioVars, C_Correspondencia, C!EnvioTypeOK, C!EnvioPropio
  <2> QED
        BY <2>1, <2>2 DEF C_IInv
<1>3. CASE UNCHANGED C!vars /\ (C!EnvioNext \/ UNCHANGED C!envioVars)
  <2>1. C_Conf'
        BY <1>3 DEF C_IInv, C_Conf, C!vars, C!correo, C!TypeOK, C_Cuenta, C_UsuarioTras,
                    C_SecretoTras, C_Logo, C_De, C_Etapa, C_Servida
  <2>2. C_Correspondencia'
        BY <1>3, C_Envian
        DEF C_IInv, C!vars, C!envioVars, C_Correspondencia, C!EnvioTypeOK, C!EnvioPropio
  <2> QED
        BY <2>1, <2>2 DEF C_IInv
<1> QED
    BY <1>1, <1>2, <1>3 DEF C!TodoNext

LEMMA C_Logos2 ==
    ASSUME C_IInv
    PROVE  C!LogoServido
<1>1. ASSUME NEW x \in Ranuras \ sueltas
      PROVE  \/ archivosC[x] = {url[x]} \ {Nada}
             \/ \E p \in Ajustes :
                    petC[p].pc \in {"registra", "borra", "desregistraVacio"} /\ petC[p].ranura = x
    BY <1>1 DEF C_IInv, C_Conf, C_Logo, C_De, C_Etapa, C_Servida
<1> QED
    BY <1>1 DEF C!LogoServido

-----------------------------------------------------------------------------
(* Catalogo: the inductive invariant *)

K_Otras(p) == \A q \in Peticiones \ {p} : petK'[q] = petK[q]

\* What a request holds at each of its steps.
K_Forma(r) ==
    /\ r.pc = "catInserta" => r.tenant \in Tenants /\ r.codigo \in Codigos
    /\ r.pc \in {"catReactiva", "bajaCuenta", "bajaEscribe", "creaVerifica", "creaGuarda",
                 "loteGuarda", "editaVerifica", "alternaVerifica"} => r.c \in Categorias
    /\ r.pc \in {"creaVerifica", "creaGuarda", "loteGuarda"} => r.tenant \in Tenants
    /\ r.pc \in {"creaVerifica", "creaGuarda", "loteResuelve", "loteGuarda"} =>
            r.cambio.tipo \in K!Tipos /\ r.cambio.activo \in BOOLEAN
    /\ r.pc \in {"loteResuelve", "loteGuarda"} => r.s = Nada
    /\ r.pc \in {"editaBusca", "editaVerifica", "editaEscribe", "alternaVerifica",
                 "alternaGuarda", "imagenGuarda", "imagenEscribe", "quitaEscribe",
                 "borraArchivo"} => r.s \in Servicios
    /\ r.pc = "editaBusca" => r.cambio.categoria = Nada
    /\ r.pc = "editaVerifica" => r.cambio.categoria \in {Nada, r.c}
    /\ r.pc = "editaEscribe" =>
            /\ r.cambio.categoria \in {Nada, r.c}
            /\ r.cambio.categoria # Nada \/ r.cambio.activo = TRUE => r.c \in Categorias
    /\ r.pc = "alternaVerifica" => r.cambio = [K!SinCambio EXCEPT !.activo = TRUE]
    /\ r.pc = "alternaGuarda" =>
            /\ r.cambio.categoria = Nada /\ r.cambio.activo \in BOOLEAN
            /\ r.cambio.activo = TRUE => r.c \in Categorias
    /\ r.hechos # {} => r.pc \in {"loteResuelve", "loteGuarda", "deshace"}

\* The category it looked at is there; the one it has verified is of its tenant and
\* active, unless another request is about it.
K_Vista(r) ==
    /\ r.pc \in {"catReactiva", "bajaCuenta", "bajaEscribe"} => K!Existe(cat[r.c])
    /\ /\ r.pc \in {"creaGuarda", "loteGuarda", "editaEscribe", "alternaGuarda"}
       /\ r.c # Nada
       => /\ K!Existe(cat[r.c]) /\ cat[r.c].tenant = r.tenant
          /\ cat[r.c].activo \/ r.c \in cruzadosK

\* A category about to be withdrawn is in use by no service that nobody else is about.
K_Baja(r) ==
    r.pc = "bajaEscribe" =>
        \A s \in K!Usuarios(r.c) : {s, r.c} \cap cruzadosK # {}

\* Its service is as it was read, unless another request is about it.
K_Suyo(r) ==
    r.s # Nada /\ K!Existe(ser[r.s]) =>
        /\ ser[r.s].tenant = r.tenant
        /\ r.s \notin cruzadosK =>
            /\ /\ r.pc \in {"editaVerifica", "editaEscribe", "alternaVerifica", "alternaGuarda"}
               /\ r.c # Nada /\ r.cambio.categoria = Nada
               => ser[r.s].categoria = r.c
            /\ r.pc \in {"imagenGuarda", "imagenEscribe"} => ser[r.s].tipo = "producto"
            /\ r.pc = "imagenEscribe" => r.s \in archivosK
            /\ r.pc = "borraArchivo" => ~ser[r.s].imagen

K_Peticion(r) == K_Forma(r) /\ K_Vista(r) /\ K_Baja(r) /\ K_Suyo(r)

\* What two requests in flight are about is crossed.
K_Cruce ==
    \A p, q \in Peticiones : p # q => K!Huella(petK[p]) \cap K!Huella(petK[q]) \subseteq cruzadosK

K_Servicio(s) ==
    K!Existe(ser[s]) =>
        /\ K!Existe(cat[ser[s].categoria]) /\ cat[ser[s].categoria].tenant = ser[s].tenant
        /\ ser[s].activo =>
            K!Activa(ser[s].categoria) \/ {s, ser[s].categoria} \cap cruzadosK # {}
        /\ s \notin cruzadosK \cup fallidas /\ ser[s].imagen =>
            s \in archivosK /\ ser[s].tipo = "producto"
        /\ s \in creados \/ \E p \in Peticiones : s \in petK[p].hechos

K_IInv ==
    /\ K!TypeOK /\ K_Cruce
    /\ \A p \in Peticiones : K_Peticion(petK[p])
    /\ \A s \in Servicios : K_Servicio(s)

-----------------------------------------------------------------------------
(* Catalogo: steps *)

LEMMA K_Huellas ==
    ASSUME NEW r \in K!Peticion
    PROVE  K!Huella(r) \subseteq Categorias \cup Servicios
BY DEF K!Peticion, K!Cambio, K!Huella

LEMMA K_Sigue ==
    ASSUME K_IInv, NEW p \in Peticiones, NEW r \in K!Peticion, K!Seguir(p, r)
    PROVE  /\ petK' \in [Peticiones -> K!Peticion] /\ K_Otras(p) /\ petK'[p] = r
           /\ cruzadosK' \subseteq Categorias \cup Servicios /\ cruzadosK \subseteq cruzadosK'
           /\ K_Cruce'
<1>1. petK' \in [Peticiones -> K!Peticion] /\ K_Otras(p) /\ petK'[p] = r
    BY DEF K!Seguir, K_IInv, K!TypeOK, K_Otras
<1>2. cruzadosK' = cruzadosK \cup
        {x \in K!Huella(r) : \E q \in Peticiones \ {p} : x \in K!Huella(petK[q])}
    BY DEF K!Seguir
<1>3. cruzadosK' \subseteq Categorias \cup Servicios /\ cruzadosK \subseteq cruzadosK'
    BY <1>2, K_Huellas DEF K_IInv, K!TypeOK
<1>4. ASSUME NEW q1 \in Peticiones, NEW q2 \in Peticiones, q1 # q2,
             NEW x \in K!Huella(petK'[q1]) \cap K!Huella(petK'[q2])
      PROVE  x \in cruzadosK'
  <2>1. CASE q1 # p /\ q2 # p
        BY <1>1, <1>3, <1>4, <2>1 DEF K_IInv, K_Cruce, K_Otras
  <2>2. CASE q1 = p
        BY <1>1, <1>2, <1>4, <2>2 DEF K_Otras
  <2>3. CASE q2 = p
        BY <1>1, <1>2, <1>4, <2>3 DEF K_Otras
  <2> QED
        BY <2>1, <2>2, <2>3
<1>5. K_Cruce'
  <2>1. \A q \in Peticiones : K!Huella(petK[q])' = K!Huella(petK'[q])
        BY DEF K!Huella
  <2> QED
        BY <1>4, <2>1 DEF K_Cruce
<1> QED
    BY <1>1, <1>3, <1>5

LEMMA K_Termina ==
    ASSUME K_IInv, NEW p \in Peticiones, K!Terminar(p)
    PROVE  /\ petK' \in [Peticiones -> K!Peticion] /\ K_Otras(p) /\ petK'[p] = K!Hecha
           /\ petK'[p].hechos = {} /\ cruzadosK' = cruzadosK
           /\ K_Cruce' /\ K_Peticion(petK[p])'
<1>1. /\ K!Hecha \in K!Peticion /\ K!Huella(K!Hecha) = {} /\ K!Hecha.hechos = {}
      /\ K!Hecha.pc = "hecha" /\ K!Hecha.s = Nada
    BY DEF K!Hecha, K!Libre, K!Peticion, K!Pasos, K!Cambio, K!SinCambio, K!Huella
<1>2. petK' \in [Peticiones -> K!Peticion] /\ K_Otras(p) /\ petK'[p] = K!Hecha
      /\ cruzadosK' = cruzadosK
    BY <1>1 DEF K!Terminar, K_IInv, K!TypeOK, K_Otras
<1>3. K_Cruce'
  <2>1. \A q \in Peticiones : K!Huella(petK[q])' = K!Huella(petK'[q])
        BY DEF K!Huella
  <2> QED
        BY <1>1, <1>2, <2>1 DEF K_IInv, K_Cruce, K_Otras
<1>4. K_Peticion(petK[p])'
    BY <1>1, <1>2 DEF K_Peticion, K_Forma, K_Vista, K_Baja, K_Suyo
<1> QED
    BY <1>1, <1>2, <1>3, <1>4

\* What a step of p may do to the documents: it changes a service it is about, takes
\* from one or makes a new one, and withdraws a category it is about.
K_Cambia(p) ==
    /\ \A c \in Categorias : K!Existe(cat[c]) =>
            /\ K!Existe(cat'[c]) /\ cat'[c].tenant = cat[c].tenant
            /\ cat[c].activo => cat'[c].activo \/ c \in K!Huella(petK[p])
    /\ \A s \in Servicios : K!Existe(ser'[s]) =>
            \/ /\ K!Existe(ser[s]) /\ ser'[s].tenant = ser[s].tenant
               /\ \/ /\ s \in K!Huella(petK[p])
                     /\ ser'[s].activo => \/ ser[s].activo /\ ser'[s].categoria = ser[s].categoria
                                          \/ ser'[s].categoria \in K!Huella(petK[p])
                                          \/ s \in cruzadosK
                  \/ /\ ser'[s].categoria = ser[s].categoria /\ ser'[s].tipo = ser[s].tipo
                     /\ ser'[s].imagen => ser[s].imagen
                     /\ ser'[s].activo => ser[s].activo
            \/ /\ ~K!Existe(ser[s]) /\ \A q \in Peticiones : petK[q].s # s
               /\ ser'[s].categoria \in K!Huella(petK[p])
    /\ \A s \in archivosK \ archivosK' : s \in K!Huella(petK[p])
    /\ cruzadosK \subseteq cruzadosK'

\* Others find what they had read, unless they are crossed.
LEMMA K_Ajenas ==
    ASSUME K_IInv, NEW p \in Peticiones, K_Otras(p), K_Cambia(p)
    PROVE  \A q \in Peticiones \ {p} : K_Peticion(petK[q])'
<1> SUFFICES ASSUME NEW q \in Peticiones, q # p PROVE K_Peticion(petK[q])'
    OBVIOUS
<1>1. PICK r \in K!Peticion : r = petK[q] /\ r = petK'[q]
    BY DEF K_IInv, K!TypeOK, K_Otras
<1>2. K_Peticion(r)
    BY <1>1 DEF K_IInv
<1>3. \A x \in K!Huella(petK[p]) : x \in K!Huella(r) => x \in cruzadosK
    BY <1>1 DEF K_IInv, K_Cruce
<1>4. /\ r.c # Nada => r.c \in K!Huella(r) /\ r.c \in Categorias
      /\ r.s # Nada => r.s \in K!Huella(r) /\ r.s \in Servicios
    BY DEF K!Huella, K!Peticion
<1>5. Nada \notin Categorias /\ Nada \notin Servicios
    BY ParametersAssumption DEF K!ConstantsOK
<1>6. K_Vista(r)'
  <2>1. r.pc \in {"catReactiva", "bajaCuenta", "bajaEscribe"} => r.c \in Categorias
        BY <1>2 DEF K_Peticion, K_Forma
  <2> QED
        BY <1>2, <1>3, <1>4, <2>1 DEF K_Peticion, K_Vista, K_Cambia, K!Existe
<1>7. K_Baja(r)'
  <2> SUFFICES ASSUME r.pc = "bajaEscribe", NEW s \in Servicios, K!Existe(ser'[s]),
                      ser'[s].categoria = r.c, ser'[s].activo
               PROVE  {s, r.c} \cap cruzadosK' # {}
      BY DEF K_Baja, K!Usuarios, K!Existe
  <2>1. r.c \in Categorias /\ r.c \in K!Huella(r)
        BY <1>2, <1>4, <1>5 DEF K_Peticion, K_Forma
  <2>2. CASE K!Existe(ser[s]) /\ ser[s].activo /\ ser[s].categoria = r.c
        BY <1>2, <2>2 DEF K_Peticion, K_Baja, K!Usuarios, K_Cambia
  <2>3. CASE r.c \in K!Huella(petK[p]) \/ s \in cruzadosK
        BY <1>3, <2>1, <2>3 DEF K_Cambia
  <2> QED
        BY <2>2, <2>3 DEF K_Cambia
<1>8. K_Suyo(r)'
  <2> SUFFICES ASSUME r.s # Nada, K!Existe(ser'[r.s]) PROVE K_Suyo(r)'
      BY DEF K_Suyo, K!Existe
  <2>1. r.s \in Servicios /\ r.s \in K!Huella(r)
        BY <1>4
  <2>2. K!Existe(ser[r.s]) /\ ser'[r.s].tenant = ser[r.s].tenant
        BY <1>1, <2>1 DEF K_Cambia
  <2>3. CASE r.s \in K!Huella(petK[p])
    <3>1. r.s \in cruzadosK'
          BY <1>3, <2>1, <2>3 DEF K_Cambia
    <3> QED
          BY <1>2, <2>2, <3>1 DEF K_Peticion, K_Suyo
  <2>4. CASE /\ r.s \notin K!Huella(petK[p])
             /\ ser'[r.s].categoria = ser[r.s].categoria /\ ser'[r.s].tipo = ser[r.s].tipo
             /\ ser'[r.s].imagen => ser[r.s].imagen
        BY <1>2, <2>1, <2>2, <2>4 DEF K_Peticion, K_Suyo, K_Cambia
  <2> QED
        BY <1>1, <2>1, <2>2, <2>3, <2>4 DEF K_Cambia
<1>9. K_Forma(r)'
    BY <1>2 DEF K_Peticion, K_Forma
<1> QED
    BY <1>1, <1>6, <1>7, <1>8, <1>9 DEF K_Peticion, K_Forma, K_Vista, K_Baja, K_Suyo, K!Usuarios

\* A service that a step leaves as it was, or takes from, stays in order.
LEMMA K_Igual ==
    ASSUME K_IInv, NEW p \in Peticiones, K_Otras(p), K_Cambia(p), NEW s \in Servicios,
           K!Existe(ser'[s]) =>
                /\ K!Existe(ser[s]) /\ ser'[s].categoria = ser[s].categoria
                /\ ser'[s].tenant = ser[s].tenant /\ ser'[s].tipo = ser[s].tipo
                /\ ser'[s].activo => ser[s].activo
                /\ ser'[s].imagen => ser[s].imagen /\ (s \in archivosK => s \in archivosK')
                /\ ser'[s].activo /\ cat[ser[s].categoria].activo =>
                        cat'[ser[s].categoria].activo \/ {s, ser[s].categoria} \cap cruzadosK # {}
                /\ s \in petK[p].hechos => s \in petK'[p].hechos \cup creados',
           fallidas \subseteq fallidas', creados \subseteq creados'
    PROVE  K_Servicio(s)'
<1> SUFFICES ASSUME K!Existe(ser'[s]) PROVE K_Servicio(s)'
    BY DEF K_Servicio, K!Existe
<1>1. K_Servicio(s) /\ K!Existe(ser[s]) /\ ser[s].categoria \in Categorias
  <2>1. K!Existe(ser[s]) /\ ser[s] \in K!Servicio \cup {Nada}
        BY DEF K_IInv, K!TypeOK
  <2> QED
        BY <2>1 DEF K_IInv, K!Existe, K!Servicio
<1>2. /\ K!Existe(cat'[ser'[s].categoria])
      /\ cat'[ser'[s].categoria].tenant = ser'[s].tenant
    BY <1>1 DEF K_Servicio, K_Cambia
<1>3. ser'[s].activo =>
            K!Activa(ser[s].categoria)' \/ {s, ser'[s].categoria} \cap cruzadosK' # {}
  <2>1. ser'[s].activo => K!Activa(ser[s].categoria) \/ {s, ser[s].categoria} \cap cruzadosK # {}
        BY <1>1 DEF K_Servicio
  <2> QED
        BY <1>1, <1>2, <2>1 DEF K_Cambia, K!Activa, K!Existe
<1>4. s \notin cruzadosK' \cup fallidas' /\ ser'[s].imagen =>
            s \in archivosK' /\ ser'[s].tipo = "producto"
    BY <1>1 DEF K_Servicio, K_Cambia
<1>5. s \in creados' \/ \E q \in Peticiones : s \in petK'[q].hechos
    BY <1>1 DEF K_Servicio, K_Otras
<1> QED
    BY <1>2, <1>3, <1>4, <1>5 DEF K_Servicio, K!Activa, K!Existe

\* A step that only reads
LEMMA K_Lee ==
    ASSUME K_IInv, NEW p \in Peticiones, NEW r \in K!Peticion, K!Seguir(p, r),
           UNCHANGED <<cat, ser, archivosK, fallidas, creados>>,
           petK[p].hechos \subseteq r.hechos, K_Peticion(r)
    PROVE  K_IInv'
<1>1. /\ petK' \in [Peticiones -> K!Peticion] /\ K_Otras(p) /\ petK'[p] = r
      /\ cruzadosK' \subseteq Categorias \cup Servicios /\ cruzadosK \subseteq cruzadosK'
      /\ K_Cruce'
    BY K_Sigue
<1>2. K!TypeOK'
    BY <1>1 DEF K_IInv, K!TypeOK
<1>3. K_Cambia(p)
    BY <1>1 DEF K_Cambia
<1>4. K_Peticion(petK[p])'
    BY <1>1 DEF K_Peticion, K_Forma, K_Vista, K_Baja, K_Suyo, K!Usuarios, K!Existe
<1>5. \A q \in Peticiones : K_Peticion(petK[q])'
    BY <1>1, <1>3, <1>4, K_Ajenas
<1>6. \A s \in Servicios : K_Servicio(s)'
    BY <1>1, <1>3, K_Igual
<1> QED
    BY <1>1, <1>2, <1>5, <1>6 DEF K_IInv

\* A request that ends and writes nothing
LEMMA K_Acaba ==
    ASSUME K_IInv, NEW p \in Peticiones, K!Terminar(p),
           UNCHANGED <<cat, ser, archivosK, fallidas>>,
           creados \subseteq creados', creados' \subseteq Servicios,
           petK[p].hechos \subseteq creados'
    PROVE  K_IInv'
<1>1. /\ petK' \in [Peticiones -> K!Peticion] /\ K_Otras(p) /\ cruzadosK' = cruzadosK
      /\ K_Cruce' /\ K_Peticion(petK[p])'
    BY K_Termina
<1>2. K!TypeOK'
    BY <1>1 DEF K_IInv, K!TypeOK
<1>3. K_Cambia(p)
    BY <1>1 DEF K_Cambia
<1>4. \A q \in Peticiones : K_Peticion(petK[q])'
    BY <1>1, <1>3, K_Ajenas
<1>5. \A s \in Servicios : K_Servicio(s)'
    BY <1>1, <1>3, K_Igual
<1> QED
    BY <1>1, <1>2, <1>4, <1>5 DEF K_IInv

\* What is known of a request at one of its steps
LEMMA K_Sabe ==
    ASSUME K_IInv, NEW p \in Peticiones
    PROVE  /\ petK[p] \in K!Peticion /\ K_Forma(petK[p]) /\ K_Vista(petK[p])
           /\ K_Baja(petK[p]) /\ K_Suyo(petK[p])
           /\ petK[p].c # Nada => petK[p].c \in K!Huella(petK[p])
           /\ petK[p].s # Nada => petK[p].s \in K!Huella(petK[p])
           /\ petK[p].cambio.categoria # Nada => petK[p].cambio.categoria \in K!Huella(petK[p])
           /\ petK[p].pc \notin {"loteResuelve", "loteGuarda", "deshace"} => petK[p].hechos = {}
BY DEF K_IInv, K!TypeOK, K_Peticion, K_Forma, K!Huella

LEMMA K_Cortes ==
    ASSUME K_IInv, NEW p \in Peticiones, K!Abortar(p)
    PROVE  K_IInv'
<1>1. petK[p].hechos \subseteq Servicios
    BY K_Sabe DEF K!Peticion
<1> QED
    BY <1>1, K_Acaba DEF K!Abortar, K_IInv, K!TypeOK

\* A request that begins: what it read is all it knows.
LEMMA K_Empieza ==
    ASSUME K_IInv, NEW p \in Peticiones, petK[p].pc = "libre",
           NEW r \in K!Peticion, K!Seguir(p, r),
           UNCHANGED <<cat, ser, archivosK, fallidas, creados>>,
           r.pc \notin {"creaGuarda", "loteGuarda", "bajaEscribe", "imagenEscribe", "borraArchivo"},
           r.hechos = {}, K_Forma(r),
           r.pc \in {"catReactiva", "bajaCuenta"} => K!Existe(cat[r.c]),
           r.pc \in {"editaEscribe", "alternaGuarda"} => r.c = Nada,
           r.s # Nada => r.tenant = ser[r.s].tenant,
           r.pc \in {"editaVerifica", "alternaVerifica"} /\ r.cambio.categoria = Nada
                => ser[r.s].categoria = r.c,
           r.pc = "imagenGuarda" => ser[r.s].tipo = "producto"
    PROVE  K_IInv'
<1>1. petK[p].hechos = {}
    BY K_Sabe
<1>2. K_Vista(r) /\ K_Baja(r) /\ K_Suyo(r)
    BY DEF K_Vista, K_Baja, K_Suyo
<1> QED
    BY <1>1, <1>2, K_Lee DEF K_Peticion

LEMMA K_Categorias ==
    ASSUME K_IInv, NEW p \in Peticiones,
           \/ \E t \in Tenants, k \in Codigos : K!CrearCategoria(p, t, k)
           \/ \E c \in Categorias : K!BajaCategoria(p, c)
    PROVE  K_IInv'
<1> USE DEF K!Libre, K!Peticion, K!Pasos, K!Cambio, K!SinCambio
<1>1. ASSUME NEW t \in Tenants, NEW k \in Codigos,
             K!Seguir(p, [K!Libre EXCEPT !.pc = "catInserta", !.tenant = t, !.codigo = k]),
             petK[p].pc = "libre", UNCHANGED <<cat, ser, archivosK, fallidas, creados>>
      PROVE  K_IInv'
  <2> DEFINE r == [K!Libre EXCEPT !.pc = "catInserta", !.tenant = t, !.codigo = k]
  <2>1. /\ r \in K!Peticion /\ r.pc = "catInserta" /\ r.tenant = t /\ r.codigo = k
        /\ r.s = Nada /\ r.hechos = {}
        OBVIOUS
  <2>2. K!Seguir(p, r)
        BY <1>1
  <2> HIDE DEF r
  <2>3. K_Forma(r)
        BY <2>1 DEF K_Forma
  <2> QED
        BY <1>1, <2>1, <2>2, <2>3, K_Empieza
<1>2. ASSUME NEW c \in Categorias, NEW x \in {"catReactiva", "bajaCuenta"}, K!Existe(cat[c]),
             K!Seguir(p, [K!Libre EXCEPT !.pc = x, !.c = c]),
             petK[p].pc = "libre", UNCHANGED <<cat, ser, archivosK, fallidas, creados>>
      PROVE  K_IInv'
  <2> DEFINE r == [K!Libre EXCEPT !.pc = x, !.c = c]
  <2>1. r \in K!Peticion /\ r.pc = x /\ r.c = c /\ r.s = Nada /\ r.hechos = {}
        OBVIOUS
  <2>2. K!Seguir(p, r)
        BY <1>2
  <2> HIDE DEF r
  <2>3. K_Forma(r)
        BY <2>1 DEF K_Forma
  <2> QED
        BY <1>2, <2>1, <2>2, <2>3, K_Empieza
<1>3. ASSUME NEW t \in Tenants, NEW k \in Codigos, K!CrearCategoria(p, t, k) PROVE K_IInv'
    BY <1>1, <1>2, <1>3 DEF K!CrearCategoria, K!ConCodigo
<1>4. ASSUME NEW c \in Categorias, K!BajaCategoria(p, c) PROVE K_IInv'
    BY <1>2, <1>4 DEF K!BajaCategoria
<1> QED
    BY <1>3, <1>4

LEMMA K_Creaciones ==
    ASSUME K_IInv, NEW p \in Peticiones,
           \/ \E t \in Tenants, d \in Altas : K!CrearServicio(p, t, d)
           \/ \E T \in SUBSET Tenants, d \in Altas : K!CrearLote(p, T, d)
    PROVE  K_IInv'
<1> USE DEF K!Libre, K!Peticion, K!Pasos, K!Cambio, K!SinCambio
<1>0. ASSUME NEW d \in Altas
      PROVE  /\ d \in K!Cambio /\ d.tipo \in K!Tipos /\ d.activo \in BOOLEAN
             /\ d.categoria \in Categorias /\ [d EXCEPT !.categoria = Nada] \in K!Cambio
             /\ [d EXCEPT !.categoria = Nada].tipo = d.tipo
             /\ [d EXCEPT !.categoria = Nada].activo = d.activo
    BY ParametersAssumption DEF K!ConstantsOK
<1>1. ASSUME NEW t \in Tenants, NEW d \in Altas, K!CrearServicio(p, t, d) PROVE K_IInv'
  <2> DEFINE r == [K!Libre EXCEPT !.pc = "creaVerifica", !.tenant = t, !.c = d.categoria,
                                  !.cambio = d]
  <2>1. /\ r \in K!Peticion /\ r.pc = "creaVerifica" /\ r.tenant = t /\ r.c = d.categoria
        /\ r.s = Nada /\ r.cambio = d /\ r.hechos = {}
        BY <1>0
  <2>2. K!Seguir(p, r) /\ petK[p].pc = "libre"
        /\ UNCHANGED <<cat, ser, archivosK, fallidas, creados>>
        BY <1>1 DEF K!CrearServicio
  <2> HIDE DEF r
  <2>3. K_Forma(r)
        BY <1>0, <2>1 DEF K_Forma
  <2> QED
        BY <2>1, <2>2, <2>3, K_Empieza
<1>2. ASSUME NEW T \in SUBSET Tenants, NEW d \in Altas, K!CrearLote(p, T, d) PROVE K_IInv'
  <2> DEFINE r == [K!Libre EXCEPT !.pc = "loteResuelve", !.codigo = cat[d.categoria].codigo,
                                  !.destinos = T, !.cambio = [d EXCEPT !.categoria = Nada]]
  <2>1. cat[d.categoria].codigo \in Codigos
    <3>1. d.categoria \in Categorias /\ cat[d.categoria] # Nada
          BY <1>0, <1>2 DEF K!CrearLote, K!Activa, K!Existe
    <3>2. cat[d.categoria] \in K!Categoria
          BY <3>1 DEF K_IInv, K!TypeOK
    <3> QED
          BY <3>2 DEF K!Categoria
  <2>2. /\ r \in K!Peticion /\ r.pc = "loteResuelve" /\ r.s = Nada /\ r.hechos = {}
        /\ r.cambio = [d EXCEPT !.categoria = Nada]
        BY <1>0, <2>1
  <2>3. K!Seguir(p, r) /\ petK[p].pc = "libre"
        /\ UNCHANGED <<cat, ser, archivosK, fallidas, creados>>
        BY <1>2 DEF K!CrearLote
  <2> HIDE DEF r
  <2>4. K_Forma(r)
        BY <1>0, <2>2 DEF K_Forma
  <2> QED
        BY <2>2, <2>3, <2>4, K_Empieza
<1> QED
    BY <1>1, <1>2

LEMMA K_Documentos ==
    ASSUME K_IInv, NEW s \in Servicios, K!Existe(ser[s])
    PROVE  /\ ser[s] \in K!Servicio /\ ser[s].tenant \in Tenants
           /\ ser[s].categoria \in Categorias /\ ser[s].categoria # Nada
           /\ ser[s].activo \in BOOLEAN /\ ser[s].tipo \in K!Tipos /\ ser[s].imagen \in BOOLEAN
           /\ s # Nada
<1>1. ser[s] \in K!Servicio
    BY DEF K_IInv, K!TypeOK, K!Existe
<1> QED
    BY <1>1, ParametersAssumption DEF K!Servicio, K!ConstantsOK

LEMMA K_Ediciones ==
    ASSUME K_IInv, NEW p \in Peticiones, NEW s \in Servicios, NEW d \in Cambios,
           K!EditarServicio(p, s, d)
    PROVE  K_IInv'
<1> USE DEF K!Libre, K!Peticion, K!Pasos
<1>1. /\ petK[p].pc = "libre" /\ K!Existe(ser[s])
      /\ UNCHANGED <<cat, ser, archivosK, fallidas, creados>>
      /\ d \in K!Cambio /\ d.categoria \in Categorias \cup {Nada}
    BY ParametersAssumption DEF K!EditarServicio, K!ConstantsOK, K!Cambio
<1>2. ser[s].tenant \in Tenants /\ s # Nada
    BY <1>1, K_Documentos
<1>3. CASE d.categoria # Nada
  <2> DEFINE r == [[K!Libre EXCEPT !.s = s, !.tenant = ser[s].tenant, !.cambio = d]
                    EXCEPT !.pc = "editaVerifica", !.c = d.categoria]
  <2>1. /\ r \in K!Peticion /\ r.pc = "editaVerifica" /\ r.c = d.categoria /\ r.s = s
        /\ r.tenant = ser[s].tenant /\ r.cambio = d /\ r.hechos = {}
        BY <1>1, <1>2, <1>3
  <2>2. K!Seguir(p, r)
        BY <1>3 DEF K!EditarServicio
  <2> HIDE DEF r
  <2>3. K_Forma(r)
        BY <1>1, <1>3, <2>1 DEF K_Forma
  <2> QED
        BY <1>1, <1>3, <2>1, <2>2, <2>3, K_Empieza
<1>4. CASE d.categoria = Nada
  <2>1. PICK x \in {"editaBusca", "editaEscribe"} :
            /\ x = "editaEscribe" => d.activo # TRUE
            /\ K!Seguir(p, [[K!Libre EXCEPT !.s = s, !.tenant = ser[s].tenant, !.cambio = d]
                            EXCEPT !.pc = x])
        BY <1>4 DEF K!EditarServicio
  <2> DEFINE r == [[K!Libre EXCEPT !.s = s, !.tenant = ser[s].tenant, !.cambio = d]
                    EXCEPT !.pc = x]
  <2>2. /\ r \in K!Peticion /\ r.pc = x /\ r.c = Nada /\ r.s = s
        /\ r.tenant = ser[s].tenant /\ r.cambio = d /\ r.hechos = {}
        BY <1>1, <1>2, <2>1
  <2>3. K!Seguir(p, r)
        BY <2>1
  <2> HIDE DEF r
  <2>4. K_Forma(r)
        BY <1>4, <2>1, <2>2 DEF K_Forma
  <2> QED
        BY <1>1, <2>1, <2>2, <2>3, <2>4, K_Empieza
<1> QED
    BY <1>3, <1>4

LEMMA K_Alternar ==
    ASSUME K_IInv, NEW p \in Peticiones, NEW s \in Servicios, K!Alternar(p, s)
    PROVE  K_IInv'
<1> USE DEF K!Libre, K!Peticion, K!Pasos, K!Cambio, K!SinCambio
<1>1. /\ petK[p].pc = "libre" /\ K!Existe(ser[s])
      /\ UNCHANGED <<cat, ser, archivosK, fallidas, creados>>
    BY DEF K!Alternar
<1>2. ser[s].tenant \in Tenants /\ s # Nada /\ ser[s].categoria \in Categorias
    BY <1>1, K_Documentos
<1>3. CASE ser[s].activo
  <2> DEFINE r == [[K!Libre EXCEPT !.s = s, !.tenant = ser[s].tenant]
                    EXCEPT !.pc = "alternaGuarda", !.cambio.activo = FALSE]
  <2>1. /\ r \in K!Peticion /\ r.pc = "alternaGuarda" /\ r.c = Nada /\ r.s = s
        /\ r.tenant = ser[s].tenant /\ r.hechos = {}
        /\ r.cambio.categoria = Nada /\ r.cambio.activo = FALSE
        BY <1>2
  <2>2. K!Seguir(p, r)
        BY <1>3 DEF K!Alternar
  <2> HIDE DEF r
  <2>3. K_Forma(r)
        BY <2>1 DEF K_Forma
  <2> QED
        BY <1>1, <2>1, <2>2, <2>3, K_Empieza
<1>4. CASE ~ser[s].activo
  <2> DEFINE r == [[K!Libre EXCEPT !.s = s, !.tenant = ser[s].tenant]
                    EXCEPT !.pc = "alternaVerifica", !.cambio.activo = TRUE,
                           !.c = ser[s].categoria]
  <2>1. /\ r \in K!Peticion /\ r.pc = "alternaVerifica" /\ r.c = ser[s].categoria /\ r.s = s
        /\ r.tenant = ser[s].tenant /\ r.hechos = {}
        /\ r.cambio = [K!SinCambio EXCEPT !.activo = TRUE]
        BY <1>2
  <2>2. K!Seguir(p, r)
        BY <1>4 DEF K!Alternar
  <2> HIDE DEF r
  <2>3. K_Forma(r)
        BY <1>2, <2>1 DEF K_Forma
  <2> QED
        BY <1>1, <2>1, <2>2, <2>3, K_Empieza
<1> QED
    BY <1>3, <1>4

LEMMA K_Imagenes ==
    ASSUME K_IInv, NEW p \in Peticiones, NEW s \in Servicios,
           K!SubirImagen(p, s) \/ K!QuitarImagen(p, s)
    PROVE  K_IInv'
<1> USE DEF K!Libre, K!Peticion, K!Pasos, K!Cambio, K!SinCambio
<1>1. /\ petK[p].pc = "libre" /\ K!Existe(ser[s]) /\ ser[s].tipo = "producto"
      /\ UNCHANGED <<cat, ser, archivosK, fallidas, creados>>
    BY DEF K!SubirImagen, K!QuitarImagen
<1>2. ser[s].tenant \in Tenants /\ s # Nada
    BY <1>1, K_Documentos
<1>3. PICK x \in {"imagenGuarda", "quitaEscribe"} :
        K!Seguir(p, [K!Libre EXCEPT !.pc = x, !.s = s, !.tenant = ser[s].tenant])
    BY DEF K!SubirImagen, K!QuitarImagen
<1> DEFINE r == [K!Libre EXCEPT !.pc = x, !.s = s, !.tenant = ser[s].tenant]
<1>4. /\ r \in K!Peticion /\ r.pc = x /\ r.c = Nada /\ r.s = s /\ r.tenant = ser[s].tenant
      /\ r.hechos = {}
    BY <1>2
<1>5. K!Seguir(p, r)
    BY <1>3
<1> HIDE DEF r
<1>6. K_Forma(r)
    BY <1>4 DEF K_Forma
<1> QED
    BY <1>1, <1>4, <1>5, <1>6, K_Empieza

\* A request that ends having done nothing that others must answer for
LEMMA K_Deja ==
    ASSUME K_IInv, NEW p \in Peticiones, K!Terminar(p), petK[p].hechos = {},
           UNCHANGED <<cat, ser, archivosK, fallidas, creados>>
    PROVE  K_IInv'
BY K_Acaba DEF K_IInv, K!TypeOK

LEMMA K_Verifica ==
    ASSUME K_IInv, NEW p \in Peticiones,
           \/ K!CreaVerifica(p) \/ K!BajaCuenta(p) \/ K!EditaVerifica(p) \/ K!AlternaVerifica(p)
    PROVE  K_IInv'
<1>1. /\ petK[p].pc \in {"creaVerifica", "bajaCuenta", "editaVerifica", "alternaVerifica"}
      /\ UNCHANGED <<cat, ser, archivosK, fallidas, creados>>
    BY DEF K!CreaVerifica, K!BajaCuenta, K!EditaVerifica, K!AlternaVerifica
<1>2. /\ petK[p] \in K!Peticion /\ petK[p].hechos = {} /\ petK[p].c \in Categorias
    BY <1>1, K_Sabe DEF K_Forma
<1>3. CASE K!Terminar(p)
    BY <1>1, <1>2, <1>3, K_Deja
<1>4. ASSUME NEW x \in {"creaGuarda", "bajaEscribe", "editaEscribe", "alternaGuarda"},
             \/ petK[p].pc = "creaVerifica" /\ x = "creaGuarda"
             \/ petK[p].pc = "bajaCuenta" /\ x = "bajaEscribe"
             \/ petK[p].pc = "editaVerifica" /\ x = "editaEscribe"
             \/ petK[p].pc = "alternaVerifica" /\ x = "alternaGuarda",
             x # "bajaEscribe" => K!CategoriaValida(petK[p].c, petK[p].tenant),
             x = "bajaEscribe" => K!Usuarios(petK[p].c) = {},
             K!Seguir(p, [petK[p] EXCEPT !.pc = x])
      PROVE  K_IInv'
  <2> DEFINE r == [petK[p] EXCEPT !.pc = x]
  <2>1. /\ r \in K!Peticion /\ r.pc = x /\ r.c = petK[p].c /\ r.s = petK[p].s
        /\ r.tenant = petK[p].tenant /\ r.cambio = petK[p].cambio /\ r.hechos = {}
        BY <1>2 DEF K!Peticion, K!Pasos
  <2>2. K!Seguir(p, r)
        BY <1>4
  <2> HIDE DEF r
  <2>3. K_Forma(petK[p]) /\ K_Vista(petK[p]) /\ K_Suyo(petK[p])
        BY K_Sabe
  <2>4. K_Forma(r)
    <3>1. x = "alternaGuarda" => r.cambio = [K!SinCambio EXCEPT !.activo = TRUE]
          BY <1>4, <2>1, <2>3 DEF K_Forma
    <3>2. x = "alternaGuarda" => r.cambio.categoria = Nada /\ r.cambio.activo = TRUE
          BY <3>1 DEF K!SinCambio
    <3> QED
          BY <1>2, <1>4, <2>1, <2>3, <3>2 DEF K_Forma
  <2>5. K_Vista(r)
        BY <1>4, <2>1, <2>3 DEF K_Vista, K!CategoriaValida, K!Activa
  <2>6. K_Baja(r)
        BY <1>4, <2>1 DEF K_Baja
  <2>7. K_Suyo(r)
        BY <1>4, <2>1, <2>3 DEF K_Suyo
  <2> QED
        BY <1>1, <1>2, <2>1, <2>2, <2>4, <2>5, <2>6, <2>7, K_Lee DEF K_Peticion
<1> QED
    BY <1>3, <1>4 DEF K!CreaVerifica, K!BajaCuenta, K!EditaVerifica, K!AlternaVerifica

LEMMA K_Busca ==
    ASSUME K_IInv, NEW p \in Peticiones, K!EditaBusca(p)
    PROVE  K_IInv'
<1> DEFINE s == petK[p].s
<1>1. /\ petK[p].pc = "editaBusca" /\ UNCHANGED <<cat, ser, archivosK, fallidas, creados>>
    BY DEF K!EditaBusca
<1>2. /\ petK[p] \in K!Peticion /\ petK[p].hechos = {} /\ s \in Servicios
      /\ petK[p].cambio.categoria = Nada /\ K_Suyo(petK[p])
    BY <1>1, K_Sabe DEF K_Forma
<1>3. CASE K!Terminar(p)
    BY <1>1, <1>2, <1>3, K_Deja
<1>4. CASE /\ K!Existe(ser[s])
           /\ K!Seguir(p, [petK[p] EXCEPT !.pc = "editaVerifica", !.c = ser[s].categoria])
  <2> DEFINE r == [petK[p] EXCEPT !.pc = "editaVerifica", !.c = ser[s].categoria]
  <2>0. ser[s].categoria \in Categorias
        BY <1>2, <1>4, K_Documentos
  <2>1. /\ r \in K!Peticion /\ r.pc = "editaVerifica" /\ r.c = ser[s].categoria /\ r.s = s
        /\ r.tenant = petK[p].tenant /\ r.cambio = petK[p].cambio /\ r.hechos = {}
        BY <1>2, <2>0 DEF K!Peticion, K!Pasos
  <2>2. K!Seguir(p, r)
        BY <1>4
  <2> HIDE DEF r
  <2>3. K_Forma(r)
        BY <1>2, <2>0, <2>1 DEF K_Forma
  <2>4. K_Vista(r) /\ K_Baja(r) /\ K_Suyo(r)
        BY <1>2, <2>1 DEF K_Vista, K_Baja, K_Suyo
  <2> QED
        BY <1>1, <1>2, <2>1, <2>2, <2>3, <2>4, K_Lee DEF K_Peticion
<1> QED
    BY <1>3, <1>4 DEF K!EditaBusca

\* A creation in several tenants backs out.
LEMMA K_Renuncia ==
    ASSUME K_IInv, NEW p \in Peticiones, petK[p].pc \in {"loteResuelve", "loteGuarda"},
           K!Seguir(p, [petK[p] EXCEPT !.pc = "deshace", !.c = Nada]),
           UNCHANGED <<cat, ser, archivosK, fallidas, creados>>
    PROVE  K_IInv'
<1> DEFINE r == [petK[p] EXCEPT !.pc = "deshace", !.c = Nada]
<1>1. /\ petK[p] \in K!Peticion /\ K_Suyo(petK[p])
    BY K_Sabe
<1>2. /\ r \in K!Peticion /\ r.pc = "deshace" /\ r.c = Nada /\ r.s = petK[p].s
      /\ r.tenant = petK[p].tenant /\ r.hechos = petK[p].hechos
    BY <1>1 DEF K!Peticion, K!Pasos
<1>3. K!Seguir(p, r)
    OBVIOUS
<1> HIDE DEF r
<1>4. K_Forma(r) /\ K_Vista(r) /\ K_Baja(r) /\ K_Suyo(r)
    BY <1>1, <1>2 DEF K_Forma, K_Vista, K_Baja, K_Suyo
<1> QED
    BY <1>2, <1>3, <1>4, K_Lee DEF K_Peticion

LEMMA K_Lotes ==
    ASSUME K_IInv, NEW p \in Peticiones, K!LoteResuelve(p) \/ K!DeshacerLote(p)
    PROVE  K_IInv'
<1> DEFINE e == petK[p]
<1>1. CASE K!DeshacerLote(p)
    BY <1>1, K_Renuncia DEF K!DeshacerLote
<1>2. CASE K!LoteResuelve(p)
  <2>1. /\ e.pc = "loteResuelve" /\ UNCHANGED <<cat, ser, archivosK, fallidas>>
        /\ e \in K!Peticion /\ K_Forma(e) /\ K_Suyo(e)
        BY <1>2, K_Sabe DEF K!LoteResuelve
  <2>2. CASE K!Terminar(p) /\ creados' = creados \cup e.hechos
    <3>1. e.hechos \subseteq Servicios
          BY <2>1 DEF K!Peticion
    <3> QED
          BY <2>1, <2>2, <3>1, K_Acaba DEF K_IInv, K!TypeOK
  <2>3. CASE K!Seguir(p, [e EXCEPT !.pc = "deshace", !.c = Nada]) /\ UNCHANGED creados
        BY <2>1, <2>3, K_Renuncia
  <2>4. ASSUME NEW t \in e.destinos, NEW c \in K!ConCodigo(t, e.codigo), cat[c].activo,
               K!Seguir(p, [e EXCEPT !.pc = "loteGuarda", !.tenant = t, !.c = c]),
               UNCHANGED creados
        PROVE  K_IInv'
    <3> DEFINE r == [e EXCEPT !.pc = "loteGuarda", !.tenant = t, !.c = c]
    <3>1. c \in Categorias /\ K!Existe(cat[c]) /\ cat[c].tenant = t /\ t \in Tenants
          BY <2>1, <2>4 DEF K!ConCodigo, K!Peticion
    <3>2. /\ r \in K!Peticion /\ r.pc = "loteGuarda" /\ r.c = c /\ r.s = e.s
          /\ r.tenant = t /\ r.cambio = e.cambio /\ r.hechos = e.hechos
          BY <2>1, <3>1 DEF K!Peticion, K!Pasos
    <3>3. K!Seguir(p, r)
          BY <2>4
    <3> HIDE DEF r
    <3>4. K_Forma(r)
          BY <2>1, <3>1, <3>2 DEF K_Forma
    <3>5. K_Vista(r) /\ K_Baja(r)
          BY <2>4, <3>1, <3>2 DEF K_Vista, K_Baja
    <3>6. K_Suyo(r)
          BY <2>1, <3>2 DEF K_Suyo, K_Forma
    <3> QED
          BY <2>1, <2>4, <3>2, <3>3, <3>4, <3>5, <3>6, K_Lee DEF K_Peticion
  <2> QED
        BY <1>2, <2>2, <2>3, <2>4 DEF K!LoteResuelve
<1> QED
    BY <1>1, <1>2

\* A write of one category that ends its request
LEMMA K_EscribeCat ==
    ASSUME K_IInv, NEW p \in Peticiones, K!Terminar(p), petK[p].hechos = {},
           UNCHANGED <<ser, archivosK, fallidas, creados>>,
           cat' \in [Categorias -> K!Categoria \cup {Nada}],
           \A c \in Categorias : K!Existe(cat[c]) =>
                /\ K!Existe(cat'[c]) /\ cat'[c].tenant = cat[c].tenant
                /\ \/ cat[c].activo => cat'[c].activo
                   \/ petK[p].pc = "bajaEscribe" /\ c = petK[p].c
    PROVE  K_IInv'
<1>1. /\ petK' \in [Peticiones -> K!Peticion] /\ K_Otras(p) /\ cruzadosK' = cruzadosK
      /\ K_Cruce' /\ K_Peticion(petK[p])'
    BY K_Termina
<1>2. K!TypeOK'
    BY <1>1 DEF K_IInv, K!TypeOK
<1>3. petK[p].pc = "bajaEscribe" =>
            /\ petK[p].c \in K!Huella(petK[p])
            /\ \A s \in K!Usuarios(petK[p].c) : {s, petK[p].c} \cap cruzadosK # {}
  <2>1. petK[p].pc = "bajaEscribe" => petK[p].c \in Categorias
        BY K_Sabe DEF K_Forma
  <2> QED
        BY <2>1, K_Sabe, ParametersAssumption DEF K_Baja, K!ConstantsOK
<1>4. K_Cambia(p)
    BY <1>1, <1>3 DEF K_Cambia
<1>5. \A q \in Peticiones : K_Peticion(petK[q])'
    BY <1>1, <1>4, K_Ajenas
<1>6. ASSUME NEW s \in Servicios PROVE K_Servicio(s)'
  <2> SUFFICES ASSUME K!Existe(ser[s]) PROVE K_Servicio(s)'
      BY DEF K_Servicio, K!Existe
  <2>1. ser[s].categoria \in Categorias /\ K!Existe(cat[ser[s].categoria])
        BY K_Documentos DEF K_IInv, K_Servicio
  <2>2. ser[s].activo /\ cat[ser[s].categoria].activo =>
            cat'[ser[s].categoria].activo \/ {s, ser[s].categoria} \cap cruzadosK # {}
        BY <1>3, <2>1 DEF K!Usuarios
  <2> QED
        BY <1>1, <1>4, <2>2, K_Igual
<1> QED
    BY <1>1, <1>2, <1>5, <1>6 DEF K_IInv

LEMMA K_Cats ==
    ASSUME K_IInv, NEW c \in Categorias, K!Existe(cat[c])
    PROVE  /\ cat[c] \in K!Categoria
           /\ \A b \in BOOLEAN : /\ [cat[c] EXCEPT !.activo = b] \in K!Categoria
                                 /\ [cat[c] EXCEPT !.activo = b].tenant = cat[c].tenant
                                 /\ [cat[c] EXCEPT !.activo = b].activo = b
           /\ \A k \in Codigos : /\ [cat[c] EXCEPT !.codigo = k] \in K!Categoria
                                 /\ [cat[c] EXCEPT !.codigo = k].tenant = cat[c].tenant
                                 /\ [cat[c] EXCEPT !.codigo = k].activo = cat[c].activo
           /\ Nada \notin K!Categoria
<1>1. cat[c] \in K!Categoria
    BY DEF K_IInv, K!TypeOK, K!Existe
<1> QED
    BY <1>1, ParametersAssumption DEF K!Categoria, K!ConstantsOK

LEMMA K_CatEscrita ==
    ASSUME K_IInv, NEW p \in Peticiones,
           \/ K!CatReactiva(p) \/ K!BajaEscribe(p)
           \/ \E c \in Categorias, k \in Codigos : K!EditarCategoria(p, c, k)
    PROVE  K_IInv'
<1>1. ASSUME NEW c \in Categorias, K!Existe(cat[c]), NEW d \in K!Categoria,
             d.tenant = cat[c].tenant,
             (cat[c].activo => d.activo) \/ (petK[p].pc = "bajaEscribe" /\ c = petK[p].c),
             cat' = [cat EXCEPT ![c] = d], K!Terminar(p), petK[p].hechos = {},
             UNCHANGED <<ser, archivosK, fallidas, creados>>
      PROVE  K_IInv'
  <2>1. /\ cat' \in [Categorias -> K!Categoria \cup {Nada}] /\ cat'[c] = d /\ d # Nada
        /\ \A x \in Categorias \ {c} : cat'[x] = cat[x]
        BY <1>1, K_Cats DEF K_IInv, K!TypeOK
  <2> QED
        BY <1>1, <2>1, K_EscribeCat DEF K!Existe
<1>2. ASSUME NEW c \in Categorias, NEW k \in Codigos, K!EditarCategoria(p, c, k) PROVE K_IInv'
  <2>1. /\ petK[p].pc = "libre" /\ K!Existe(cat[c]) /\ K!Terminar(p)
        /\ cat' = [cat EXCEPT ![c] = [cat[c] EXCEPT !.codigo = k]]
        /\ UNCHANGED <<ser, archivosK, fallidas, creados>>
        BY <1>2 DEF K!EditarCategoria
  <2> QED
        BY <1>1, <2>1, K_Cats, K_Sabe
<1>3. ASSUME K!CatReactiva(p) PROVE K_IInv'
  <2>1. /\ petK[p].pc = "catReactiva" /\ K!Terminar(p)
        /\ cat' = [cat EXCEPT ![petK[p].c] = [cat[petK[p].c] EXCEPT !.activo = TRUE]]
        /\ UNCHANGED <<ser, archivosK, fallidas, creados>>
        BY <1>3 DEF K!CatReactiva
  <2>2. petK[p].c \in Categorias /\ K!Existe(cat[petK[p].c]) /\ petK[p].hechos = {}
        BY <2>1, K_Sabe DEF K_Forma, K_Vista
  <2> QED
        BY <1>1, <2>1, <2>2, K_Cats
<1>4. ASSUME K!BajaEscribe(p) PROVE K_IInv'
  <2>1. /\ petK[p].pc = "bajaEscribe" /\ K!Terminar(p)
        /\ cat' = [cat EXCEPT ![petK[p].c] = [cat[petK[p].c] EXCEPT !.activo = FALSE]]
        /\ UNCHANGED <<ser, archivosK, fallidas, creados>>
        BY <1>4 DEF K!BajaEscribe
  <2>2. petK[p].c \in Categorias /\ K!Existe(cat[petK[p].c]) /\ petK[p].hechos = {}
        BY <2>1, K_Sabe DEF K_Forma, K_Vista
  <2> QED
        BY <1>1, <2>1, <2>2, K_Cats
<1> QED
    BY <1>2, <1>3, <1>4

LEMMA K_CatInserta ==
    ASSUME K_IInv, NEW p \in Peticiones, K!CatInserta(p)
    PROVE  K_IInv'
<1>1. /\ petK[p].pc = "catInserta" /\ UNCHANGED <<ser, archivosK, fallidas, creados>>
      /\ petK[p] \in K!Peticion /\ petK[p].hechos = {} /\ K_Suyo(petK[p])
      /\ petK[p].tenant \in Tenants /\ petK[p].codigo \in Codigos
    BY K_Sabe DEF K!CatInserta, K_Forma
<1>2. ASSUME NEW c \in Categorias, ~K!Existe(cat[c]), K!Terminar(p),
             cat' = [cat EXCEPT ![c] = [tenant |-> petK[p].tenant, codigo |-> petK[p].codigo,
                                        activo |-> TRUE]]
      PROVE  K_IInv'
  <2>1. [tenant |-> petK[p].tenant, codigo |-> petK[p].codigo, activo |-> TRUE] \in K!Categoria
        BY <1>1 DEF K!Categoria
  <2>2. cat' \in [Categorias -> K!Categoria \cup {Nada}]
        /\ \A x \in Categorias : K!Existe(cat[x]) => cat'[x] = cat[x]
        BY <1>2, <2>1 DEF K_IInv, K!TypeOK
  <2> QED
        BY <1>1, <1>2, <2>2, K_EscribeCat DEF K!Existe
<1>3. CASE K!Terminar(p) /\ UNCHANGED cat
    BY <1>1, <1>3, K_Deja
<1>4. ASSUME NEW c \in K!ConCodigo(petK[p].tenant, petK[p].codigo), UNCHANGED cat,
             K!Seguir(p, [petK[p] EXCEPT !.pc = "catReactiva", !.c = c])
      PROVE  K_IInv'
  <2> DEFINE r == [petK[p] EXCEPT !.pc = "catReactiva", !.c = c]
  <2>1. c \in Categorias /\ K!Existe(cat[c])
        BY <1>4 DEF K!ConCodigo
  <2>2. /\ r \in K!Peticion /\ r.pc = "catReactiva" /\ r.c = c /\ r.s = petK[p].s
        /\ r.tenant = petK[p].tenant /\ r.hechos = {}
        BY <1>1, <2>1 DEF K!Peticion, K!Pasos
  <2>3. K!Seguir(p, r)
        BY <1>4
  <2> HIDE DEF r
  <2>4. K_Forma(r) /\ K_Vista(r) /\ K_Baja(r) /\ K_Suyo(r)
        BY <1>1, <2>1, <2>2 DEF K_Forma, K_Vista, K_Baja, K_Suyo
  <2> QED
        BY <1>1, <1>4, <2>2, <2>3, <2>4, K_Lee DEF K_Peticion
<1> QED
    BY <1>2, <1>3, <1>4 DEF K!CatInserta

\* A write of one service
LEMMA K_EscribeSer ==
    ASSUME K_IInv, NEW p \in Peticiones, K_Otras(p), NEW s \in Servicios,
           petK' \in [Peticiones -> K!Peticion], cruzadosK' \subseteq Categorias \cup Servicios,
           K_Cruce', K_Peticion(petK[p])', K_Cambia(p), K_Servicio(s)',
           UNCHANGED cat, ser' \in [Servicios -> K!Servicio \cup {Nada}],
           archivosK' \subseteq Servicios, fallidas' \subseteq Servicios, creados' \subseteq Servicios,
           \A x \in Servicios \ {s} : /\ ser'[x] = ser[x]
                                      /\ x \in archivosK => x \in archivosK'
                                      /\ x \in petK[p].hechos => x \in petK'[p].hechos \cup creados',
           fallidas \subseteq fallidas', creados \subseteq creados'
    PROVE  K_IInv'
<1>1. K!TypeOK'
    BY DEF K_IInv, K!TypeOK
<1>2. \A q \in Peticiones : K_Peticion(petK[q])'
    BY K_Ajenas
<1>3. \A x \in Servicios \ {s} : K_Servicio(x)'
    BY K_Igual
<1> QED
    BY <1>1, <1>2, <1>3 DEF K_IInv

\* A new service, of the category its request has verified
LEMMA K_Nuevo ==
    ASSUME K_IInv, NEW p \in Peticiones, K_Otras(p), NEW s \in K!Libres,
           petK[p].pc \in {"creaGuarda", "loteGuarda"},
           ser' = [ser EXCEPT ![s] = K!Nuevo(petK[p].tenant, petK[p].c, petK[p].cambio.tipo,
                                             petK[p].cambio.activo)],
           UNCHANGED <<cat, archivosK, fallidas>>, cruzadosK \subseteq cruzadosK',
           s \in creados' \cup petK'[p].hechos
    PROVE  /\ ser' \in [Servicios -> K!Servicio \cup {Nada}]
           /\ \A x \in Servicios \ {s} : ser'[x] = ser[x]
           /\ K_Cambia(p) /\ K_Servicio(s)'
<1> DEFINE r == petK[p]
           d == K!Nuevo(r.tenant, r.c, r.cambio.tipo, r.cambio.activo)
<1>1. /\ r.c \in Categorias /\ r.tenant \in Tenants /\ r.c \in K!Huella(r) /\ r.c # Nada
      /\ r.cambio.tipo \in K!Tipos /\ r.cambio.activo \in BOOLEAN
      /\ K!Existe(cat[r.c]) /\ cat[r.c].tenant = r.tenant
      /\ cat[r.c].activo \/ r.c \in cruzadosK
    BY K_Sabe, ParametersAssumption DEF K_Forma, K_Vista, K!ConstantsOK
<1>2. /\ d \in K!Servicio /\ d.tenant = r.tenant /\ d.categoria = r.c
      /\ d.imagen = FALSE
    BY <1>1 DEF K!Nuevo, K!Servicio
<1>3. s \in Servicios /\ ~K!Existe(ser[s]) /\ \A q \in Peticiones : petK[q].s # s
    BY DEF K!Libres
<1> HIDE DEF d
<1>4. /\ ser' \in [Servicios -> K!Servicio \cup {Nada}] /\ ser'[s] = d
      /\ \A x \in Servicios \ {s} : ser'[x] = ser[x]
  <2>1. ser' = [ser EXCEPT ![s] = d]
        BY DEF d
  <2> QED
        BY <1>2, <1>3, <2>1 DEF K_IInv, K!TypeOK
<1>5. K_Cambia(p)
    BY <1>1, <1>2, <1>3, <1>4 DEF K_Cambia
<1>6. K_Servicio(s)'
  <2>1. \E q \in Peticiones : s \in creados' \/ s \in petK'[q].hechos
        OBVIOUS
  <2> QED
        BY <1>1, <1>2, <1>4, <2>1 DEF K_Servicio, K!Activa, K!Existe
<1> QED
    BY <1>4, <1>5, <1>6

LEMMA K_CreaGuarda ==
    ASSUME K_IInv, NEW p \in Peticiones, K!CreaGuarda(p)
    PROVE  K_IInv'
<1>1. PICK s \in K!Libres :
        ser' = [ser EXCEPT ![s] = K!Nuevo(petK[p].tenant, petK[p].c, petK[p].cambio.tipo,
                                          petK[p].cambio.activo)] /\ creados' = creados \cup {s}
    BY DEF K!CreaGuarda
<1>2. /\ petK[p].pc = "creaGuarda" /\ K!Terminar(p) /\ UNCHANGED <<cat, archivosK, fallidas>>
      /\ s \in Servicios /\ petK[p].hechos = {}
    BY K_Sabe DEF K!CreaGuarda, K!Libres
<1>3. /\ petK' \in [Peticiones -> K!Peticion] /\ K_Otras(p) /\ cruzadosK' = cruzadosK
      /\ K_Cruce' /\ K_Peticion(petK[p])'
    BY <1>2, K_Termina
<1>4. /\ ser' \in [Servicios -> K!Servicio \cup {Nada}]
      /\ \A x \in Servicios \ {s} : ser'[x] = ser[x]
      /\ K_Cambia(p) /\ K_Servicio(s)'
    BY <1>1, <1>2, <1>3, K_Nuevo
<1>5. /\ creados' \subseteq Servicios /\ creados \subseteq creados'
      /\ archivosK' \subseteq Servicios /\ fallidas' \subseteq Servicios
      /\ cruzadosK' \subseteq Categorias \cup Servicios
    BY <1>1, <1>2, <1>3 DEF K_IInv, K!TypeOK
<1> QED
    BY <1>2, <1>3, <1>4, <1>5, K_EscribeSer

LEMMA K_LoteGuarda ==
    ASSUME K_IInv, NEW p \in Peticiones, K!LoteGuarda(p)
    PROVE  K_IInv'
<1> DEFINE e == petK[p]
           sigue == [e EXCEPT !.pc = "loteResuelve", !.c = Nada,
                              !.destinos = e.destinos \ {e.tenant}]
           falla == [e EXCEPT !.pc = "deshace", !.c = Nada]
<1>1. PICK s \in K!Libres :
        /\ ser' = [ser EXCEPT ![s] = K!Nuevo(e.tenant, e.c, e.cambio.tipo, e.cambio.activo)]
        /\ \/ /\ K!Seguir(p, [e EXCEPT !.pc = "loteResuelve", !.c = Nada,
                                       !.destinos = e.destinos \ {e.tenant},
                                       !.hechos = e.hechos \cup {s}])
              /\ UNCHANGED creados
           \/ K!Seguir(p, falla) /\ creados' = creados \cup {s}
    BY DEF K!LoteGuarda
<1>2. /\ e.pc = "loteGuarda" /\ UNCHANGED <<cat, archivosK, fallidas>>
      /\ s \in Servicios /\ e \in K!Peticion /\ K_Forma(e)
    BY K_Sabe DEF K!LoteGuarda, K!Libres
\* The service is noted by the request, or nobody knows of it.
<1>3. \E r \in K!Peticion :
        /\ r.pc \in {"loteResuelve", "deshace"} /\ r.c = Nada /\ r.s = e.s
        /\ r.cambio = e.cambio /\ K!Seguir(p, r)
        /\ e.hechos \subseteq r.hechos /\ s \in creados' \cup r.hechos
        /\ creados' \subseteq Servicios /\ creados \subseteq creados'
  <2>1. creados \subseteq Servicios
        BY DEF K_IInv, K!TypeOK
  <2>2. ASSUME NEW r, r = [sigue EXCEPT !.hechos = e.hechos \cup {s}]
        PROVE  /\ r \in K!Peticion /\ r.pc = "loteResuelve" /\ r.c = Nada /\ r.s = e.s
               /\ r.cambio = e.cambio /\ r.hechos = e.hechos \cup {s}
        BY <1>2, <2>2 DEF K!Peticion, K!Pasos
  <2>3. /\ falla \in K!Peticion /\ falla.pc = "deshace" /\ falla.c = Nada /\ falla.s = e.s
        /\ falla.cambio = e.cambio /\ falla.hechos = e.hechos
        BY <1>2 DEF K!Peticion, K!Pasos
  <2>4. [sigue EXCEPT !.hechos = e.hechos \cup {s}]
            = [e EXCEPT !.pc = "loteResuelve", !.c = Nada,
                        !.destinos = e.destinos \ {e.tenant}, !.hechos = e.hechos \cup {s}]
        BY <1>2 DEF K!Peticion
  <2> HIDE DEF sigue, falla
  <2>5. CASE /\ K!Seguir(p, [sigue EXCEPT !.hechos = e.hechos \cup {s}])
             /\ UNCHANGED creados
        BY <1>2, <2>1, <2>2, <2>5
  <2>6. CASE K!Seguir(p, falla) /\ creados' = creados \cup {s}
        BY <1>2, <2>1, <2>3, <2>6
  <2> QED
        BY <1>1, <2>4, <2>5, <2>6
<1>4. PICK r \in K!Peticion :
        /\ r.pc \in {"loteResuelve", "deshace"} /\ r.c = Nada /\ r.s = e.s
        /\ r.cambio = e.cambio /\ K!Seguir(p, r)
        /\ e.hechos \subseteq r.hechos /\ s \in creados' \cup r.hechos
        /\ creados' \subseteq Servicios /\ creados \subseteq creados'
    BY <1>3
<1>5. /\ petK' \in [Peticiones -> K!Peticion] /\ K_Otras(p) /\ petK'[p] = r
      /\ cruzadosK' \subseteq Categorias \cup Servicios /\ cruzadosK \subseteq cruzadosK'
      /\ K_Cruce'
    BY <1>4, K_Sigue
<1>6. K_Peticion(petK[p])'
  <2>1. K_Forma(r)
        BY <1>2, <1>4 DEF K_Forma
  <2> QED
        BY <1>2, <1>4, <1>5, <2>1 DEF K_Peticion, K_Forma, K_Vista, K_Baja, K_Suyo
<1>7. /\ ser' \in [Servicios -> K!Servicio \cup {Nada}]
      /\ \A x \in Servicios \ {s} : ser'[x] = ser[x]
      /\ K_Cambia(p) /\ K_Servicio(s)'
    BY <1>1, <1>2, <1>4, <1>5, K_Nuevo
<1>8. archivosK' \subseteq Servicios /\ fallidas' \subseteq Servicios
    BY <1>2 DEF K_IInv, K!TypeOK
<1> QED
    BY <1>2, <1>4, <1>5, <1>6, <1>7, <1>8, K_EscribeSer

LEMMA K_Deshace ==
    ASSUME K_IInv, NEW p \in Peticiones, K!Deshace(p)
    PROVE  K_IInv'
<1> DEFINE e == petK[p]
<1>1. /\ e.pc = "deshace" /\ UNCHANGED <<cat, archivosK, fallidas>>
      /\ e \in K!Peticion /\ K_Forma(e) /\ K_Suyo(e)
    BY K_Sabe DEF K!Deshace
<1>2. CASE e.hechos = {} /\ K!Terminar(p) /\ UNCHANGED <<ser, creados>>
    BY <1>1, <1>2, K_Deja
<1>3. ASSUME NEW s \in e.hechos, K!Seguir(p, [e EXCEPT !.hechos = e.hechos \ {s}]),
             \/ ser' = [ser EXCEPT ![s] = Nada] /\ UNCHANGED creados
             \/ creados' = creados \cup {s} /\ UNCHANGED ser
      PROVE  K_IInv'
  <2> DEFINE r == [e EXCEPT !.hechos = e.hechos \ {s}]
  <2>1. /\ r \in K!Peticion /\ r.pc = "deshace" /\ r.s = e.s /\ r.tenant = e.tenant
        /\ r.hechos = e.hechos \ {s} /\ s \in Servicios
        BY <1>1 DEF K!Peticion
  <2>2. K!Seguir(p, r)
        BY <1>3
  <2> HIDE DEF r
  <2>3. /\ petK' \in [Peticiones -> K!Peticion] /\ K_Otras(p) /\ petK'[p] = r
        /\ cruzadosK' \subseteq Categorias \cup Servicios /\ cruzadosK \subseteq cruzadosK'
        /\ K_Cruce'
        BY <2>1, <2>2, K_Sigue
  <2>4. /\ ser' \in [Servicios -> K!Servicio \cup {Nada}]
        /\ \A x \in Servicios \ {s} : ser'[x] = ser[x]
        /\ ser'[s] = Nada \/ (ser'[s] = ser[s] /\ s \in creados')
        /\ creados' \subseteq Servicios /\ creados \subseteq creados'
        /\ archivosK' \subseteq Servicios /\ fallidas' \subseteq Servicios
        BY <1>1, <1>3, <2>1 DEF K_IInv, K!TypeOK
  <2>5. K_Cambia(p)
        BY <1>1, <2>3, <2>4 DEF K_Cambia, K!Existe
  <2>6. K_Servicio(s)'
    <3>1. CASE ser'[s] = Nada
          BY <3>1 DEF K_Servicio, K!Existe
    <3>2. CASE ser'[s] = ser[s] /\ s \in creados'
          BY <1>1, <2>1, <2>3, <2>4, <2>5, <3>2, K_Igual
    <3> QED
          BY <2>4, <3>1, <3>2
  <2>7. K_Peticion(petK[p])'
    <3>1. K_Forma(r)
          BY <2>1 DEF K_Forma
    <3>2. r.s # Nada /\ K!Existe(ser'[r.s]) => ser'[r.s] = ser[r.s]
      <4>1. r.s \in Servicios \cup {Nada}
            BY <2>1 DEF K!Peticion
      <4> QED
            BY <2>4, <4>1 DEF K!Existe
    <3> QED
          BY <1>1, <2>1, <2>3, <3>1, <3>2
          DEF K_Peticion, K_Forma, K_Vista, K_Baja, K_Suyo, K!Existe
  <2>8. \A x \in Servicios \ {s} : x \in e.hechos => x \in petK'[p].hechos
        BY <2>1, <2>3
  <2> QED
        BY <1>1, <2>1, <2>3, <2>4, <2>5, <2>6, <2>7, <2>8, K_EscribeSer
<1> QED
    BY <1>2, <1>3 DEF K!Deshace

LEMMA K_Retoques ==
    ASSUME K_IInv, NEW s \in Servicios, K!Existe(ser[s]), NEW b \in BOOLEAN
    PROVE  /\ LET d == [ser[s] EXCEPT !.activo = b] IN
                /\ d \in K!Servicio /\ d.activo = b
                /\ d.tenant = ser[s].tenant /\ d.categoria = ser[s].categoria
                /\ d.tipo = ser[s].tipo /\ d.imagen = ser[s].imagen
           /\ LET d == [ser[s] EXCEPT !.imagen = b] IN
                /\ d \in K!Servicio /\ d.imagen = b
                /\ d.tenant = ser[s].tenant /\ d.categoria = ser[s].categoria
                /\ d.tipo = ser[s].tipo /\ d.activo = ser[s].activo
<1>1. ser[s] \in K!Servicio
    BY K_Documentos
<1> QED
    BY <1>1 DEF K!Servicio

\* A document that is rewritten, of a service the request is about
LEMMA K_Retoca ==
    ASSUME K_IInv, NEW p \in Peticiones, K_Otras(p), NEW s \in Servicios, K!Existe(ser[s]),
           NEW d \in K!Servicio, d.tenant = ser[s].tenant, ser' = [ser EXCEPT ![s] = d],
           petK[p].hechos = {},
           petK' \in [Peticiones -> K!Peticion], cruzadosK' \subseteq Categorias \cup Servicios,
           cruzadosK \subseteq cruzadosK', K_Cruce', K_Peticion(petK[p])',
           UNCHANGED <<cat, archivosK, fallidas, creados>>,
           \/ /\ s \in K!Huella(petK[p])
              /\ d.activo => \/ ser[s].activo /\ d.categoria = ser[s].categoria
                             \/ d.categoria \in K!Huella(petK[p]) \/ s \in cruzadosK
           \/ /\ d.categoria = ser[s].categoria /\ d.tipo = ser[s].tipo
              /\ d.imagen => ser[s].imagen
              /\ d.activo => ser[s].activo,
           K!Existe(cat[d.categoria]) /\ cat[d.categoria].tenant = d.tenant,
           d.activo => cat[d.categoria].activo \/ {s, d.categoria} \cap cruzadosK # {},
           s \notin cruzadosK \cup fallidas /\ d.imagen => s \in archivosK /\ d.tipo = "producto"
    PROVE  K_IInv'
<1>1. /\ ser' \in [Servicios -> K!Servicio \cup {Nada}] /\ ser'[s] = d
      /\ \A x \in Servicios \ {s} : ser'[x] = ser[x]
      /\ archivosK' \subseteq Servicios /\ fallidas' \subseteq Servicios /\ creados' \subseteq Servicios
    BY DEF K_IInv, K!TypeOK
<1>2. K_Cambia(p)
    BY <1>1 DEF K_Cambia
<1>3. K_Servicio(s)'
  <2>1. s \in creados \/ \E q \in Peticiones : s \in petK[q].hechos
        BY DEF K_IInv, K_Servicio
  <2>2. s \in creados' \/ \E q \in Peticiones : s \in petK'[q].hechos
        BY <2>1 DEF K_Otras
  <2> QED
        BY <1>1, <2>2 DEF K_Servicio, K!Activa, K!Existe
<1> QED
    BY <1>1, <1>2, <1>3, K_EscribeSer

\* A service in order, as a document
LEMMA K_EnOrden ==
    ASSUME K_IInv, NEW s \in Servicios, K!Existe(ser[s])
    PROVE  /\ K!Existe(cat[ser[s].categoria]) /\ cat[ser[s].categoria].tenant = ser[s].tenant
           /\ ser[s].activo =>
                cat[ser[s].categoria].activo \/ {s, ser[s].categoria} \cap cruzadosK # {}
           /\ s \notin cruzadosK \cup fallidas /\ ser[s].imagen =>
                s \in archivosK /\ ser[s].tipo = "producto"
BY DEF K_IInv, K_Servicio, K!Activa

\* The request goes on to remove the file of a service that has lost its image.
LEMMA K_VaABorrar ==
    ASSUME K_IInv, NEW p \in Peticiones, petK[p].s \in Servicios, petK[p].hechos = {},
           K!Seguir(p, [petK[p] EXCEPT !.pc = "borraArchivo"]),
           K!Existe(ser[petK[p].s]),
           ser'[petK[p].s].tenant = ser[petK[p].s].tenant, ~ser'[petK[p].s].imagen
    PROVE  /\ petK' \in [Peticiones -> K!Peticion] /\ K_Otras(p)
           /\ cruzadosK' \subseteq Categorias \cup Servicios /\ cruzadosK \subseteq cruzadosK'
           /\ K_Cruce' /\ K_Peticion(petK[p])'
<1> DEFINE r == [petK[p] EXCEPT !.pc = "borraArchivo"]
<1>1. /\ petK[p] \in K!Peticion /\ K_Suyo(petK[p])
    BY K_Sabe
<1>2. /\ r \in K!Peticion /\ r.pc = "borraArchivo" /\ r.s = petK[p].s /\ r.tenant = petK[p].tenant
      /\ r.hechos = {}
    BY <1>1 DEF K!Peticion, K!Pasos
<1>3. K!Seguir(p, r)
    OBVIOUS
<1> HIDE DEF r
<1>4. /\ petK' \in [Peticiones -> K!Peticion] /\ K_Otras(p) /\ petK'[p] = r
      /\ cruzadosK' \subseteq Categorias \cup Servicios /\ cruzadosK \subseteq cruzadosK'
      /\ K_Cruce'
    BY <1>2, <1>3, K_Sigue
<1>5. K_Forma(r)
    BY <1>2 DEF K_Forma
<1>6. r.s # Nada => ser'[r.s].tenant = r.tenant
    BY <1>1, <1>2 DEF K_Suyo
<1>7. K_Peticion(petK[p])'
    BY <1>2, <1>4, <1>5, <1>6 DEF K_Peticion, K_Forma, K_Vista, K_Baja, K_Suyo
<1> QED
    BY <1>4, <1>7

LEMMA K_EditaEscribe ==
    ASSUME K_IInv, NEW p \in Peticiones, K!EditaEscribe(p)
    PROVE  K_IInv'
<1> DEFINE r == petK[p]
<1>1. /\ r.pc = "editaEscribe" /\ UNCHANGED <<cat, archivosK, fallidas, creados>>
      /\ r \in K!Peticion /\ r.hechos = {} /\ K_Forma(r) /\ K_Vista(r) /\ K_Suyo(r)
      /\ r.s \in Servicios /\ r.s \in K!Huella(r) /\ r.s # Nada
    BY K_Sabe, ParametersAssumption DEF K!EditaEscribe, K_Forma, K!ConstantsOK
<1> PICK s \in Servicios : s = r.s
    BY <1>1
<1>4. /\ K!Existe(ser[r.s]) /\ r.s \notin cruzadosK
      /\ r.c # Nada /\ r.cambio.categoria = Nada
      => ser[r.s].categoria = r.c
    BY <1>1 DEF K_Suyo
<1>2. CASE K!Terminar(p) /\ UNCHANGED ser
    BY <1>1, <1>2, K_Deja
<1>3. CASE K!Existe(ser[s])
  <2> DEFINE d == K!Cambiado(ser[s], r.cambio)
             on == r.cambio.activo = TRUE
  <2>1. ser[s] \in K!Servicio /\ ser[s].tenant = r.tenant
        BY <1>1, <1>3, K_Documentos DEF K_Suyo
  <2>2. /\ r.cambio.tipo \in K!Tipos \cup {Nada} /\ r.cambio.categoria \in Categorias \cup {Nada}
        /\ r.cambio.activo \in BOOLEAN \cup {Nada}
        BY <1>1 DEF K!Peticion, K!Cambio
  <2>3. /\ d \in K!Servicio /\ d.tenant = ser[s].tenant
        /\ r.cambio.categoria = Nada => d.categoria = ser[s].categoria
        /\ r.cambio.categoria # Nada => d.categoria = r.cambio.categoria
        /\ d.activo => on \/ ser[s].activo
        /\ d.imagen => ser[s].imagen /\ r.cambio.tipo # "servicio"
        /\ d.tipo = "servicio" => r.cambio.tipo = "servicio" \/ ser[s].tipo = "servicio"
        BY <2>1, <2>2 DEF K!Cambiado, K!Servicio, K!O
  <2>4. ser' = [ser EXCEPT ![s] = d]
        BY <1>3 DEF K!EditaEscribe
  <2> HIDE DEF d
  <2>5. /\ petK' \in [Peticiones -> K!Peticion] /\ K_Otras(p)
        /\ cruzadosK' \subseteq Categorias \cup Servicios /\ cruzadosK \subseteq cruzadosK'
        /\ K_Cruce' /\ K_Peticion(petK[p])'
    <3>1. CASE K!Terminar(p)
          BY <3>1, K_Termina DEF K_IInv, K!TypeOK
    <3>2. CASE /\ r.cambio.tipo = "servicio"
               /\ K!Seguir(p, [r EXCEPT !.pc = "borraArchivo"])
      <4>1. ser'[s] = d
            BY <2>4 DEF K_IInv, K!TypeOK
      <4> QED
            BY <1>1, <1>3, <2>3, <3>2, <4>1, K_VaABorrar
    <3> QED
          BY <1>3, <3>1, <3>2 DEF K!EditaEscribe
  <2>6. Nada \notin BOOLEAN /\ Nada \notin K!Tipos /\ Nada \notin Categorias
        BY ParametersAssumption DEF K!ConstantsOK
  <2>7. d.imagen /\ s \notin cruzadosK \cup fallidas => s \in archivosK /\ d.tipo = "producto"
    <3>1. d.tipo \in {"servicio", "producto"} /\ ser[s].tipo \in {"servicio", "producto"}
          BY <2>1, <2>3 DEF K!Servicio, K!Tipos
    <3> QED
          BY <1>3, <2>3, <3>1, K_EnOrden
  <2>8. /\ r.cambio.categoria \in {Nada, r.c}
        /\ on => r.c \in Categorias
        /\ r.c # Nada => r.c \in K!Huella(r)
        BY <1>1, K_Sabe DEF K_Forma
  <2> HIDE DEF on
  <2>9. CASE r.cambio.categoria # Nada
    <3>1. /\ d.categoria = r.cambio.categoria /\ r.cambio.categoria = r.c
          /\ d.categoria \in K!Huella(r)
          BY <2>3, <2>8, <2>9
    <3>2. /\ K!Existe(cat[d.categoria]) /\ cat[d.categoria].tenant = d.tenant
          /\ cat[d.categoria].activo \/ d.categoria \in cruzadosK
          BY <1>1, <2>1, <2>3, <2>9, <3>1 DEF K_Vista
    <3> QED
          BY <1>1, <1>3, <2>3, <2>4, <2>5, <2>7, <3>1, <3>2, K_Retoca
  <2>10. CASE r.cambio.categoria = Nada
    <3>1. d.categoria = ser[s].categoria
          BY <2>3, <2>10
    <3>2. CASE on
      <4>1. /\ r.c \in Categorias /\ r.c # Nada /\ r.c \in K!Huella(r)
            BY <2>6, <2>8, <2>10, <3>2
      <4>2. s \notin cruzadosK => ser[s].categoria = r.c
            BY <1>3, <1>4, <2>10, <4>1
      <4>3. cat[r.c].activo \/ r.c \in cruzadosK
            BY <1>1, <4>1 DEF K_Vista
      <4>4. cat[d.categoria].activo \/ {s, d.categoria} \cap cruzadosK # {}
            BY <3>1, <4>2, <4>3
      <4>5. K!Existe(cat[d.categoria]) /\ cat[d.categoria].tenant = d.tenant
            BY <1>3, <2>3, <3>1, K_EnOrden
      <4>6. d.categoria \in K!Huella(r) \/ s \in cruzadosK
            BY <3>1, <4>1, <4>2
      <4> QED
            BY <1>1, <1>3, <2>3, <2>4, <2>5, <2>7, <4>4, <4>5, <4>6, K_Retoca
    <3>3. CASE ~on
      <4>1. d.activo => ser[s].activo
            BY <2>3, <3>3
      <4>2. d.activo => cat[d.categoria].activo \/ {s, d.categoria} \cap cruzadosK # {}
            BY <1>3, <3>1, <4>1, K_EnOrden
      <4>3. K!Existe(cat[d.categoria]) /\ cat[d.categoria].tenant = d.tenant
            BY <1>3, <2>3, <3>1, K_EnOrden
      <4> QED
            BY <1>1, <1>3, <2>3, <2>4, <2>5, <2>7, <3>1, <4>1, <4>2, <4>3, K_Retoca
    <3> QED
          BY <3>2, <3>3
  <2> QED
        BY <2>9, <2>10
<1> QED
    BY <1>2, <1>3 DEF K!EditaEscribe

\* A switch is about its service, which is in the category it has verified.
LEMMA K_AlternaGuarda ==
    ASSUME K_IInv, NEW p \in Peticiones, K!AlternaGuarda(p)
    PROVE  K_IInv'
<1> DEFINE r == petK[p]
           on == r.cambio.activo
<1>1. /\ r.pc = "alternaGuarda" /\ UNCHANGED <<cat, archivosK, fallidas, creados>>
      /\ K!Terminar(p) /\ r.hechos = {} /\ K_Forma(r) /\ K_Vista(r) /\ K_Suyo(r)
      /\ r.s \in Servicios /\ r.s \in K!Huella(r)
    BY K_Sabe, ParametersAssumption DEF K!AlternaGuarda, K_Forma, K!ConstantsOK
<1>2. on \in BOOLEAN /\ r.cambio.categoria = Nada /\ (on => r.c \in Categorias)
    BY <1>1 DEF K_Forma
<1>3. /\ K!Existe(ser[r.s]) /\ r.s \notin cruzadosK /\ r.c # Nada => ser[r.s].categoria = r.c
      /\ r.c # Nada => cat[r.c].activo \/ r.c \in cruzadosK
    BY <1>1, <1>2, ParametersAssumption DEF K_Suyo, K_Vista, K!ConstantsOK
<1>4. on => r.c # Nada /\ r.c \in K!Huella(r)
    BY <1>2, K_Sabe, ParametersAssumption DEF K!ConstantsOK
<1> PICK s \in Servicios : s = r.s
    BY <1>1
<1>5. CASE ~K!Existe(ser[s])
    BY <1>1, <1>5, K_Deja DEF K!AlternaGuarda
<1>6. CASE K!Existe(ser[s])
  <2> DEFINE d == [ser[s] EXCEPT !.activo = on]
  <2>1. ser' = [ser EXCEPT ![s] = d]
        BY <1>6 DEF K!AlternaGuarda
  <2>2. /\ d \in K!Servicio /\ d.activo = on /\ d.tenant = ser[s].tenant
        /\ d.categoria = ser[s].categoria /\ d.tipo = ser[s].tipo /\ d.imagen = ser[s].imagen
        BY <1>2, <1>6, K_Retoques
  <2> HIDE DEF d
  <2>3. /\ petK' \in [Peticiones -> K!Peticion] /\ K_Otras(p) /\ K_Cruce' /\ K_Peticion(petK[p])'
        /\ cruzadosK' \subseteq Categorias \cup Servicios /\ cruzadosK \subseteq cruzadosK'
        BY <1>1, K_Termina DEF K_IInv, K!TypeOK
  <2>4. /\ d.activo => d.categoria \in K!Huella(r) \/ s \in cruzadosK
        /\ d.activo => cat[d.categoria].activo \/ {s, d.categoria} \cap cruzadosK # {}
        BY <1>3, <1>4, <1>6, <2>2
  <2>5. /\ K!Existe(cat[d.categoria]) /\ cat[d.categoria].tenant = d.tenant
        /\ s \notin cruzadosK \cup fallidas /\ d.imagen => s \in archivosK /\ d.tipo = "producto"
        BY <1>6, <2>2, K_EnOrden
  <2> QED
        BY <1>1, <1>6, <2>1, <2>2, <2>3, <2>4, <2>5, K_Retoca
<1> QED
    BY <1>5, <1>6

\* What only takes from a service leaves it in order.
LEMMA K_Quita ==
    ASSUME K_IInv, NEW p \in Peticiones, K_Otras(p), NEW s \in Servicios, K!Existe(ser[s]),
           \/ ser' = [ser EXCEPT ![s] = [ser[s] EXCEPT !.activo = FALSE]]
           \/ ser' = [ser EXCEPT ![s] = [ser[s] EXCEPT !.imagen = FALSE]],
           petK[p].hechos = {},
           petK' \in [Peticiones -> K!Peticion], cruzadosK' \subseteq Categorias \cup Servicios,
           cruzadosK \subseteq cruzadosK', K_Cruce', K_Peticion(petK[p])',
           UNCHANGED <<cat, archivosK, fallidas, creados>>
    PROVE  K_IInv'
<1>1. ASSUME NEW d \in K!Servicio, ser' = [ser EXCEPT ![s] = d], d.tenant = ser[s].tenant,
             d.categoria = ser[s].categoria, d.tipo = ser[s].tipo,
             d.imagen => ser[s].imagen, d.activo => ser[s].activo
      PROVE  K_IInv'
  <2>1. /\ K!Existe(cat[d.categoria]) /\ cat[d.categoria].tenant = d.tenant
        /\ d.activo => cat[d.categoria].activo \/ {s, d.categoria} \cap cruzadosK # {}
        /\ s \notin cruzadosK \cup fallidas /\ d.imagen => s \in archivosK /\ d.tipo = "producto"
        BY <1>1, K_EnOrden
  <2> QED
        BY <1>1, <2>1, K_Retoca
<1>2. /\ LET d == [ser[s] EXCEPT !.activo = FALSE] IN
            /\ d \in K!Servicio /\ d.activo = FALSE
            /\ d.tenant = ser[s].tenant /\ d.categoria = ser[s].categoria
            /\ d.tipo = ser[s].tipo /\ d.imagen = ser[s].imagen
      /\ LET d == [ser[s] EXCEPT !.imagen = FALSE] IN
            /\ d \in K!Servicio /\ d.imagen = FALSE
            /\ d.tenant = ser[s].tenant /\ d.categoria = ser[s].categoria
            /\ d.tipo = ser[s].tipo /\ d.activo = ser[s].activo
    BY K_Retoques
<1>3. CASE ser' = [ser EXCEPT ![s] = [ser[s] EXCEPT !.activo = FALSE]]
    BY <1>1, <1>2, <1>3
<1>4. CASE ser' = [ser EXCEPT ![s] = [ser[s] EXCEPT !.imagen = FALSE]]
    BY <1>1, <1>2, <1>4
<1> QED
    BY <1>3, <1>4

LEMMA K_BajaServicio ==
    ASSUME K_IInv, NEW p \in Peticiones, NEW s \in Servicios, K!BajaServicio(p, s)
    PROVE  K_IInv'
<1>1. /\ petK[p].hechos = {} /\ K!Terminar(p) /\ K!Existe(ser[s])
      /\ ser' = [ser EXCEPT ![s] = [ser[s] EXCEPT !.activo = FALSE]]
      /\ UNCHANGED <<cat, archivosK, fallidas, creados>>
    BY K_Sabe DEF K!BajaServicio
<1>2. /\ petK' \in [Peticiones -> K!Peticion] /\ K_Otras(p) /\ K_Cruce' /\ K_Peticion(petK[p])'
      /\ cruzadosK' \subseteq Categorias \cup Servicios /\ cruzadosK \subseteq cruzadosK'
    BY <1>1, K_Termina DEF K_IInv, K!TypeOK
<1> QED
    BY <1>1, <1>2, K_Quita

LEMMA K_QuitaEscribe ==
    ASSUME K_IInv, NEW p \in Peticiones, K!QuitaEscribe(p)
    PROVE  K_IInv'
<1>1. /\ petK[p].pc = "quitaEscribe" /\ petK[p].hechos = {} /\ petK[p].s \in Servicios
      /\ UNCHANGED <<cat, archivosK, fallidas, creados>>
    BY K_Sabe DEF K!QuitaEscribe, K_Forma
<1> PICK s \in Servicios : s = petK[p].s
    BY <1>1
<1>2. CASE ~K!Existe(ser[s])
    BY <1>1, <1>2, K_Deja DEF K!QuitaEscribe
<1>3. CASE K!Existe(ser[s])
  <2>1. /\ ser' = [ser EXCEPT ![s] = [ser[s] EXCEPT !.imagen = FALSE]]
        /\ K!Seguir(p, [petK[p] EXCEPT !.pc = "borraArchivo"])
        BY <1>3 DEF K!QuitaEscribe
  <2>2. ser'[s] = [ser[s] EXCEPT !.imagen = FALSE]
        BY <2>1 DEF K_IInv, K!TypeOK
  <2>3. ser'[s].tenant = ser[s].tenant /\ ~ser'[s].imagen
        BY <1>3, <2>2, K_Retoques
  <2>4. /\ petK' \in [Peticiones -> K!Peticion] /\ K_Otras(p) /\ K_Cruce' /\ K_Peticion(petK[p])'
        /\ cruzadosK' \subseteq Categorias \cup Servicios /\ cruzadosK \subseteq cruzadosK'
        BY <1>1, <1>3, <2>1, <2>3, K_VaABorrar
  <2> QED
        BY <1>1, <1>3, <2>1, <2>4, K_Quita
<1> QED
    BY <1>2, <1>3

\* A step of files only: of the service its request is about
LEMMA K_Archivo ==
    ASSUME K_IInv, NEW p \in Peticiones, K_Otras(p), NEW s \in K!Huella(petK[p]),
           s \in Servicios, petK[p].hechos = {},
           petK' \in [Peticiones -> K!Peticion], cruzadosK' \subseteq Categorias \cup Servicios,
           cruzadosK \subseteq cruzadosK', K_Cruce', K_Peticion(petK[p])',
           UNCHANGED <<cat, ser, creados>>, archivosK' \subseteq Servicios,
           \A x \in Servicios \ {s} : x \in archivosK <=> x \in archivosK',
           fallidas \subseteq fallidas', fallidas' \subseteq Servicios,
           K!Existe(ser[s]) /\ ser[s].imagen /\ s \notin cruzadosK \cup fallidas' => s \in archivosK'
    PROVE  K_IInv'
<1>1. K_Cambia(p)
    BY DEF K_Cambia, K_IInv, K!TypeOK
<1>2. K_Servicio(s)'
  <2> SUFFICES ASSUME K!Existe(ser[s]) PROVE K_Servicio(s)'
      BY DEF K_Servicio, K!Existe
  <2>1. s \in creados \/ \E q \in Peticiones : s \in petK[q].hechos
        BY DEF K_IInv, K_Servicio
  <2>2. s \in creados' \/ \E q \in Peticiones : s \in petK'[q].hechos
        BY <2>1 DEF K_Otras
  <2> QED
        BY <2>2, K_EnOrden DEF K_Servicio, K!Activa, K!Existe
<1>3. ser' \in [Servicios -> K!Servicio \cup {Nada}] /\ creados' \subseteq Servicios
    BY DEF K_IInv, K!TypeOK
<1> QED
    BY <1>1, <1>2, <1>3, K_EscribeSer

LEMMA K_ImagenGuarda ==
    ASSUME K_IInv, NEW p \in Peticiones, K!ImagenGuarda(p)
    PROVE  K_IInv'
<1> DEFINE e == petK[p]
           r == [petK[p] EXCEPT !.pc = "imagenEscribe"]
<1>1. /\ e.pc = "imagenGuarda" /\ e.hechos = {} /\ e \in K!Peticion /\ K_Suyo(e)
      /\ e.s \in Servicios /\ e.s \in K!Huella(e) /\ archivosK' = archivosK \cup {e.s}
      /\ UNCHANGED <<cat, ser, fallidas, creados>>
    BY K_Sabe, ParametersAssumption DEF K!ImagenGuarda, K_Forma, K!ConstantsOK
<1>2. /\ r \in K!Peticion /\ r.pc = "imagenEscribe" /\ r.s = e.s /\ r.tenant = e.tenant
      /\ r.hechos = {}
    BY <1>1 DEF K!Peticion, K!Pasos
<1>3. K!Seguir(p, r)
    BY DEF K!ImagenGuarda
<1> HIDE DEF r
<1>4. /\ petK' \in [Peticiones -> K!Peticion] /\ K_Otras(p) /\ petK'[p] = r
      /\ cruzadosK' \subseteq Categorias \cup Servicios /\ cruzadosK \subseteq cruzadosK'
      /\ K_Cruce'
    BY <1>2, <1>3, K_Sigue
<1>5. K_Forma(r)
    BY <1>1, <1>2 DEF K_Forma
<1>6. K_Peticion(petK[p])'
  <2>1. K!Existe(ser[r.s]) => /\ ser[r.s].tenant = r.tenant
                              /\ r.s \notin cruzadosK => ser[r.s].tipo = "producto"
                              /\ r.s \in archivosK'
        BY <1>1, <1>2, ParametersAssumption DEF K_Suyo, K!ConstantsOK
  <2> QED
        BY <1>1, <1>2, <1>4, <1>5, <2>1 DEF K_Peticion, K_Forma, K_Vista, K_Baja, K_Suyo, K!Existe
<1>7. archivosK' \subseteq Servicios /\ fallidas' \subseteq Servicios
    BY <1>1 DEF K_IInv, K!TypeOK
<1> QED
    BY <1>1, <1>4, <1>6, <1>7, K_Archivo

LEMMA K_ImagenEscribe ==
    ASSUME K_IInv, NEW p \in Peticiones, K!ImagenEscribe(p)
    PROVE  K_IInv'
<1> DEFINE r == petK[p]
<1>1. /\ r.pc = "imagenEscribe" /\ r.hechos = {} /\ K_Suyo(r) /\ K!Terminar(p)
      /\ r.s \in Servicios /\ r.s \in K!Huella(r) /\ r.s # Nada
      /\ UNCHANGED <<cat, creados>>
    BY K_Sabe, ParametersAssumption DEF K!ImagenEscribe, K_Forma, K!ConstantsOK
<1>2. /\ petK' \in [Peticiones -> K!Peticion] /\ K_Otras(p) /\ K_Cruce' /\ K_Peticion(petK[p])'
      /\ cruzadosK' \subseteq Categorias \cup Servicios /\ cruzadosK \subseteq cruzadosK'
    BY <1>1, K_Termina DEF K_IInv, K!TypeOK
<1>3. K!Existe(ser[r.s]) /\ r.s \notin cruzadosK => ser[r.s].tipo = "producto" /\ r.s \in archivosK
    BY <1>1 DEF K_Suyo
<1> PICK s \in Servicios : s = r.s
    BY <1>1
<1>4. CASE /\ K!Existe(ser[s]) /\ ser' = [ser EXCEPT ![s].imagen = TRUE]
           /\ UNCHANGED <<archivosK, fallidas>>
  <2> DEFINE d == [ser[s] EXCEPT !.imagen = TRUE]
  <2>1. /\ d \in K!Servicio /\ d.tenant = ser[s].tenant /\ d.categoria = ser[s].categoria
        /\ d.tipo = ser[s].tipo /\ d.activo = ser[s].activo
        BY <1>4, K_Retoques
  <2>2. ser' = [ser EXCEPT ![s] = d]
        BY <1>4
  <2> HIDE DEF d
  <2>3. /\ K!Existe(cat[d.categoria]) /\ cat[d.categoria].tenant = d.tenant
        /\ d.activo => cat[d.categoria].activo \/ {s, d.categoria} \cap cruzadosK # {}
        BY <1>4, <2>1, K_EnOrden
  <2>4. s \notin cruzadosK \cup fallidas /\ d.imagen => s \in archivosK /\ d.tipo = "producto"
        BY <1>3, <1>4, <2>1
  <2> QED
        BY <1>1, <1>2, <1>4, <2>1, <2>2, <2>3, <2>4, K_Retoca
<1>5. CASE archivosK' = archivosK \ {s} /\ fallidas' = fallidas \cup {s} /\ UNCHANGED ser
  <2>1. archivosK' \subseteq Servicios /\ fallidas' \subseteq Servicios
        BY <1>5 DEF K_IInv, K!TypeOK
  <2> QED
        BY <1>1, <1>2, <1>5, <2>1, K_Archivo
<1> QED
    BY <1>4, <1>5 DEF K!ImagenEscribe

LEMMA K_BorraArchivo ==
    ASSUME K_IInv, NEW p \in Peticiones, K!BorraArchivo(p)
    PROVE  K_IInv'
<1> DEFINE r == petK[p]
<1>1. /\ r.pc = "borraArchivo" /\ r.hechos = {} /\ K_Suyo(r) /\ K!Terminar(p)
      /\ r.s \in Servicios /\ r.s \in K!Huella(r) /\ r.s # Nada
      /\ UNCHANGED <<cat, ser, fallidas, creados>>
      /\ archivosK' = archivosK \ {r.s} \/ UNCHANGED archivosK
    BY K_Sabe, ParametersAssumption DEF K!BorraArchivo, K_Forma, K!ConstantsOK
<1>2. /\ petK' \in [Peticiones -> K!Peticion] /\ K_Otras(p) /\ K_Cruce' /\ K_Peticion(petK[p])'
      /\ cruzadosK' \subseteq Categorias \cup Servicios /\ cruzadosK \subseteq cruzadosK'
    BY <1>1, K_Termina DEF K_IInv, K!TypeOK
<1>3. K!Existe(ser[r.s]) /\ r.s \notin cruzadosK => ~ser[r.s].imagen
    BY <1>1 DEF K_Suyo
<1>4. archivosK' \subseteq Servicios /\ fallidas' \subseteq Servicios
    BY <1>1 DEF K_IInv, K!TypeOK
<1> QED
    BY <1>1, <1>2, <1>3, <1>4, K_Archivo

LEMMA K_Inicio ==
    ASSUME K!Init
    PROVE  K_IInv
<1>1. PICK k \in Iniciales :
        /\ cat = k.cat /\ ser = k.ser
        /\ archivosK = {s \in Servicios : k.ser[s] # Nada /\ k.ser[s].imagen}
        /\ creados = {s \in Servicios : k.ser[s] # Nada}
    BY DEF K!Init
<1>2. K!CatalogoSano(k)
    BY ParametersAssumption DEF K!ConstantsOK
<1>3. petK = [p \in Peticiones |-> K!Libre] /\ cruzadosK = {} /\ fallidas = {}
    BY DEF K!Init
<1>4. /\ K!Libre \in K!Peticion /\ K!Libre.pc = "libre" /\ K!Libre.s = Nada
      /\ K!Libre.hechos = {} /\ K!Huella(K!Libre) = {}
    BY DEF K!Libre, K!Peticion, K!Pasos, K!Cambio, K!SinCambio, K!Huella
<1>5. K!TypeOK /\ K_Cruce
    BY <1>1, <1>2, <1>3, <1>4 DEF K!TypeOK, K!CatalogoSano, K_Cruce
<1>6. \A p \in Peticiones : K_Peticion(petK[p])
    BY <1>3, <1>4 DEF K_Peticion, K_Forma, K_Vista, K_Baja, K_Suyo
<1>7. ASSUME NEW s \in Servicios PROVE K_Servicio(s)
    BY <1>1, <1>2 DEF K_Servicio, K!CatalogoSano, K!Existe, K!Activa
<1> QED
    BY <1>5, <1>6, <1>7 DEF K_IInv

LEMMA K_Paso ==
    ASSUME K_IInv, [K!Next]_varsK
    PROVE  K_IInv'
<1>1. CASE UNCHANGED varsK
  <2>1. UNCHANGED <<cat, ser, archivosK, petK, cruzadosK, fallidas, creados>>
        BY <1>1 DEF varsK
  <2>2. K!TypeOK' /\ K_Cruce'
        BY <2>1 DEF K_IInv, K!TypeOK, K_Cruce, K!Huella
  <2>3. ASSUME NEW p \in Peticiones PROVE K_Peticion(petK[p])'
    <3>1. K_Peticion(petK[p])
          BY DEF K_IInv
    <3> QED
          BY <2>1, <3>1
          DEF K_Peticion, K_Forma, K_Vista, K_Baja, K_Suyo, K!Huella, K!Usuarios, K!Existe
  <2>4. ASSUME NEW s \in Servicios PROVE K_Servicio(s)'
    <3>1. K_Servicio(s)
          BY DEF K_IInv
    <3> QED
          BY <2>1, <3>1 DEF K_Servicio, K!Activa, K!Existe
  <2> QED
        BY <2>2, <2>3, <2>4 DEF K_IInv
<1>2. ASSUME NEW p \in Peticiones,
             \/ \E t \in Tenants, k \in Codigos : K!CrearCategoria(p, t, k)
             \/ \E c \in Categorias, k \in Codigos : K!EditarCategoria(p, c, k)
             \/ \E c \in Categorias : K!BajaCategoria(p, c)
             \/ \E t \in Tenants, d \in Altas : K!CrearServicio(p, t, d)
             \/ \E T \in SUBSET Tenants, d \in Altas : K!CrearLote(p, T, d)
             \/ \E s \in Servicios, d \in Cambios : K!EditarServicio(p, s, d)
             \/ \E s \in Servicios : K!Alternar(p, s) \/ K!BajaServicio(p, s)
             \/ \E s \in Servicios : K!SubirImagen(p, s) \/ K!QuitarImagen(p, s)
      PROVE  K_IInv'
    BY <1>2, K_Categorias, K_CatEscrita, K_Creaciones, K_Ediciones, K_Alternar, K_BajaServicio,
       K_Imagenes
<1>3. ASSUME NEW p \in Peticiones,
             \/ K!CatInserta(p) \/ K!CatReactiva(p) \/ K!BajaCuenta(p) \/ K!BajaEscribe(p)
             \/ K!CreaVerifica(p) \/ K!CreaGuarda(p)
             \/ K!LoteResuelve(p) \/ K!LoteGuarda(p) \/ K!DeshacerLote(p) \/ K!Deshace(p)
             \/ K!EditaBusca(p) \/ K!EditaVerifica(p) \/ K!EditaEscribe(p)
             \/ K!AlternaVerifica(p) \/ K!AlternaGuarda(p)
             \/ K!ImagenGuarda(p) \/ K!ImagenEscribe(p) \/ K!QuitaEscribe(p) \/ K!BorraArchivo(p)
             \/ K!Abortar(p)
      PROVE  K_IInv'
    BY <1>3, K_CatInserta, K_CatEscrita, K_Verifica, K_CreaGuarda, K_Lotes, K_LoteGuarda, K_Deshace,
       K_Busca, K_EditaEscribe, K_AlternaGuarda, K_ImagenGuarda, K_ImagenEscribe, K_QuitaEscribe,
       K_BorraArchivo, K_Cortes
<1> QED
    BY <1>1, <1>2, <1>3 DEF K!Next

-----------------------------------------------------------------------------
(* Theorems *)

\* A step of the whole is a step of each part or leaves it as it is.
LEMMA Partes ==
    ASSUME [NextTodo]_<<vars, varsA, varsC, varsK>>
    PROVE  [Next]_vars /\ [A!Next]_varsA /\ [C!TodoNext]_varsC /\ [K!Next]_varsK
BY DEF NextTodo, PasoRestablecer, PasoAlta, PasoEnvio, PasoCatalogo

\* Every state that is reached satisfies the inductive invariant of onboarding: who
\* is in a tenant and what its onboarding has done so far (tenants.service.ts:164).
THEOREM AltaIInv == SpecTodo => []A_IInv
<1>1. InitTodo => A_IInv
    BY A_Inicio DEF InitTodo
<1>2. A_IInv /\ [NextTodo]_<<vars, varsA, varsC, varsK>> => A_IInv'
    BY A_Paso, Partes
<1> QED
    BY <1>1, <1>2, PTL DEF SpecTodo

\* A tenant whose onboarding was answered with success is there with its
\* configuration, all its templates and an account, whatever others did in it
\* (tenants.service.ts:164).
THEOREM OnboardingIsComplete == SpecTodo => []AltaCompleta
<1>1. A_IInv => AltaCompleta
  <2>1. A_IInv => logradas \subseteq Tenants
        BY DEF A_IInv, A!TypeOK
  <2> QED
        BY <2>1 DEF AltaCompleta, A!AltaCompleta, A_IInv, A_Tenant, A_Lograda
<1> QED
    BY <1>1, AltaIInv, PTL

\* An onboarding that was taken back with no error leaves nothing of the tenant
\* that another request did not put there (tenants.service.ts:243).
THEOREM NothingIsLeftBehind == SpecTodo => []SinHuerfanos
<1>1. A_IInv => SinHuerfanos
  <2>1. A_IInv => deshechas \subseteq Tenants
        BY DEF A_IInv, A!TypeOK
  <2> QED
        BY <2>1 DEF SinHuerfanos, A!SinHuerfanos, A_IInv, A_Tenant, A_Deshecha
<1> QED
    BY <1>1, AltaIInv, PTL

\* Every state that is reached satisfies the inductive invariant of the
\* configuration and its mails: what a change of the account would write is
\* coherent, each step of a logo's change finds what the one before left, and a mail
\* is about to use a user with its own password (tenant-config.service.ts:269, :473;
\* emails.service.ts:107).
THEOREM EnvioIInv == SpecTodo => []C_IInv
<1>1. InitTodo => C_IInv
    BY C_Inicio, ParametersAssumption DEF InitTodo
<1>2. C_IInv /\ [NextTodo]_<<vars, varsA, varsC, varsK>> => C_IInv'
    BY C_Paso, Partes, ParametersAssumption
<1> QED
    BY <1>1, <1>2, PTL DEF SpecTodo

\* The secret that is stored is of the user that is stored, unless two changes of
\* the account crossed (tenant-config.service.ts:350).
THEOREM PairIsCoherent == SpecTodo => []C!ParCoherente
<1>1. C_IInv => C!ParCoherente
    BY DEF C_IInv, C_Conf, C_Cuenta, C!ParCoherente
<1> QED
    BY <1>1, EnvioIInv, PTL

\* The logo that is named is the only file on disk, but while it is changed, and
\* unless its changes crossed or one could not finish
\* (tenant-config.service.ts:473, :509).
THEOREM LogoIsServed == SpecTodo => []LogoServido
<1>1. C_IInv => LogoServido
    BY C_Logos2 DEF LogoServido
<1> QED
    BY <1>1, EnvioIInv, PTL

\* A mail never leaves as one account with the password of another, unless two
\* changes of the account crossed, and its connection does not outlive it
\* (emails.service.ts:107, :306).
THEOREM MailIsOwn == SpecTodo => []EnvioPropio
<1>1. C_IInv => EnvioPropio
    BY DEF C_IInv, C_Correspondencia, EnvioPropio
<1> QED
    BY <1>1, EnvioIInv, PTL

\* Every state that is reached satisfies the inductive invariant of the catalogue:
\* what a request has read of a category or a service still holds, unless another
\* request in flight is about the same one (servicios.service.ts:120,
\* categorias-servicio.service.ts:240).
THEOREM CatalogoIInv == SpecTodo => []K_IInv
<1>1. InitTodo => K_IInv
    BY K_Inicio DEF InitTodo
<1>2. K_IInv /\ [NextTodo]_<<vars, varsA, varsC, varsK>> => K_IInv'
    BY K_Paso, Partes
<1> QED
    BY <1>1, <1>2, PTL DEF SpecTodo

\* A service that can be sold is in an active category of its tenant, unless two
\* requests about that category, or about that service, were in flight together
\* (servicios.service.ts:120, categorias-servicio.service.ts:240).
THEOREM CategoryIsActive == SpecTodo => []CategoriaEnUso
<1>1. K_IInv => CategoriaEnUso
    BY DEF K_IInv, K_Servicio, CategoriaEnUso, K!CategoriaEnUso
<1> QED
    BY <1>1, CatalogoIInv, PTL

\* What a product serves as its image is on disk, unless its requests crossed or an
\* upload of it could not be registered (servicios.service.ts:755).
THEOREM ImageIsServed == SpecTodo => []ImagenServida
<1>1. K_IInv => ImagenServida
    BY DEF K_IInv, K_Servicio, ImagenServida, K!ImagenServida
<1> QED
    BY <1>1, CatalogoIInv, PTL

\* A creation in several tenants that is refused leaves behind no service that it
\* knows of: each one is of a creation that was answered or is in flight, or is left by
\* one that stopped, could not delete it, or was told that its save had failed
\* (servicios.service.ts:384, :396).
THEOREM BatchIsWhole == SpecTodo => []LoteEntero
<1>1. K_IInv => LoteEntero
    BY DEF K_IInv, K_Servicio, LoteEntero, K!LoteEntero
<1> QED
    BY <1>1, CatalogoIInv, PTL

\* The documents, files and locals of every part keep their types.
THEOREM TypesAreCorrect == SpecTodo => []TiposOK
<1>1. [NextTodo]_<<vars, varsA, varsC, varsK>> => [Next]_vars
    BY Partes
<1>2. InitTodo => Init
    BY DEF InitTodo
<1>3. SpecTodo => Spec
    BY <1>1, <1>2, PTL DEF SpecTodo, Spec
<1>4. TypeOK /\ A_IInv /\ C_IInv /\ K_IInv => TiposOK
    BY DEF TiposOK, A_IInv, C_IInv, C_Conf, C_Correspondencia, K_IInv
<1> QED
    BY <1>3, <1>4, TypeCorrect, AltaIInv, EnvioIInv, CatalogoIInv, PTL
=============================================================================
