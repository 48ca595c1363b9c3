------------------------------ MODULE Catalogo ------------------------------
(***************************************************************************)
(* The catalogue of the tenants (categorias-servicio.service.ts,           *)
(* servicios.service.ts): categories are created, recoded and withdrawn,   *)
(* services are created (alone, by an import, or in several tenants at     *)
(* once), changed, switched on and off, and products have an image, a file *)
(* on disk beside a field of the document.                                 *)
(*                                                                         *)
(* A request checks a category, or counts the services of one, in a round  *)
(* trip and writes in a later one.  Each action is one round trip, or one  *)
(* change on disk.  Names, prices and the codes of services are left out:  *)
(* a code only makes a creation fail, which Abortar and DeshacerLote do.   *)
(***************************************************************************)
EXTENDS Naturals, FiniteSets

CONSTANTS
    Tenants,
    Categorias,     \* ids of categories
    Codigos,        \* codes of categories
    Servicios,      \* ids of services
    Peticiones,     \* requests
    Altas, Ediciones,   \* the fields creations and updates of services may give
    Iniciales,      \* catalogues to start from: [cat, ser]
    Nada            \* no value: an absent document, field or parameter

Categoria == [tenant : Tenants, codigo : Codigos, activo : BOOLEAN]

Tipos == {"servicio", "producto"}

Servicio == [tenant : Tenants, categoria : Categorias, tipo : Tipos,
             activo : BOOLEAN, imagen : BOOLEAN]

VARIABLES
    cat,        \* the documents of categorias_servicio
    ser,        \* the documents of servicios
    archivos,   \* the services with a file under uploads/catalogo
    pet,        \* the requests in flight
    cruzados,   \* history: what two requests in flight at once were about
    fallidas,   \* history: services whose image could not be registered
    creados     \* history: services created, and those a refused creation left

vars == <<cat, ser, archivos, pet, cruzados, fallidas, creados>>

Pasos == {"libre", "hecha",
          "catInserta", "catReactiva", "bajaCuenta", "bajaEscribe",
          "creaVerifica", "creaGuarda", "loteResuelve", "loteGuarda", "deshace",
          "editaBusca", "editaVerifica", "editaEscribe",
          "alternaVerifica", "alternaGuarda",
          "imagenGuarda", "imagenEscribe", "quitaEscribe", "borraArchivo"}

\* c, s: what the request is about; cambio: the fields it writes; codigo: the
\* code it looks for; destinos, hechos: of a creation in several tenants.
Cambio == [tipo : Tipos \cup {Nada}, categoria : Categorias \cup {Nada},
           activo : BOOLEAN \cup {Nada}]

SinCambio == [tipo |-> Nada, categoria |-> Nada, activo |-> Nada]

Peticion == [pc : Pasos, tenant : Tenants \cup {Nada}, c : Categorias \cup {Nada},
             s : Servicios \cup {Nada}, codigo : Codigos \cup {Nada}, cambio : Cambio,
             destinos : SUBSET Tenants, hechos : SUBSET Servicios]

\* A request not made yet; each one is made once.
Libre == [pc |-> "libre", tenant |-> Nada, c |-> Nada, s |-> Nada, codigo |-> Nada,
          cambio |-> SinCambio, destinos |-> {}, hechos |-> {}]

Hecha == [Libre EXCEPT !.pc = "hecha"]

\* No service of a starting catalogue is in use by a withdrawn category, and
\* its images are on disk.
CatalogoSano(k) ==
    /\ k.cat \in [Categorias -> Categoria \cup {Nada}]
    /\ k.ser \in [Servicios -> Servicio \cup {Nada}]
    /\ \A s \in Servicios : k.ser[s] # Nada =>
        /\ k.cat[k.ser[s].categoria] # Nada
        /\ k.cat[k.ser[s].categoria].tenant = k.ser[s].tenant
        /\ k.ser[s].activo => k.cat[k.ser[s].categoria].activo
        /\ k.ser[s].imagen => k.ser[s].tipo = "producto"

ConstantsOK ==
    /\ Nada \notin Tenants /\ Nada \notin Categorias /\ Nada \notin Codigos
    /\ Nada \notin Servicios /\ Nada \notin Tipos /\ Nada \notin BOOLEAN
    /\ Nada \notin Categoria /\ Nada \notin Servicio
    /\ Categorias \cap Servicios = {}
    /\ Altas \subseteq [tipo : Tipos, categoria : Categorias, activo : BOOLEAN]
    /\ Ediciones \subseteq Cambio
    /\ \A k \in Iniciales : CatalogoSano(k)

TypeOK ==
    /\ cat \in [Categorias -> Categoria \cup {Nada}]
    /\ ser \in [Servicios -> Servicio \cup {Nada}]
    /\ archivos \subseteq Servicios
    /\ pet \in [Peticiones -> Peticion]
    /\ cruzados \subseteq Categorias \cup Servicios
    /\ fallidas \subseteq Servicios
    /\ creados \subseteq Servicios

Init ==
    /\ \E k \in Iniciales :
        /\ cat = k.cat /\ ser = k.ser
        /\ archivos = {s \in Servicios : k.ser[s] # Nada /\ k.ser[s].imagen}
        /\ creados = {s \in Servicios : k.ser[s] # Nada}
    /\ pet = [p \in Peticiones |-> Libre]
    /\ cruzados = {} /\ fallidas = {}

(* Requests *)

Existe(d) == d # Nada

\* `activo: { $ne: false }` of a document that is there
Activa(c) == Existe(cat[c]) /\ cat[c].activo

Huella(r) == {r.c, r.s, r.cambio.categoria} \ {Nada}

\* The request goes on as r.  What it has in common with others in flight is
\* recorded.
Seguir(p, r) ==
    /\ pet' = [pet EXCEPT ![p] = r]
    /\ cruzados' = cruzados \cup
        {x \in Huella(r) : \E q \in Peticiones \ {p} : x \in Huella(pet[q])}

Terminar(p) ==
    /\ pet' = [pet EXCEPT ![p] = Hecha]
    /\ UNCHANGED cruzados

\* The request stops where it is: an error of the database, a process that ends.
\* An error inside the creation in several tenants backs out (DeshacerLote): that
\* one only stops with the process.
Abortar(p) ==
    /\ pet[p].pc \notin {"libre", "hecha"}
    /\ Terminar(p)
    /\ creados' = creados \cup pet[p].hechos
    /\ UNCHANGED <<cat, ser, archivos, fallidas>>

\* A new service.  Ids are never used again.
Libres == {s \in Servicios : ~Existe(ser[s]) /\ s \notin creados \cup cruzados
                              /\ \A q \in Peticiones : pet[q].s # s /\ s \notin pet[q].hechos}

(* Categories *)

\* The unique index on (tenantId, codigo)
ConCodigo(t, k) == {c \in Categorias : Existe(cat[c]) /\ cat[c].tenant = t /\ cat[c].codigo = k}

\* create: the findOne.  An active category with the code is a conflict.
CrearCategoria(p, t, k) ==
    /\ pet[p].pc = "libre"
    /\ \A c \in ConCodigo(t, k) : ~cat[c].activo
    /\ IF ConCodigo(t, k) = {}
       THEN Seguir(p, [Libre EXCEPT !.pc = "catInserta", !.tenant = t, !.codigo = k])
       ELSE \E c \in ConCodigo(t, k) : Seguir(p, [Libre EXCEPT !.pc = "catReactiva", !.c = c])
    /\ UNCHANGED <<cat, ser, archivos, fallidas, creados>>

\* create: the save, and after a duplicate key the second findOne.
CatInserta(p) ==
    /\ pet[p].pc = "catInserta"
    /\ LET r == pet[p]
           otras == ConCodigo(r.tenant, r.codigo) IN
        \/ /\ otras = {}
           /\ \E c \in Categorias :
                /\ ~Existe(cat[c])
                /\ cat' = [cat EXCEPT ![c] = [tenant |-> r.tenant, codigo |-> r.codigo,
                                              activo |-> TRUE]]
           /\ Terminar(p)
        \/ \E c \in otras :
           /\ IF cat[c].activo THEN Terminar(p)
              ELSE Seguir(p, [r EXCEPT !.pc = "catReactiva", !.c = c])
           /\ UNCHANGED cat
    /\ UNCHANGED <<ser, archivos, fallidas, creados>>

\* reactivateExisting saves the document it read.
CatReactiva(p) ==
    /\ pet[p].pc = "catReactiva"
    /\ cat' = [cat EXCEPT ![pet[p].c].activo = TRUE]
    /\ Terminar(p)
    /\ UNCHANGED <<ser, archivos, fallidas, creados>>

\* update of a category: one conditional write under the unique index.
EditarCategoria(p, c, k) ==
    /\ pet[p].pc = "libre"
    /\ Existe(cat[c]) /\ ConCodigo(cat[c].tenant, k) \subseteq {c}
    /\ cat' = [cat EXCEPT ![c].codigo = k]
    /\ Terminar(p)
    /\ UNCHANGED <<ser, archivos, fallidas, creados>>

\* remove: the findOne
BajaCategoria(p, c) ==
    /\ pet[p].pc = "libre" /\ Existe(cat[c])
    /\ Seguir(p, [Libre EXCEPT !.pc = "bajaCuenta", !.c = c])
    /\ UNCHANGED <<cat, ser, archivos, fallidas, creados>>

Usuarios(c) == {s \in Servicios : Existe(ser[s]) /\ ser[s].categoria = c /\ ser[s].activo}

\* Faulty variant: removal without counting.
BajaSinContar(p) ==
    /\ pet[p].pc = "bajaCuenta"
    /\ Seguir(p, [pet[p] EXCEPT !.pc = "bajaEscribe"])
    /\ UNCHANGED <<cat, ser, archivos, fallidas, creados>>

\* remove: countDocuments of the active services.  Any of them is a conflict.
BajaCuenta(p) ==
    /\ pet[p].pc = "bajaCuenta"
    /\ IF Usuarios(pet[p].c) = {} THEN Seguir(p, [pet[p] EXCEPT !.pc = "bajaEscribe"])
       ELSE Terminar(p)
    /\ UNCHANGED <<cat, ser, archivos, fallidas, creados>>

BajaEscribe(p) ==
    /\ pet[p].pc = "bajaEscribe"
    /\ cat' = [cat EXCEPT ![pet[p].c].activo = FALSE]
    /\ Terminar(p)
    /\ UNCHANGED <<ser, archivos, fallidas, creados>>

(* Creation of services *)

Nuevo(t, c, tipo, activo) ==
    [tenant |-> t, categoria |-> c, tipo |-> tipo, activo |-> activo, imagen |-> FALSE]

\* assertCategoriaActivaDelTenant, on what a request of tenant t names
CategoriaValida(c, t) == Activa(c) /\ cat[c].tenant = t

\* A POST of a service, or a row of an import: in tenant t, with the fields d.
CrearServicio(p, t, d) ==
    /\ pet[p].pc = "libre"
    /\ Seguir(p, [Libre EXCEPT !.pc = "creaVerifica", !.tenant = t, !.c = d.categoria,
                               !.cambio = d])
    /\ UNCHANGED <<cat, ser, archivos, fallidas, creados>>

\* create, importFromXlsx: the category is looked for, by id or by code.
CreaVerifica(p) ==
    /\ pet[p].pc = "creaVerifica"
    /\ IF CategoriaValida(pet[p].c, pet[p].tenant)
       THEN Seguir(p, [pet[p] EXCEPT !.pc = "creaGuarda"])
       ELSE Terminar(p)
    /\ UNCHANGED <<cat, ser, archivos, fallidas, creados>>

CreaGuarda(p) ==
    /\ pet[p].pc = "creaGuarda"
    /\ LET r == pet[p] IN
        \E s \in Libres :
            /\ ser' = [ser EXCEPT ![s] = Nuevo(r.tenant, r.c, r.cambio.tipo, r.cambio.activo)]
            /\ creados' = creados \cup {s}
    /\ Terminar(p)
    /\ UNCHANGED <<cat, archivos, fallidas>>

(* Creation in several tenants: one service per destination, or none *)

\* createForTenants: the destinations and the category it copies the code of.
CrearLote(p, destinos, d) ==
    /\ pet[p].pc = "libre" /\ destinos # {} /\ Cardinality(destinos) <= 2
    /\ Activa(d.categoria)
    /\ Seguir(p, [Libre EXCEPT !.pc = "loteResuelve", !.codigo = cat[d.categoria].codigo,
                               !.destinos = destinos, !.cambio = [d EXCEPT !.categoria = Nada]])
    /\ UNCHANGED <<cat, ser, archivos, fallidas, creados>>

\* resolveCategoriaIdByCodigo for the next destination, or the response.
LoteResuelve(p) ==
    /\ pet[p].pc = "loteResuelve"
    /\ LET r == pet[p] IN
        IF r.destinos = {} THEN Terminar(p) /\ creados' = creados \cup r.hechos
        ELSE \E t \in r.destinos :
            LET activas == {c \in ConCodigo(t, r.codigo) : cat[c].activo} IN
            /\ IF activas = {} THEN Seguir(p, [r EXCEPT !.pc = "deshace", !.c = Nada])
               ELSE \E c \in activas :
                    Seguir(p, [r EXCEPT !.pc = "loteGuarda", !.tenant = t, !.c = c])
            /\ UNCHANGED creados
    /\ UNCHANGED <<cat, ser, archivos, fallidas>>

\* The save of one service.  One that was applied and answered with an error backs out
\* and is not among those it takes back.
LoteGuarda(p) ==
    /\ pet[p].pc = "loteGuarda"
    /\ LET r == pet[p] IN
        \E s \in Libres :
            /\ ser' = [ser EXCEPT ![s] = Nuevo(r.tenant, r.c, r.cambio.tipo, r.cambio.activo)]
            /\ \/ /\ Seguir(p, [r EXCEPT !.pc = "loteResuelve", !.c = Nada,
                                         !.destinos = r.destinos \ {r.tenant},
                                         !.hechos = r.hechos \cup {s}])
                  /\ UNCHANGED creados
               \/ /\ Seguir(p, [r EXCEPT !.pc = "deshace", !.c = Nada])
                  /\ creados' = creados \cup {s}
    /\ UNCHANGED <<cat, archivos, fallidas>>

\* A duplicate code or an error of the database: back out.
DeshacerLote(p) ==
    /\ pet[p].pc \in {"loteResuelve", "loteGuarda"}
    /\ pet[p].destinos # {}
    /\ Seguir(p, [pet[p] EXCEPT !.pc = "deshace", !.c = Nada])
    /\ UNCHANGED <<cat, ser, archivos, fallidas, creados>>

\* Faulty variant: the response is an error and nothing is taken back.
DeshaceNada(p) ==
    /\ pet[p].pc = "deshace"
    /\ Terminar(p)
    /\ UNCHANGED <<cat, ser, archivos, fallidas, creados>>

\* The deletions, one by one.  One that fails is ignored: the service stays.
Deshace(p) ==
    /\ pet[p].pc = "deshace"
    /\ LET r == pet[p] IN
        IF r.hechos = {} THEN Terminar(p) /\ UNCHANGED <<ser, creados>>
        ELSE \E s \in r.hechos :
            /\ Seguir(p, [r EXCEPT !.hechos = r.hechos \ {s}])
            /\ \/ ser' = [ser EXCEPT ![s] = Nada] /\ UNCHANGED creados
               \/ creados' = creados \cup {s} /\ UNCHANGED ser
    /\ UNCHANGED <<cat, archivos, fallidas>>

(* Changes of a service *)

\* update: the category it gives, if any, or the one the service has when it
\* is switched on.
EditarServicio(p, s, cambio) ==
    /\ pet[p].pc = "libre" /\ Existe(ser[s])
    /\ LET r == [Libre EXCEPT !.s = s, !.tenant = ser[s].tenant, !.cambio = cambio] IN
        IF cambio.categoria # Nada
        THEN Seguir(p, [r EXCEPT !.pc = "editaVerifica", !.c = cambio.categoria])
        ELSE Seguir(p, [r EXCEPT !.pc = IF cambio.activo = TRUE THEN "editaBusca"
                                        ELSE "editaEscribe"])
    /\ UNCHANGED <<cat, ser, archivos, fallidas, creados>>

EditaBusca(p) ==
    /\ pet[p].pc = "editaBusca"
    /\ LET s == pet[p].s IN
        IF Existe(ser[s])
        THEN Seguir(p, [pet[p] EXCEPT !.pc = "editaVerifica", !.c = ser[s].categoria])
        ELSE Terminar(p)
    /\ UNCHANGED <<cat, ser, archivos, fallidas, creados>>

EditaVerifica(p) ==
    /\ pet[p].pc = "editaVerifica"
    /\ IF CategoriaValida(pet[p].c, pet[p].tenant)
       THEN Seguir(p, [pet[p] EXCEPT !.pc = "editaEscribe"])
       ELSE Terminar(p)
    /\ UNCHANGED <<cat, ser, archivos, fallidas, creados>>

O(nuevo, viejo) == IF nuevo = Nada THEN viejo ELSE nuevo

\* Faulty variant: the image stays with a product that becomes a service.
CambiadoConImagen(d, cambio) ==
    [d EXCEPT !.tipo = O(cambio.tipo, d.tipo), !.categoria = O(cambio.categoria, d.categoria),
              !.activo = O(cambio.activo, d.activo)]

\* What the update leaves of d: a service has no image.
Cambiado(d, cambio) ==
    [d EXCEPT !.tipo = O(cambio.tipo, d.tipo), !.categoria = O(cambio.categoria, d.categoria),
              !.activo = O(cambio.activo, d.activo),
              !.imagen = d.imagen /\ cambio.tipo # "servicio"]

EditaEscribe(p) ==
    /\ pet[p].pc = "editaEscribe"
    /\ LET r == pet[p] IN
        IF ~Existe(ser[r.s]) THEN Terminar(p) /\ UNCHANGED ser
        ELSE /\ ser' = [ser EXCEPT ![r.s] = Cambiado(ser[r.s], r.cambio)]
             /\ IF r.cambio.tipo = "servicio"
                THEN Seguir(p, [r EXCEPT !.pc = "borraArchivo"])
                ELSE Terminar(p)
    /\ UNCHANGED <<cat, archivos, fallidas, creados>>

\* toggleActivo: the service and, to switch it on, its category are read
Alternar(p, s) ==
    /\ pet[p].pc = "libre" /\ Existe(ser[s])
    /\ LET r == [Libre EXCEPT !.s = s, !.tenant = ser[s].tenant] IN
        IF ser[s].activo
        THEN Seguir(p, [r EXCEPT !.pc = "alternaGuarda", !.cambio.activo = FALSE])
        ELSE Seguir(p, [r EXCEPT !.pc = "alternaVerifica", !.cambio.activo = TRUE,
                                 !.c = ser[s].categoria])
    /\ UNCHANGED <<cat, ser, archivos, fallidas, creados>>

AlternaVerifica(p) ==
    /\ pet[p].pc = "alternaVerifica"
    /\ IF CategoriaValida(pet[p].c, pet[p].tenant)
       THEN Seguir(p, [pet[p] EXCEPT !.pc = "alternaGuarda"])
       ELSE Terminar(p)
    /\ UNCHANGED <<cat, ser, archivos, fallidas, creados>>

\* The save writes the field it changed, of a document that is still there.
AlternaGuarda(p) ==
    /\ pet[p].pc = "alternaGuarda"
    /\ LET s == pet[p].s IN
        ser' = IF Existe(ser[s]) THEN [ser EXCEPT ![s].activo = pet[p].cambio.activo] ELSE ser
    /\ Terminar(p)
    /\ UNCHANGED <<cat, archivos, fallidas, creados>>

\* remove of a service: one write.
BajaServicio(p, s) ==
    /\ pet[p].pc = "libre"
    /\ Existe(ser[s])
    /\ ser' = [ser EXCEPT ![s].activo = FALSE]
    /\ Terminar(p)
    /\ UNCHANGED <<cat, archivos, fallidas, creados>>

(* Images *)

\* uploadImagen: the findOne; the image is converted in memory
SubirImagen(p, s) ==
    /\ pet[p].pc = "libre" /\ Existe(ser[s]) /\ ser[s].tipo = "producto"
    /\ Seguir(p, [Libre EXCEPT !.pc = "imagenGuarda", !.s = s, !.tenant = ser[s].tenant])
    /\ UNCHANGED <<cat, ser, archivos, fallidas, creados>>

ImagenGuarda(p) ==
    /\ pet[p].pc = "imagenGuarda"
    /\ archivos' = archivos \cup {pet[p].s}
    /\ Seguir(p, [pet[p] EXCEPT !.pc = "imagenEscribe"])
    /\ UNCHANGED <<cat, ser, fallidas, creados>>

\* The field is written, or the new file, the only one of the service, is removed.
ImagenEscribe(p) ==
    /\ pet[p].pc = "imagenEscribe"
    /\ LET s == pet[p].s IN
        \/ /\ Existe(ser[s])
           /\ ser' = [ser EXCEPT ![s].imagen = TRUE]
           /\ UNCHANGED <<archivos, fallidas>>
        \/ /\ archivos' = archivos \ {s}
           /\ fallidas' = fallidas \cup {s}
           /\ UNCHANGED ser
    /\ Terminar(p)
    /\ UNCHANGED <<cat, creados>>

\* clearImagen: the findOne, the $unset, the file
QuitarImagen(p, s) ==
    /\ pet[p].pc = "libre" /\ Existe(ser[s]) /\ ser[s].tipo = "producto"
    /\ Seguir(p, [Libre EXCEPT !.pc = "quitaEscribe", !.s = s, !.tenant = ser[s].tenant])
    /\ UNCHANGED <<cat, ser, archivos, fallidas, creados>>

QuitaEscribe(p) ==
    /\ pet[p].pc = "quitaEscribe"
    /\ LET s == pet[p].s IN
        IF Existe(ser[s])
        THEN /\ ser' = [ser EXCEPT ![s].imagen = FALSE]
             /\ Seguir(p, [pet[p] EXCEPT !.pc = "borraArchivo"])
        ELSE Terminar(p) /\ UNCHANGED ser
    /\ UNCHANGED <<cat, archivos, fallidas, creados>>

\* unlinkQuiet, after an update to "servicio" or a clearImagen
BorraArchivo(p) ==
    /\ pet[p].pc = "borraArchivo"
    /\ \/ archivos' = archivos \ {pet[p].s}
       \/ UNCHANGED archivos
    /\ Terminar(p)
    /\ UNCHANGED <<cat, ser, fallidas, creados>>

(* Specification *)

Next ==
    \E p \in Peticiones :
        \/ \E t \in Tenants, k \in Codigos : CrearCategoria(p, t, k)
        \/ \E c \in Categorias, k \in Codigos : EditarCategoria(p, c, k)
        \/ \E c \in Categorias : BajaCategoria(p, c)
        \/ \E t \in Tenants, d \in Altas : CrearServicio(p, t, d)
        \/ \E T \in SUBSET Tenants, d \in Altas : CrearLote(p, T, d)
        \/ \E s \in Servicios, d \in Ediciones : EditarServicio(p, s, d)
        \/ \E s \in Servicios : Alternar(p, s) \/ BajaServicio(p, s)
        \/ \E s \in Servicios : SubirImagen(p, s) \/ QuitarImagen(p, s)
        \/ CatInserta(p) \/ CatReactiva(p) \/ BajaCuenta(p) \/ BajaEscribe(p)
        \/ CreaVerifica(p) \/ CreaGuarda(p)
        \/ LoteResuelve(p) \/ LoteGuarda(p) \/ DeshacerLote(p) \/ Deshace(p)
        \/ EditaBusca(p) \/ EditaVerifica(p) \/ EditaEscribe(p)
        \/ AlternaVerifica(p) \/ AlternaGuarda(p)
        \/ ImagenGuarda(p) \/ ImagenEscribe(p) \/ QuitaEscribe(p) \/ BorraArchivo(p)
        \/ Abortar(p)

Spec == Init /\ [][Next]_vars

(* Properties *)

\* A service that can be sold is in an active category of its tenant, unless two
\* requests about that category, or about that service, were in flight together
\* (servicios.service.ts:120, categorias-servicio.service.ts:240).
CategoriaEnUso ==
    \A s \in Servicios : Existe(ser[s]) =>
        /\ Existe(cat[ser[s].categoria]) /\ cat[ser[s].categoria].tenant = ser[s].tenant
        /\ ser[s].activo =>
            Activa(ser[s].categoria) \/ {s, ser[s].categoria} \cap cruzados # {}

\* What a document serves as its image is a product's and is on disk, unless the
\* service had two requests in flight together or an upload that could not be
\* registered, which removes the file of the image it replaces
\* (servicios.service.ts:755).
ImagenServida ==
    \A s \in Servicios \ (cruzados \cup fallidas) :
        Existe(ser[s]) /\ ser[s].imagen => s \in archivos /\ ser[s].tipo = "producto"

\* A creation in several tenants that is refused leaves no service that it knows of
\* behind: each one is of a creation that was answered or is in flight, or is left by one
\* that stopped, could not delete it, or was told that its save had failed
\* (servicios.service.ts:384, :396).
LoteEntero ==
    \A s \in Servicios : Existe(ser[s]) =>
        s \in creados \/ \E p \in Peticiones : s \in pet[p].hechos
=============================================================================
