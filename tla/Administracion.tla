--------------------------- MODULE Administracion ---------------------------
(***************************************************************************)
(* What is administered beside the quotations: password resets             *)
(* (Restablecer), onboarding (Alta), the configuration and the mails       *)
(* (Envio, with Configuracion) and the catalogue (Catalogo), side by side. *)
(* They share no document, so a step is of one of them and leaves the      *)
(* others as they are.                                                     *)
(***************************************************************************)
EXTENDS Restablecer

CONSTANTS
    Tenants,
    Claves, Emails, Semillas, Propia,                               \* Alta
    Buzones, Ranuras, Banco, Formatos, Omitido, Plataforma, Envios, Ajustes,    \* Envio
    Categorias, Codigos, Servicios, Altas, Cambios, Iniciales      \* Catalogo

VARIABLES
    tenant, config, plantillas, usuarios, petA, logradas, deshechas, inciertas, cruzadosA,
    usuario, secreto, url, archivosC, petC, cruzada, sueltas, activa, envio, abiertos, salidas,
    cat, ser, archivosK, petK, cruzadosK, fallidas, creados

A == INSTANCE Alta WITH
        Cuentas <- Emails, pet <- petA, cruzados <- cruzadosA
C == INSTANCE Envio WITH
        Usuarios <- Buzones, Peticiones <- Ajustes, pet <- petC, archivos <- archivosC
K == INSTANCE Catalogo WITH
        Ediciones <- Cambios, pet <- petK, cruzados <- cruzadosK, archivos <- archivosK

ASSUME ParametersAssumption == A!ConstantsOK /\ C!ConstantsOK /\ C!EnvioOK /\ K!ConstantsOK

varsA == <<tenant, config, plantillas, usuarios, petA, logradas, deshechas, inciertas, cruzadosA>>
varsC == <<usuario, secreto, url, archivosC, petC, cruzada, sueltas, activa, envio, abiertos,
           salidas>>
varsK == <<cat, ser, archivosK, petK, cruzadosK, fallidas, creados>>

InitTodo == Init /\ A!Init /\ C!TodoInit /\ K!Init

PasoRestablecer == Next /\ UNCHANGED <<varsA, varsC, varsK>>
PasoAlta == A!Next /\ UNCHANGED <<vars, varsC, varsK>>
PasoEnvio == C!TodoNext /\ UNCHANGED <<vars, varsA, varsK>>
PasoCatalogo == K!Next /\ UNCHANGED <<vars, varsA, varsC>>

NextTodo == PasoRestablecer \/ PasoAlta \/ PasoEnvio \/ PasoCatalogo

SpecTodo == InitTodo /\ [][NextTodo]_<<vars, varsA, varsC, varsK>>

-----------------------------------------------------------------------------
(* Properties of the parts, those of Restablecer apart *)

\* Documents and the locals of requests keep their types.
TiposOK == TypeOK /\ A!TypeOK /\ C!TypeOK /\ C!EnvioTypeOK /\ K!TypeOK

\* A tenant whose onboarding succeeded is as it was ordered (tenants.service.ts:164).
AltaCompleta == A!AltaCompleta

\* What an onboarding that failed had created is gone (tenants.service.ts:243).
SinHuerfanos == A!SinHuerfanos

\* A mail leaves with the password of its own account, whatever is edited meanwhile
\* (emails.service.ts:107).
EnvioPropio == C!EnvioPropio

\* The logo that documents and mails name is on disk and is the only file, but
\* while a change of it is under way, and unless two of them crossed or one could
\* not finish (tenant-config.service.ts:473, :509).
LogoServido == C!LogoServido

\* A service that can be sold is in an active category (servicios.service.ts:120).
CategoriaEnUso == K!CategoriaEnUso

\* The image of a product is on disk (servicios.service.ts:591).
ImagenServida == K!ImagenServida

\* A creation in several tenants that is refused leaves behind no service that it
\* knows of (servicios.service.ts:384, :396).
LoteEntero == K!LoteEntero
=============================================================================
