--------------------------- MODULE Configuracion ---------------------------
(***************************************************************************)
(* The configuration of a tenant (tenant-config.service.ts): the account   *)
(* its mail leaves from, a user and the secret of that user, and two       *)
(* logos, each a file on disk, in one of several formats, beside a field   *)
(* of the document that says which.                                        *)
(*                                                                         *)
(* A change of the mail account is checked against what was read and       *)
(* written in a later round trip.  Each action is one round trip with the  *)
(* work on disk that follows it.                                           *)
(***************************************************************************)
EXTENDS Naturals

CONSTANTS
    Usuarios,       \* mail accounts
    Ranuras,        \* the two logos: the tenant's and the bank's
    Banco,          \* the second
    Formatos,       \* LOGO_EXTS
    Peticiones,     \* requests; each one is made once
    Omitido,        \* a field the body does not have
    Nada            \* no value, and a field the body clears

ConstantsOK ==
    /\ Banco \in Ranuras
    /\ Omitido \notin Usuarios \cup Ranuras \cup Formatos
    /\ Nada \notin Usuarios \cup Ranuras \cup Formatos
    /\ Omitido # Nada

VARIABLES
    usuario,        \* emailUser
    secreto,        \* the account whose password is in emailSecretEnc
    url,            \* url[r]: the format logoUrl names
    archivos,       \* archivos[r]: the formats on disk
    pet,            \* pet[p]: progress and locals of a request
    cruzada,        \* history: two changes of the mail account were in flight
    sueltas         \* history: logos whose changes crossed or could not finish

vars == <<usuario, secreto, url, archivos, pet, cruzada, sueltas>>
correo == <<usuario, secreto>>

\* Steps: of a change of the mail account, of an upload, of a removal, and of the
\* removal of the bank's data.
Peticion ==
    [pc : {"libre", "hecha"}]
    \cup [pc : {"correo"}, usuario : Usuarios \cup {Omitido, Nada},
          secreto : Usuarios \cup {Omitido}]
    \cup [pc : {"guarda", "registra"}, ranura : Ranuras, formato : Formatos]
    \cup [pc : {"desregistra", "borra"}, ranura : Ranuras]
    \cup [pc : {"vacia", "desregistraVacio"}, ranura : {Banco}]

DeLogo(r) == r.pc \in {"guarda", "registra", "desregistra", "borra", "vacia", "desregistraVacio"}

TypeOK ==
    /\ usuario \in Usuarios \cup {Nada}
    /\ secreto \in Usuarios \cup {Nada}
    /\ url \in [Ranuras -> Formatos \cup {Nada}]
    /\ archivos \in [Ranuras -> SUBSET Formatos]
    /\ pet \in [Peticiones -> Peticion]
    /\ cruzada \in BOOLEAN
    /\ sueltas \subseteq Ranuras

\* A configuration in order
Init ==
    /\ usuario \in Usuarios \cup {Nada} /\ secreto \in {usuario, Nada}
    /\ url \in [Ranuras -> Formatos \cup {Nada}]
    /\ archivos = [r \in Ranuras |-> {url[r]} \ {Nada}]
    /\ pet = [p \in Peticiones |-> [pc |-> "libre"]]
    /\ cruzada = FALSE /\ sueltas = {}

Otra(p, r) == \E q \in Peticiones \ {p} : DeLogo(pet[q]) /\ pet[q].ranura = r

Seguir(p, r) ==
    /\ pet' = [pet EXCEPT ![p] = r]
    /\ cruzada' = (cruzada \/ (r.pc = "correo"
                             /\ \E q \in Peticiones \ {p} : pet[q].pc = "correo"))
    /\ sueltas' = sueltas \cup {x \in Ranuras : DeLogo(r) /\ r.ranura = x /\ Otra(p, x)}

\* The request is over; x is the logo it could not leave as it says, if any.
Terminar(p, x) ==
    /\ pet' = [pet EXCEPT ![p] = [pc |-> "hecha"]]
    /\ sueltas' = sueltas \cup ({x} \ {Nada})
    /\ UNCHANGED cruzada

\* The process ends, or an error of the database that no catch handles.
Cae(p) ==
    /\ pet[p].pc \notin {"libre", "hecha"}
    /\ Terminar(p, IF pet[p].pc \in {"registra", "borra", "desregistraVacio"} THEN pet[p].ranura ELSE Nada)
    /\ UNCHANGED <<correo, url, archivos>>

-----------------------------------------------------------------------------
(* The mail account *)

\* Faulty variant: the user can be changed without a new password.
CambioSuelto(u, conClave) ==
    /\ conClave => u # Nada /\ (u = Omitido => usuario # Nada)
    /\ ~conClave /\ u = Nada => secreto = Nada

\* What the body may ask of the stored pair: a password belongs to a user, and
\* the user of a password changes only with a password.
CambioValido(u, conClave) ==
    /\ conClave => u # Nada /\ (u = Omitido => usuario # Nada)
    /\ ~conClave /\ u = Nada => secreto = Nada
    /\ ~conClave /\ u \in Usuarios /\ secreto # Nada => u = usuario

\* updateEmailConfig: the configuration is read and the body is checked.
EditarCorreo(p, u, conClave) ==
    /\ pet[p].pc = "libre"
    /\ CambioValido(u, conClave)
    /\ Seguir(p, [pc |-> "correo", usuario |-> u,
                  secreto |-> IF ~conClave THEN Omitido
                              ELSE IF u = Omitido THEN usuario ELSE u])
    /\ UNCHANGED <<correo, url, archivos>>

EscribeCorreo(p) ==
    /\ pet[p].pc = "correo"
    /\ usuario' = IF pet[p].usuario = Omitido THEN usuario ELSE pet[p].usuario
    /\ secreto' = IF pet[p].secreto = Omitido THEN secreto ELSE pet[p].secreto
    /\ Terminar(p, Nada)
    /\ UNCHANGED <<url, archivos>>

-----------------------------------------------------------------------------
(* The logos *)

\* saveLogo, saveBankLogo: the configuration is read.
SubirLogo(p, r, f) ==
    /\ pet[p].pc = "libre"
    /\ Seguir(p, [pc |-> "guarda", ranura |-> r, formato |-> f])
    /\ UNCHANGED <<correo, url, archivos>>

\* Faulty variant: the file of the other format stays.
GuardaOtro(p) ==
    /\ pet[p].pc = "guarda"
    /\ archivos' = [archivos EXCEPT ![pet[p].ranura] = @ \cup {pet[p].formato}]
    /\ Seguir(p, [pet[p] EXCEPT !.pc = "registra"])
    /\ UNCHANGED <<correo, url>>

\* The file is written and those of other formats are removed.
GuardaLogo(p) ==
    /\ pet[p].pc = "guarda"
    /\ archivos' = [archivos EXCEPT ![pet[p].ranura] = {pet[p].formato}]
    /\ Seguir(p, [pet[p] EXCEPT !.pc = "registra"])
    /\ UNCHANGED <<correo, url>>

\* The field, or the file is removed: the one it replaced is gone by then.
RegistraLogo(p) ==
    /\ pet[p].pc = "registra"
    /\ LET r == pet[p].ranura IN
        \/ /\ url' = [url EXCEPT ![r] = pet[p].formato]
           /\ Terminar(p, Nada)
           /\ UNCHANGED archivos
        \/ /\ archivos' = [archivos EXCEPT ![r] = @ \ {pet[p].formato}]
           /\ Terminar(p, r)
           /\ UNCHANGED url
    /\ UNCHANGED correo

\* clearLogo, clearBankLogo: the configuration is read.
QuitarLogo(p, r) ==
    /\ pet[p].pc = "libre"
    /\ Seguir(p, [pc |-> "desregistra", ranura |-> r])
    /\ UNCHANGED <<correo, url, archivos>>

\* The field goes first,
DesregistraLogo(p) ==
    /\ pet[p].pc = "desregistra"
    /\ url' = [url EXCEPT ![pet[p].ranura] = Nada]
    /\ Seguir(p, [pet[p] EXCEPT !.pc = "borra"])
    /\ UNCHANGED <<correo, archivos>>

\* and then the files.
BorraLogo(p) ==
    /\ pet[p].pc = "borra"
    /\ archivos' = [archivos EXCEPT ![pet[p].ranura] = {}]
    /\ Terminar(p, Nada)
    /\ UNCHANGED <<correo, url>>

\* updateVigenciaBancarios with `bancarios: null`: the configuration is read,
VaciarBancarios(p) ==
    /\ pet[p].pc = "libre"
    /\ Seguir(p, [pc |-> "vacia", ranura |-> Banco])
    /\ UNCHANGED <<correo, url, archivos>>

\* the files go first,
VaciaArchivos(p) ==
    /\ pet[p].pc = "vacia"
    /\ archivos' = [archivos EXCEPT ![Banco] = {}]
    /\ Seguir(p, [pet[p] EXCEPT !.pc = "desregistraVacio"])
    /\ UNCHANGED <<correo, url>>

\* and then the bank's data, the field with them.
VaciaDatos(p) ==
    /\ pet[p].pc = "desregistraVacio"
    /\ url' = [url EXCEPT ![Banco] = Nada]
    /\ Terminar(p, Nada)
    /\ UNCHANGED <<correo, archivos>>

Next ==
    \E p \in Peticiones :
        \/ \E u \in Usuarios \cup {Omitido, Nada}, b \in BOOLEAN : EditarCorreo(p, u, b)
        \/ EscribeCorreo(p)
        \/ \E r \in Ranuras, f \in Formatos : SubirLogo(p, r, f)
        \/ GuardaLogo(p) \/ RegistraLogo(p)
        \/ \E r \in Ranuras : QuitarLogo(p, r)
        \/ DesregistraLogo(p) \/ BorraLogo(p)
        \/ VaciarBancarios(p) \/ VaciaArchivos(p) \/ VaciaDatos(p)
        \/ Cae(p)

Spec == Init /\ [][Next]_vars

-----------------------------------------------------------------------------
(* Properties *)

\* The secret that is stored is of the user that is stored, so that mail can
\* leave, unless two changes of the mail account were in flight together
\* (tenant-config.service.ts:350).
ParCoherente == ~cruzada /\ secreto # Nada => usuario = secreto

\* The logo that documents and mails name is on disk and is the only file, but
\* while a change of it is under way, and unless two of them crossed or one could
\* not finish (tenant-config.service.ts:473, :509).
LogoServido ==
    \A r \in Ranuras \ sueltas :
        \/ archivos[r] = {url[r]} \ {Nada}
        \/ \E p \in Peticiones :
            pet[p].pc \in {"registra", "borra", "desregistraVacio"} /\ pet[p].ranura = r
=============================================================================
