------------------------------- MODULE Envio --------------------------------
(***************************************************************************)
(* The mails of a tenant (emails.service.ts), beside the changes of its    *)
(* configuration (Configuracion): a mail leaves with the account that is   *)
(* configured, unless the tenant is suspended, through a connection of its *)
(* own that is opened with what was read and always closed.  Mails to      *)
(* reset a password use the account and the connection of the platform.    *)
(*                                                                         *)
(* Texts and attachments are left out; of the recipients, whether there    *)
(* are any.                                                                *)
(***************************************************************************)
EXTENDS Configuracion

CONSTANTS
    Envios,         \* mails; each one is sent once
    Plataforma      \* EMAIL_USER and its password

EnvioOK == Plataforma \notin Usuarios /\ Plataforma # Nada

VARIABLES
    activa,         \* the tenant is not suspended
    envio,          \* envio[v]: progress and locals of a mail
    abiertos,       \* the mails whose connection is open
    salidas         \* history: the accounts and passwords with which mails left

envioVars == <<activa, envio, abiertos, salidas>>

Credencial == [usuario : Usuarios \cup {Plataforma}, secreto : Usuarios \cup {Plataforma}]

Mail == [pc : {"libre", "tenant", "credencial", "hecha"}]
        \cup [pc : {"envia"}, con : Credencial]

EnvioTypeOK ==
    /\ activa \in BOOLEAN
    /\ envio \in [Envios -> Mail]
    /\ abiertos \subseteq Envios
    /\ salidas \subseteq Credencial

EnvioInit ==
    /\ activa = TRUE
    /\ envio = [v \in Envios |-> [pc |-> "libre"]]
    /\ abiertos = {} /\ salidas = {}

Pasar(v, r) == envio' = [envio EXCEPT ![v] = r]

\* The mail is given up: the quotation, the answer or the reminder it was about
\* goes on without it.
Renunciar(v) == Pasar(v, [pc |-> "hecha"])

\* The text is made, or there is a reason not to: FRONTEND_URL is not configured
\* (frontend) and the mail has a link, or no recipient of a notice is an address.
Empieza(v, posible, r) ==
    /\ envio[v].pc = "libre"
    /\ IF posible THEN Pasar(v, r) ELSE Renunciar(v)
    /\ UNCHANGED <<activa, abiertos, salidas>>

\* sendAdminQuotationEmail: the link is that of the token, if there is one.
EnviaCotizacion(v, conToken, frontend) ==
    Empieza(v, conToken => frontend, [pc |-> "tenant"])

\* sendInternalDecisionNotification
EnviaDecision(v, conDestino) == Empieza(v, conDestino, [pc |-> "tenant"])

\* sendReminderRecotizacionDisparo
EnviaRecordatorio(v, conDestino, frontend) ==
    Empieza(v, conDestino /\ frontend, [pc |-> "tenant"])

\* sendPasswordResetEmail: one connection of the platform serves all, and is never
\* closed.
EnviaRestablecer(v, frontend) ==
    Empieza(v, frontend,
            [pc |-> "envia", con |-> [usuario |-> Plataforma, secreto |-> Plataforma]])

\* assertTenantActiveForOutbound
MiraTenant(v) ==
    /\ envio[v].pc = "tenant"
    /\ (activa /\ Pasar(v, [pc |-> "credencial"])) \/ Renunciar(v)
    /\ UNCHANGED <<activa, abiertos, salidas>>

\* getOutboundSmtpAuth: both fields from one read; without either, or with a
\* password that cannot be deciphered, there is no connection.
LeeCredencial(v) ==
    /\ envio[v].pc = "credencial"
    /\ \/ /\ usuario # Nada /\ secreto # Nada
          /\ Pasar(v, [pc |-> "envia", con |-> [usuario |-> usuario, secreto |-> secreto]])
          /\ abiertos' = abiertos \cup {v}
       \/ Renunciar(v) /\ UNCHANGED abiertos
    /\ UNCHANGED <<activa, salidas>>

\* sendMail, and the connection is closed whatever comes of it.
Sale(v) ==
    /\ envio[v].pc = "envia"
    /\ salidas' = salidas \cup {envio[v].con} \/ UNCHANGED salidas
    /\ abiertos' = abiertos \ {v}
    /\ Renunciar(v)
    /\ UNCHANGED activa

\* setActivo of the tenant (Alta)
CambiaTenant ==
    /\ activa' = ~activa
    /\ UNCHANGED <<envio, abiertos, salidas>>

EnvioNext ==
    \/ \E v \in Envios :
        \/ \E b \in BOOLEAN : EnviaDecision(v, b) \/ EnviaRestablecer(v, b)
        \/ \E b, f \in BOOLEAN : EnviaCotizacion(v, b, f) \/ EnviaRecordatorio(v, b, f)
        \/ MiraTenant(v) \/ LeeCredencial(v) \/ Sale(v)
    \/ CambiaTenant

\* Mails leave while the configuration changes.
TodoInit == Init /\ EnvioInit

TodoNext ==
    \/ Next /\ UNCHANGED envioVars
    \/ EnvioNext /\ UNCHANGED vars

TodoSpec == TodoInit /\ [][TodoNext]_<<vars, envioVars>>

-----------------------------------------------------------------------------
(* Properties *)

\* A mail never leaves as one account with the password of another, whatever was
\* edited while it was made, unless two changes of the account were in flight
\* together; and its connection does not outlive it (emails.service.ts:107, :306).
EnvioPropio ==
    /\ \A s \in salidas : s.usuario = s.secreto \/ cruzada
    /\ \A v \in abiertos : envio[v].pc = "envia"
=============================================================================
