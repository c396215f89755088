------------------------------ MODULE KycStore ------------------------------
(* The Firestore collections of packages/functions and the Cloud functions     *)
(* that read and write them. A transaction that reads through the transaction  *)
(* (t.get) is one step: Firestore runs it again when a document it read has    *)
(* changed. Reads outside a transaction are steps of their own, in UidIssuance.*)
(* It is keyed by the accounts and the types of UniqueIdentity.                *)
EXTENDS UniqueIdentity

CONSTANTS Inquiry,         \* the inquiries of Persona
          ReferenceId,     \* ReferenceId[i]: the account inquiry i is about
          Country,         \* the country codes an event of Persona may have, or None
          Residency,       \* the residencies a user may state
          Statements,      \* who may state which: <<account, residency>>
          ListedType       \* ListedType[a]: the type of an account on the lists of
                           \* approved entities and individuals, or None

\* The types that getIDType tells apart are types of UID.
ASSUME KycStoreAssumption ==
    /\ ReferenceId \in [Inquiry -> Account]
    /\ Statements \subseteq Account \X Residency
    /\ ListedType \in [Account -> UidType \cup {None}]
    /\ {0, 2} \subseteq UidType

VARIABLES
    verdict,         \* verdict[i]: how far inquiry i is at Persona
    webhooks,        \* the events Persona has sent
    acked,           \* the approvals that personaCallback has answered with 200
    users,           \* users[a]: the document of a, or None
    destroyedUsers,  \* destroyedUsers[a]: the deletions recorded for a
    linked           \* the links that were answered with success, for the
                     \* documents that exist: <<account, type, recipient>>

storeVars == <<verdict, webhooks, acked, users, destroyedUsers, linked>>

US == "US"
Statuses == {"none", "completed", "failed", "approved", "declined"}

\* How Persona moves an inquiry on. The stages before "completed" are left out: to
\* kycStatus they are what no status is, "unknown".
NextStatuses(status) ==
    CASE status = "none" -> {"completed", "failed"}
      [] status = "completed" -> {"approved", "declined"}
      [] OTHER -> {}

NoLinks == [t \in UidType |-> None]
NoPersona == [id |-> None, status |-> "none"]
EmptyUser == [persona |-> NoPersona, countryCode |-> None, residency |-> None,
              uidRecipientAuthorizations |-> NoLinks]

StoreInit ==
    /\ verdict = [i \in Inquiry |-> "none"]
    /\ webhooks = {}
    /\ acked = {}
    /\ users = [a \in Account |-> None]
    /\ destroyedUsers = [a \in Account |-> <<>>]
    /\ linked = {}

UserExists(a) == users[a] # None
Listed(a) == ListedType[a] # None
isUsAccredited(a) == ListedType[a] \in {1, 3}

\* The value of a field that a handler reads with ?. from a document that may not
\* be there.
UserOr(a, default) == IF UserExists(a) THEN users[a] ELSE default

userStatusFromPersonaStatus(status) ==
    CASE status \in {"completed", "approved"} -> "approved"
      [] status \in {"failed", "declined"} -> "failed"
      [] OTHER -> "unknown"

\* A slip of kycStatus: whoever has an inquiry is approved.
kycStatusOfAnyInquiry(a) ==
    LET user == UserOr(a, EmptyUser)
    IN  [status |-> IF user.persona.id # None THEN "approved" ELSE "unknown",
         countryCode |-> user.countryCode, residency |-> user.residency,
         inquiry |-> user.persona.id]

\* What the function kycStatus answers.
kycStatus(a) ==
    LET user == UserOr(a, EmptyUser)
    IN  [status |-> userStatusFromPersonaStatus(user.persona.status),
         countryCode |-> user.countryCode, residency |-> user.residency,
         inquiry |-> user.persona.id]

getIDType(a, kyc) ==
    CASE Listed(a) -> ListedType[a]
      [] ~ Listed(a) /\ (kyc.countryCode = US \/ kyc.residency = "us") -> 2
      [] OTHER -> 0

\* Persona moves an inquiry on and sends a webhook; an event may say no country.
PersonaDecides(i) ==
    \E status \in NextStatuses(verdict[i]), country \in Country :
        /\ verdict' = [verdict EXCEPT ![i] = status]
        /\ webhooks' = webhooks \cup
             {[inquiry |-> i, status |-> status, countryCode |-> country]}
        /\ UNCHANGED <<acked, users, destroyedUsers, linked>>

\* A slip of StickyStatus: the status of the last callback wins.
LastStatus(old, status) == status

\* What a callback leaves of the status that the document has.
StickyStatus(old, status) == IF old = "approved" THEN "approved" ELSE status

\* A webhook is answered. Persona sends each at least once, and in no order: any
\* event that was sent may come, the ones that were answered before included.
personaCallback(event) ==
    LET a == ReferenceId[event.inquiry]
        user == UserOr(a, EmptyUser)
    IN  /\ users' = [users EXCEPT ![a] =
                       [user EXCEPT
                         !.persona = [id |-> event.inquiry,
                                      status |-> StickyStatus(user.persona.status, event.status)],
                         !.countryCode = IF event.countryCode # None THEN event.countryCode
                                         ELSE user.countryCode]]
        /\ acked' = IF event.status = "approved" THEN acked \cup {event} ELSE acked
        /\ UNCHANGED <<verdict, webhooks, destroyedUsers, linked>>

\* The user states a residency: merged into a document, which is made if need be.
setUserKYCData(a, residency) ==
    /\ users' = [users EXCEPT ![a] = [UserOr(a, EmptyUser) EXCEPT !.residency = residency]]
    /\ UNCHANGED <<verdict, webhooks, acked, destroyedUsers, linked>>

\* The document that the transaction of linkUserToUid has before it links.
LinkableUser(a) ==
    [UserOr(a, EmptyUser) EXCEPT
       !.countryCode = IF isUsAccredited(a) THEN US ELSE @]

\* A slip of CanLink: the links of the document are not looked at.
CanLinkAgain(a, type, recipient) == Listed(a) \/ UserExists(a)

\* The transaction of linkUserToUid is refused when there is no document, and when
\* the type is linked to another recipient.
CanLink(a, type, recipient) ==
    /\ Listed(a) \/ UserExists(a)
    /\ UserOr(a, EmptyUser).uidRecipientAuthorizations[type] \in {None, recipient}

\* The update replaces the whole map of links by one with this type alone.
linkUserToUid(a, type, recipient) ==
    /\ CanLink(a, type, recipient)
    /\ users' = [users EXCEPT ![a] =
                   [LinkableUser(a) EXCEPT
                      !.uidRecipientAuthorizations = [NoLinks EXCEPT ![type] = recipient]]]
    /\ linked' = linked \cup {<<a, type, recipient>>}
    /\ UNCHANGED <<verdict, webhooks, acked, destroyedUsers>>

\* The write of destroyUser: it has no precondition on the document it deletes,
\* and create and update only ask that the record is absent, or is there.
destroyUser(a, deletions, isNew) ==
    /\ isNew <=> destroyedUsers[a] = <<>>
    /\ users' = [users EXCEPT ![a] = None]
    /\ destroyedUsers' = [destroyedUsers EXCEPT ![a] = deletions]
    /\ linked' = {link \in linked : link[1] # a}
    /\ UNCHANGED <<verdict, webhooks, acked>>
=============================================================================
