----------------------- MODULE UidIssuanceProperties -----------------------
(* What the issuance of UIDs promises.                                         *)
EXTENDS UidIssuance, SequencesExt

Address == Account \cup {None}
SessionPcs == {"idle", "verified", "eligible", "dated", "signed", "linking",
               "answered", "submitted", "done"}
ScriptPcs == {"idle", "deleting", "committing", "answered", "burning", "done"}

PersonaType == [id : Inquiry \cup {None}, status : Statuses]
UserType == [persona : PersonaType, countryCode : Country \cup {None, US},
             residency : Residency \cup {None},
             uidRecipientAuthorizations : [UidType -> Address]]
UidData == [inquiry : Inquiry \cup {None}, nonce : Nat, after : Nat]

\* "None" tells that there is no document, no recipient, or no type.
ASSUME NoneAssumption == None \notin UserType /\ None \notin Account /\ None \notin Nat

\* The types of the documents, the contract and the runs.
TypeOK ==
    /\ verdict \in [Inquiry -> Statuses]
    /\ acked \subseteq webhooks
    /\ \A a \in Account : users[a] \in UserType \cup {None}
    /\ \A a \in Account : \A k \in DOMAIN destroyedUsers[a] :
         destroyedUsers[a][k] \in [type : UidType, persona : PersonaType]
    /\ linked \subseteq Account \X UidType \X Account
    /\ nonces \in [Account -> Nat]
    /\ \A a \in Account, t \in UidType : uids[a][t] \in UidData \cup {None}
    /\ \A s \in Session : sessions[s].pc \in SessionPcs /\ sessions[s].account \in Address
    /\ \A p \in Script : scripts[p].pc \in ScriptPcs /\ scripts[p].account \in Address

-----------------------------------------------------------------------------
(* Invariants                                                              *)

Approved(status) == status \in {"completed", "approved"}

\* Across Persona, the store, the signer and the contract: an account that is on no
\* list holds a UID only if Persona has sent word that an inquiry about that very
\* account was completed, whatever was lost, repeated or overtaken on the way.
UidsRestOnApproval ==
    \A a \in Account, t \in UidType :
        uids[a][t] # None /\ ~ Listed(a) =>
          \E event \in webhooks : ReferenceId[event.inquiry] = a /\ Approved(event.status)

\* "We include a nonce in every hashed message [...] so as to prevent replay
\* attacks, i.e. the reuse of a signature" (UniqueIdentity): a UID that an account
\* holds was signed since the last burn, each of which follows a mint of its own.
SignedSinceBurned ==
    \A a \in Account, t \in UidType :
        uids[a][t] # None => uids[a][t].nonce >= 2 * uids[a][t].after

\* linkUserToUid "prevents users with existing UID's (owned on chain or linked in
\* Firestore) from being linked to new UID's": as long as a user has a document,
\* the links of one type that were answered with success name one recipient.
OneRecipientPerType ==
    \A l, m \in linked : l[1] = m[1] /\ l[2] = m[2] => l[3] = m[3]

\* burnUID removes the state of the user before it burns "so there's no window of
\* opportunity after successful burning in which the Unique Identity Signer could be
\* used to re-mint using the obsolete Persona-related state": no UID is held that was
\* minted after a burn on the inquiry that was recorded when the script started.
NoRemintOnObsoleteState ==
    \A a \in Account, t \in UidType :
        uids[a][t] # None /\ ~ Listed(a) =>
          \A k \in 1..uids[a][t].after : burns[a][k] # uids[a][t].inquiry

-----------------------------------------------------------------------------
(* Action and temporal properties                                          *)

\* "Each new deletion appends to the array, and allows us to track an arbitrary
\* number of deletions for an address" (destroyUser): none that was recorded is lost.
DeletionsKept ==
    [][\A a \in Account : IsPrefix(destroyedUsers[a], destroyedUsers'[a])]_vars

\* Whether a has a document that is approved, or had a deletion.
ApprovedOrDestroyed(a) ==
    \/ users[a] # None /\ users[a].persona.status = "approved"
    \/ destroyedUsers[a] # <<>>

\* What Persona approves is approved in the store in the end and stays so, in
\* whatever order its webhooks arrive, until the user is destroyed.
ApprovalReachesStore ==
    \A i \in Inquiry :
        verdict[i] = "approved" ~> []ApprovedOrDestroyed(ReferenceId[i])
=============================================================================
