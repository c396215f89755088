------------------------- MODULE UidIssuanceProofs -------------------------
(***************************************************************************)
(* What UidIssuanceProperties asks of the issuance of UIDs, proved for all *)
(* accounts, types, inquiries, sessions and runs of the script.            *)
(***************************************************************************)
EXTENDS UidIssuanceProperties, FiniteSetTheorems, TLAPS

-----------------------------------------------------------------------------
(* Types.                                                                  *)

EventType == [inquiry : Inquiry, status : Statuses, countryCode : Country]
DeletionType == [type : UidType, persona : PersonaType]
SessionType == [pc : SessionPcs, account : Address, mintTo : Address, signInAt : Nat,
                inquiry : Inquiry \cup {None}, type : UidType \cup {None},
                expiresAt : Nat, nonce : Nat]
ScriptType == [pc : ScriptPcs, account : Address, type : UidType \cup {None},
               user : PersonaType \cup {None}, deletions : Seq(DeletionType),
               obsolete : Inquiry \cup {None}, expiresAt : Nat, nonce : Nat]

\* A session has an account from its start on and a type from kycStatus on.
SessionOk(session) ==
    /\ session \in SessionType
    /\ session.pc \notin {"idle", "done"} => session.account \in Account
    /\ session.pc \notin {"idle", "verified", "done"} => session.type \in UidType

\* A run of the script has an account, a type and what it found of the user.
ScriptOk(script) ==
    /\ script \in ScriptType
    /\ script.pc \notin {"idle", "done"} =>
         script.account \in Account /\ script.type \in UidType /\ script.user \in PersonaType

\* The types of all that the store keeps.
StoreOk ==
    /\ verdict \in [Inquiry -> Statuses]
    /\ webhooks \subseteq EventType
    /\ acked \subseteq webhooks
    /\ users \in [Account -> UserType \cup {None}]
    /\ destroyedUsers \in [Account -> Seq(DeletionType)]
    /\ linked \subseteq Account \X UidType \X Account

\* The types of all that the contract keeps.
ContractOk ==
    /\ nonces \in [Account -> Nat]
    /\ uids \in [Account -> [UidType -> UidData \cup {None}]]
    /\ burns \in [Account -> Seq(Inquiry \cup {None})]

RunsOk ==
    /\ now \in Nat
    /\ sessions \in [Session -> SessionType]
    /\ \A s \in Session : SessionOk(sessions[s])
    /\ scripts \in [Script -> ScriptType]
    /\ \A p \in Script : ScriptOk(scripts[p])

TypeInv == StoreOk /\ ContractOk /\ RunsOk

-----------------------------------------------------------------------------
(* The inductive invariants.                                               *)

\* Persona has sent word that an inquiry about a was completed.
HasApproval(a) ==
    \E event \in webhooks : ReferenceId[event.inquiry] = a /\ Approved(event.status)

\* Every place that carries an approval on rests on such an event: a document,
\* a session that was found eligible, and a UID.
DocumentsRestOnApproval ==
    \A a \in Account : Approved(UserOr(a, EmptyUser).persona.status) => HasApproval(a)

Eligible(session) ==
    session.pc \notin {"idle", "verified", "done"} /\ ~ Listed(session.account)

SessionsRestOnApproval ==
    \A s \in Session : Eligible(sessions[s]) => HasApproval(sessions[s].account)

ApprovalInv == DocumentsRestOnApproval /\ SessionsRestOnApproval /\ UidsRestOnApproval

\* The UIDs that an account holds.
HeldTypes(a) == {t \in UidType : uids[a][t] # None}

\* The nonce of an account counts its mints and its burns: each burn was of a UID
\* minted before, and those not burned are held.
NonceInv ==
    /\ \A a \in Account : nonces[a] >= 2 * Len(burns[a]) + Cardinality(HeldTypes(a))
    /\ SignedSinceBurned
-----------------------------------------------------------------------------
(* The operations keep the types.                                          *)

LEMMA EmptyUserType == EmptyUser \in UserType /\ NoLinks \in [UidType -> Address]
BY DEF EmptyUser, UserType, NoPersona, PersonaType, NoLinks, Statuses, Address

LEMMA UserOrType ==
    ASSUME StoreOk, NEW a \in Account
    PROVE  UserOr(a, EmptyUser) \in UserType
BY EmptyUserType DEF UserOr, UserExists, StoreOk

\* The fields of a document, and a document with one of them changed.
LEMMA UserFields ==
    ASSUME NEW user \in UserType
    PROVE  /\ user.persona \in PersonaType
           /\ user.persona.id \in Inquiry \cup {None}
           /\ user.persona.status \in Statuses
           /\ user.countryCode \in Country \cup {None, US}
           /\ user.residency \in Residency \cup {None}
           /\ user.uidRecipientAuthorizations \in [UidType -> Address]
           /\ \A p \in PersonaType, c \in Country \cup {None, US} :
                [user EXCEPT !.persona = p, !.countryCode = c] \in UserType
           /\ \A r \in Residency \cup {None} : [user EXCEPT !.residency = r] \in UserType
           /\ \A c \in Country \cup {None, US}, l \in [UidType -> Address] :
                [[user EXCEPT !.countryCode = c]
                    EXCEPT !.uidRecipientAuthorizations = l] \in UserType
BY DEF UserType, PersonaType

\* What kycStatus answers, and the type that the signer makes of it.
LEMMA KycFacts ==
    ASSUME StoreOk, NEW a \in Account
    PROVE  /\ kycStatus(a).inquiry \in Inquiry \cup {None}
           /\ getIDType(a, kycStatus(a)) \in UidType
<1>1. kycStatus(a).inquiry \in Inquiry \cup {None}
  BY UserOrType, UserFields DEF kycStatus
<1>2. getIDType(a, kycStatus(a)) \in UidType
  BY KycStoreAssumption DEF getIDType, Listed
<1> QED
  BY <1>1, <1>2

LEMMA CallbackType ==
    ASSUME StoreOk, NEW event \in webhooks, personaCallback(event)
    PROVE  StoreOk'
<1> DEFINE a == ReferenceId[event.inquiry]
           user == UserOr(a, EmptyUser)
           persona == [id |-> event.inquiry,
                       status |-> StickyStatus(user.persona.status, event.status)]
           country == IF event.countryCode # None THEN event.countryCode
                      ELSE user.countryCode
<1>1. event \in EventType /\ a \in Account
  BY KycStoreAssumption DEF StoreOk, EventType
<1>2. user \in UserType
  BY <1>1, UserOrType
<1>3. persona \in PersonaType /\ country \in Country \cup {None, US}
  BY <1>1, <1>2, UserFields DEF EventType, PersonaType, StickyStatus, Statuses
<1>4. users' = [users EXCEPT ![a] =
                  [user EXCEPT !.persona = persona, !.countryCode = country]]
  BY DEF personaCallback
<1> HIDE DEF a, user, persona, country
<1>5. users' \in [Account -> UserType \cup {None}]
  BY <1>1, <1>2, <1>3, <1>4, UserFields DEF StoreOk
<1>6. acked' \subseteq webhooks'
  BY DEF personaCallback, StoreOk
<1> QED
  BY <1>5, <1>6 DEF personaCallback, StoreOk

LEMMA DecisionType ==
    ASSUME StoreOk, NEW i \in Inquiry, PersonaDecides(i)
    PROVE  StoreOk'
<1> PICK status \in NextStatuses(verdict[i]), country \in Country :
      /\ verdict' = [verdict EXCEPT ![i] = status]
      /\ webhooks' = webhooks \cup
             {[inquiry |-> i, status |-> status, countryCode |-> country]}
      /\ UNCHANGED <<acked, users, destroyedUsers, linked>>
  BY DEF PersonaDecides
<1>1. status \in Statuses
  BY DEF NextStatuses, Statuses
<1>2. verdict' \in [Inquiry -> Statuses] /\ webhooks' \subseteq EventType
  BY <1>1 DEF StoreOk, EventType
<1> QED
  BY <1>2 DEF StoreOk

LEMMA ResidencyType ==
    ASSUME StoreOk, NEW statement \in Statements, setUserKYCData(statement[1], statement[2])
    PROVE  StoreOk'
<1>1. statement[1] \in Account /\ statement[2] \in Residency
  BY KycStoreAssumption
<1>2. [UserOr(statement[1], EmptyUser) EXCEPT !.residency = statement[2]] \in UserType
  BY <1>1, UserOrType, UserFields
<1>3. users' \in [Account -> UserType \cup {None}]
  BY <1>1, <1>2 DEF setUserKYCData, StoreOk
<1> QED
  BY <1>3 DEF setUserKYCData, StoreOk

LEMMA LinkType ==
    ASSUME StoreOk, NEW a \in Account, NEW type \in UidType, NEW recipient \in Account,
           linkUserToUid(a, type, recipient)
    PROVE  StoreOk'
<1> DEFINE user == UserOr(a, EmptyUser)
           country == IF isUsAccredited(a) THEN US ELSE user.countryCode
           links == [NoLinks EXCEPT ![type] = recipient]
<1>1. user \in UserType /\ country \in Country \cup {None, US}
  BY UserOrType, UserFields
<1>2. links \in [UidType -> Address]
  BY EmptyUserType DEF Address
<1>3. LinkableUser(a) = [user EXCEPT !.countryCode = country]
  BY <1>1 DEF LinkableUser, UserType
<1>4. users' = [users EXCEPT ![a] =
                  [[user EXCEPT !.countryCode = country]
                      EXCEPT !.uidRecipientAuthorizations = links]]
  BY <1>3 DEF linkUserToUid
<1> HIDE DEF user, country, links
<1>5. users' \in [Account -> UserType \cup {None}]
  BY <1>1, <1>2, <1>4, UserFields DEF StoreOk
<1>6. linked' \subseteq Account \X UidType \X Account
  BY DEF linkUserToUid, StoreOk
<1> QED
  BY <1>5, <1>6 DEF linkUserToUid, StoreOk

LEMMA DestroyType ==
    ASSUME StoreOk, NEW a \in Account, NEW deletions \in Seq(DeletionType), NEW isNew,
           destroyUser(a, deletions, isNew)
    PROVE  StoreOk'
<1>1. users' \in [Account -> UserType \cup {None}]
  BY DEF destroyUser, StoreOk
<1>2. destroyedUsers' \in [Account -> Seq(DeletionType)]
  BY DEF destroyUser, StoreOk
<1>3. linked' \subseteq Account \X UidType \X Account
  BY DEF destroyUser, StoreOk
<1> QED
  BY <1>1, <1>2, <1>3 DEF destroyUser, StoreOk

LEMMA MintType ==
    ASSUME ContractOk, NEW a \in Account, NEW t \in UidType, NEW sig,
           sig.inquiry \in Inquiry \cup {None}, mint(a, t, sig)
    PROVE  ContractOk'
<1>1. sig.nonce = nonces[a] /\ Len(burns[a]) \in Nat /\ nonces[a] \in Nat
  BY DEF mint, CanMint, onlySigner, ContractOk
<1> DEFINE uid == [inquiry |-> sig.inquiry, nonce |-> sig.nonce, after |-> Len(burns[a])]
<1>2. uid \in UidData
  BY <1>1 DEF UidData
<1>3. uids' = [uids EXCEPT ![a][t] = uid]
  BY DEF mint
<1> HIDE DEF uid
<1>4. uids' \in [Account -> [UidType -> UidData \cup {None}]]
  BY <1>2, <1>3 DEF ContractOk
<1>5. nonces' \in [Account -> Nat]
  BY <1>1 DEF mint, ContractOk
<1> QED
  BY <1>4, <1>5 DEF mint, ContractOk

LEMMA BurnType ==
    ASSUME ContractOk, NEW a \in Account, NEW t \in UidType, NEW sig,
           NEW obsolete \in Inquiry \cup {None}, burn(a, t, sig, obsolete)
    PROVE  ContractOk'
<1>1. uids' \in [Account -> [UidType -> UidData \cup {None}]]
  BY DEF burn, ContractOk
<1>2. nonces' \in [Account -> Nat]
  BY DEF burn, ContractOk
<1>3. burns' \in [Account -> Seq(Inquiry \cup {None})]
  BY DEF burn, ContractOk
<1> QED
  BY <1>1, <1>2, <1>3 DEF ContractOk

LEMMA TypeInit == Init => TypeInv
<1> SUFFICES ASSUME Init PROVE TypeInv
  OBVIOUS
<1>1. StoreOk
  BY DEF Init, StoreInit, StoreOk, Statuses
<1>2. ContractOk
  BY DEF Init, UidInit, ContractOk
<1>3. NoSession \in SessionType /\ NoScript \in ScriptType
  BY DEF NoSession, NoScript, SessionType, ScriptType, SessionPcs, ScriptPcs, Address
<1>4. RunsOk
  BY <1>3 DEF Init, RunsOk, SessionOk, ScriptOk, NoSession, NoScript
<1> QED
  BY <1>1, <1>2, <1>4 DEF TypeInv

\* A session is advanced to fields that are right for its step.
LEMMA AdvanceType ==
    ASSUME RunsOk, NEW s \in Session, NEW pc \in SessionPcs, NEW fields \in SessionType,
           pc \notin {"idle", "done"} => fields.account \in Account,
           pc \notin {"idle", "verified", "done"} => fields.type \in UidType,
           Advance(s, pc, fields), UNCHANGED <<now, scripts>>
    PROVE  RunsOk'
<1>1. [fields EXCEPT !.pc = pc] \in SessionType
  BY DEF SessionType
<1>2. SessionOk([fields EXCEPT !.pc = pc])
  BY <1>1 DEF SessionOk, SessionType
<1>3. \A r \in Session : SessionOk(sessions'[r])
  BY <1>2 DEF Advance, RunsOk
<1> QED
  BY <1>1, <1>3 DEF Advance, RunsOk

LEMMA AdvanceScriptType ==
    ASSUME RunsOk, NEW p \in Script, NEW pc \in ScriptPcs, NEW fields \in ScriptType,
           pc \notin {"idle", "done"} =>
             fields.account \in Account /\ fields.type \in UidType /\ fields.user \in PersonaType,
           AdvanceScript(p, pc, fields), UNCHANGED <<now, sessions>>
    PROVE  RunsOk'
<1>1. [fields EXCEPT !.pc = pc] \in ScriptType
  BY DEF ScriptType
<1>2. ScriptOk([fields EXCEPT !.pc = pc])
  BY <1>1 DEF ScriptOk, ScriptType
<1>3. \A r \in Script : ScriptOk(scripts'[r])
  BY <1>2 DEF AdvanceScript, RunsOk
<1> QED
  BY <1>1, <1>3 DEF AdvanceScript, RunsOk

LEMMA SessionStepType ==
    ASSUME TypeInv, NEW s \in Session, StartSession(s) \/ SessionStep(s)
    PROVE  TypeInv'
<1> DEFINE session == sessions[s]
<1> USE DEF TypeInv
<1>0. /\ session \in SessionType /\ SessionOk(session)
      /\ NoSession \in SessionType /\ now \in Nat
  BY DEF RunsOk, NoSession, SessionType, SessionPcs, Address
<1> HIDE DEF session
<1>1. CASE StartSession(s)
  <2> PICK request \in Requests, signInAt \in 0..now :
        Advance(s, "verified", [NoSession EXCEPT !.account = request[1],
                                  !.mintTo = request[2], !.signInAt = signInAt])
    BY <1>1 DEF StartSession
  <2>1. request[1] \in Account /\ request[1] \in Address /\ request[2] \in Address
        /\ signInAt \in Nat
    BY <1>0, UidIssuanceAssumption DEF Address
  <2>2. [NoSession EXCEPT !.account = request[1], !.mintTo = request[2],
                          !.signInAt = signInAt] \in SessionType
    BY <1>0, <2>1 DEF SessionType
  <2>3. [NoSession EXCEPT !.account = request[1], !.mintTo = request[2],
                          !.signInAt = signInAt].account = request[1]
    BY DEF NoSession
  <2>4. RunsOk'
    BY <1>1, <2>1, <2>2, <2>3, AdvanceType DEF StartSession, ChainAndStoreUnchanged, SessionPcs
  <2> QED
    BY <1>1, <2>4 DEF StartSession, ChainAndStoreUnchanged, storeVars, uidVars,
                      StoreOk, ContractOk
<1>2. CASE FetchKycStatus(s)
  <2> DEFINE kyc == kycStatus(session.account)
             type == getIDType(session.account, kyc)
             fetched == [session EXCEPT !.signInAt = 0, !.type = type]
             approved == [fetched EXCEPT !.inquiry = kyc.inquiry]
  <2>1. session.account \in Account
    BY <1>0, <1>2 DEF FetchKycStatus, SessionOk, session
  <2>2. kyc.inquiry \in Inquiry \cup {None} /\ type \in UidType
    BY <2>1, KycFacts
  <2>0. \/ Advance(s, "eligible", fetched)
        \/ Advance(s, "eligible", approved)
        \/ Advance(s, "done", NoSession)
    BY <1>2 DEF FetchKycStatus, session
  <2> HIDE DEF kyc, type
  <2>3. /\ fetched \in SessionType /\ approved \in SessionType
        /\ fetched.account = session.account /\ fetched.type = type
        /\ approved.account = session.account /\ approved.type = type
    BY <1>0, <2>2 DEF SessionType
  <2> HIDE DEF fetched, approved
  <2>5. RunsOk'
    BY <1>0, <1>2, <2>0, <2>1, <2>2, <2>3, AdvanceType
       DEF FetchKycStatus, ChainAndStoreUnchanged, SessionPcs
  <2> QED
    BY <1>2, <2>5 DEF FetchKycStatus, ChainAndStoreUnchanged, storeVars, uidVars,
                      StoreOk, ContractOk
<1>3. CASE ReadBlock(s)
  <2>1. session.account \in Account /\ session.type \in UidType
    BY <1>0, <1>3 DEF ReadBlock, SessionOk, session
  <2> DEFINE dated == [session EXCEPT !.expiresAt = now + SignatureExpiry]
  <2>2. dated \in SessionType /\ dated.account = session.account /\ dated.type = session.type
    BY <1>0, UidIssuanceAssumption DEF SessionType
  <2>3. Advance(s, "dated", dated)
    BY <1>3 DEF ReadBlock, session
  <2> HIDE DEF dated
  <2>4. RunsOk'
    BY <1>3, <2>1, <2>2, <2>3, AdvanceType
       DEF ReadBlock, ChainAndStoreUnchanged, SessionPcs
  <2> QED
    BY <1>3, <2>4 DEF ReadBlock, ChainAndStoreUnchanged, storeVars, uidVars,
                      StoreOk, ContractOk
<1>4. CASE SignForNonce(s)
  <2>1. session.account \in Account /\ session.type \in UidType
    BY <1>0, <1>4 DEF SignForNonce, SessionOk, session
  <2> DEFINE signed == [session EXCEPT !.nonce = nonces[session.account]]
  <2>2. signed \in SessionType /\ signed.account = session.account /\ signed.type = session.type
    BY <1>0, <2>1 DEF SessionType, ContractOk
  <2>3. Advance(s, "signed", signed)
    BY <1>4 DEF SignForNonce, session
  <2> HIDE DEF signed
  <2>4. RunsOk'
    BY <1>4, <2>1, <2>2, <2>3, AdvanceType
       DEF SignForNonce, ChainAndStoreUnchanged, SessionPcs
  <2> QED
    BY <1>4, <2>4 DEF SignForNonce, ChainAndStoreUnchanged, storeVars, uidVars,
                      StoreOk, ContractOk
<1>5. CASE LinkChecks(s) \/ LinkFails(s) \/ SubmitMint(s)
  <2>1. session.account \in Account /\ session.type \in UidType
    BY <1>0, <1>5 DEF LinkChecks, LinkFails, SubmitMint, SessionOk, session
  <2>2. \/ \E pc \in SessionPcs : Advance(s, pc, session)
        \/ Advance(s, "done", NoSession)
    BY <1>5 DEF LinkChecks, LinkFails, SubmitMint, session, SessionPcs
  <2>3. ChainAndStoreUnchanged /\ UNCHANGED scripts
    BY <1>5 DEF LinkChecks, LinkFails, SubmitMint
  <2>4. RunsOk'
    BY <1>0, <2>1, <2>2, <2>3, AdvanceType DEF ChainAndStoreUnchanged, SessionPcs
  <2> QED
    BY <2>3, <2>4 DEF ChainAndStoreUnchanged, storeVars, uidVars, StoreOk, ContractOk
<1>6. CASE LinkTransaction(s)
  <2>1. session.account \in Account /\ session.type \in UidType
    BY <1>0, <1>6 DEF LinkTransaction, SessionOk, session
  <2>2. RecipientOf(session) \in Account
    BY <1>0, <2>1 DEF RecipientOf, SessionType, Address
  <2>3. RunsOk'
    BY <1>0, <1>6, <2>1, AdvanceType DEF LinkTransaction, SessionPcs, session
  <2>4. StoreOk'
    <3>1. CASE linkUserToUid(session.account, session.type, RecipientOf(session))
      BY <2>1, <2>2, <3>1, LinkType
    <3>2. CASE UNCHANGED storeVars
      BY <3>2 DEF storeVars, StoreOk
    <3> QED
      BY <1>6, <3>1, <3>2 DEF LinkTransaction, session
  <2> QED
    BY <1>6, <2>3, <2>4 DEF LinkTransaction, uidVars, ContractOk
<1>7. CASE MintMined(s)
  <2>1. session.account \in Account /\ session.type \in UidType
    BY <1>0, <1>7 DEF MintMined, SessionOk, session
  <2>2. SignatureOf(session).inquiry \in Inquiry \cup {None}
    BY <1>0 DEF SignatureOf, Signature, SessionType
  <2>3. RunsOk'
    BY <1>0, <1>7, AdvanceType DEF MintMined, SessionPcs
  <2>4. ContractOk'
    <3>1. CASE mint(session.account, session.type, SignatureOf(session))
      BY <2>1, <2>2, <3>1, MintType
    <3>2. CASE UNCHANGED uidVars
      BY <3>2 DEF uidVars, ContractOk
    <3> QED
      BY <1>7, <3>1, <3>2 DEF MintMined, session
  <2> QED
    BY <1>7, <2>3, <2>4 DEF MintMined, storeVars, StoreOk
<1> QED
  BY <1>1, <1>2, <1>3, <1>4, <1>5, <1>6, <1>7 DEF SessionStep

LEMMA ScriptStepType ==
    ASSUME TypeInv, NEW p \in Script, DestroyRead(p) \/ ScriptStep(p)
    PROVE  TypeInv'
<1> DEFINE script == scripts[p]
<1> USE DEF TypeInv
<1>0. /\ script \in ScriptType /\ ScriptOk(script)
      /\ NoScript \in ScriptType /\ now \in Nat
  BY DEF RunsOk, NoScript, ScriptType, ScriptPcs, Address
<1> HIDE DEF script
<1>1. CASE DestroyRead(p)
  <2> PICK a \in Account, t \in UidType :
        LET user == UserOr(a, EmptyUser)
        IN  AdvanceScript(p, IF user.persona.status = "approved" THEN "deleting"
                             ELSE "answered",
                          [NoScript EXCEPT !.account = a, !.type = t, !.user = user.persona,
                                           !.obsolete = user.persona.id])
    BY <1>1 DEF DestroyRead
  <2> DEFINE persona == UserOr(a, EmptyUser).persona
             read == [NoScript EXCEPT !.account = a, !.type = t, !.user = persona,
                                      !.obsolete = persona.id]
  <2>1. persona \in PersonaType /\ persona.id \in Inquiry \cup {None} /\ a \in Address
    BY UserOrType, UserFields DEF Address
  <2>2. AdvanceScript(p, "deleting", read) \/ AdvanceScript(p, "answered", read)
    OBVIOUS
  <2> HIDE DEF persona
  <2>3. /\ read \in ScriptType
        /\ read.account = a /\ read.type = t /\ read.user = persona
    BY <1>0, <2>1 DEF ScriptType
  <2> HIDE DEF read
  <2>4. RunsOk'
    BY <1>1, <2>1, <2>2, <2>3, AdvanceScriptType
       DEF DestroyRead, ChainAndStoreUnchanged, ScriptPcs
  <2> QED
    BY <1>1, <2>4 DEF DestroyRead, ChainAndStoreUnchanged, storeVars, uidVars,
                      StoreOk, ContractOk
<1>2. CASE DestroyReadDeletions(p)
  <2>1. script.account \in Account /\ script.type \in UidType /\ script.user \in PersonaType
    BY <1>0, <1>2 DEF DestroyReadDeletions, ScriptOk, script
  <2> DEFINE read == [script EXCEPT !.deletions = destroyedUsers[script.account]]
  <2>2. /\ read \in ScriptType /\ read.account = script.account
        /\ read.type = script.type /\ read.user = script.user
    BY <1>0, <2>1 DEF ScriptType, StoreOk
  <2>3. AdvanceScript(p, "committing", read)
    BY <1>2 DEF DestroyReadDeletions, script
  <2> HIDE DEF read
  <2>4. RunsOk'
    BY <1>2, <2>1, <2>2, <2>3, AdvanceScriptType
       DEF DestroyReadDeletions, ChainAndStoreUnchanged, ScriptPcs
  <2> QED
    BY <1>2, <2>4 DEF DestroyReadDeletions, ChainAndStoreUnchanged, storeVars, uidVars,
                      StoreOk, ContractOk
<1>3. CASE DestroyCommit(p)
  <2>1. script.account \in Account /\ script.type \in UidType /\ script.user \in PersonaType
    BY <1>0, <1>3 DEF DestroyCommit, ScriptOk, script
  <2>2. [type |-> script.type, persona |-> script.user] \in DeletionType
    BY <2>1 DEF DeletionType
  <2>3. WithDeletion(script) \in Seq(DeletionType)
    BY <1>0, <2>2 DEF WithDeletion, ScriptType
  <2>4. destroyUser(script.account, WithDeletion(script), script.deletions = <<>>)
    BY <1>3 DEF DestroyCommit, script
  <2>5. StoreOk'
    BY <2>1, <2>3, <2>4, DestroyType
  <2>6. RunsOk'
    BY <1>0, <1>3, <2>1, AdvanceScriptType DEF DestroyCommit, ScriptPcs, script
  <2> QED
    BY <1>3, <2>5, <2>6 DEF DestroyCommit, uidVars, ContractOk
<1>4. CASE DestroyFails(p)
  <2>1. script.account \in Account /\ script.type \in UidType /\ script.user \in PersonaType
    BY <1>0, <1>4 DEF DestroyFails, ScriptOk, script
  <2>2. RunsOk'
    BY <1>0, <1>4, <2>1, AdvanceScriptType
       DEF DestroyFails, ChainAndStoreUnchanged, ScriptPcs, script
  <2> QED
    BY <1>4, <2>2 DEF DestroyFails, ChainAndStoreUnchanged, storeVars, uidVars,
                      StoreOk, ContractOk
<1>5. CASE SignBurn(p)
  <2>1. script.account \in Account /\ script.type \in UidType /\ script.user \in PersonaType
    BY <1>0, <1>5 DEF SignBurn, ScriptOk, script
  <2> DEFINE signed == [script EXCEPT !.nonce = nonces[script.account],
                                      !.expiresAt = now + SignatureExpiry]
  <2>2. /\ signed \in ScriptType /\ signed.account = script.account
        /\ signed.type = script.type /\ signed.user = script.user
    <3>1. nonces[script.account] \in Nat /\ now + SignatureExpiry \in Nat
      BY <1>0, <2>1, UidIssuanceAssumption DEF ContractOk
    <3> QED
      BY <1>0, <3>1 DEF ScriptType
  <2>3. AdvanceScript(p, "burning", signed) \/ AdvanceScript(p, "done", NoScript)
    BY <1>5 DEF SignBurn, script
  <2> HIDE DEF signed
  <2>4. RunsOk'
    BY <1>0, <1>5, <2>1, <2>2, <2>3, AdvanceScriptType
       DEF SignBurn, ChainAndStoreUnchanged, ScriptPcs
  <2> QED
    BY <1>5, <2>4 DEF SignBurn, ChainAndStoreUnchanged, storeVars, uidVars,
                      StoreOk, ContractOk
<1>6. CASE BurnMined(p)
  <2> DEFINE sig == Signature(script.account, None, script.type, script.expiresAt,
                              script.nonce, None)
  <2>1. /\ script.account \in Account /\ script.type \in UidType
        /\ script.obsolete \in Inquiry \cup {None}
    BY <1>0, <1>6 DEF BurnMined, ScriptOk, ScriptType, script
  <2>2. burn(script.account, script.type, sig, script.obsolete) \/ UNCHANGED uidVars
    BY <1>6 DEF BurnMined, script
  <2> HIDE DEF sig
  <2>3. ContractOk'
    <3>1. CASE burn(script.account, script.type, sig, script.obsolete)
      BY <2>1, <3>1, BurnType
    <3>2. CASE UNCHANGED uidVars
      BY <3>2 DEF uidVars, ContractOk
    <3> QED
      BY <2>2, <3>1, <3>2
  <2>4. RunsOk'
    BY <1>0, <1>6, AdvanceScriptType DEF BurnMined, ScriptPcs
  <2> QED
    BY <1>6, <2>3, <2>4 DEF BurnMined, storeVars, StoreOk
<1> QED
  BY <1>1, <1>2, <1>3, <1>4, <1>5, <1>6 DEF ScriptStep

LEMMA TypeStep == TypeInv /\ [Next]_vars => TypeInv'
<1> SUFFICES ASSUME TypeInv, [Next]_vars PROVE TypeInv'
  OBVIOUS
<1> USE DEF TypeInv
<1>1. CASE \E s \in Session : StartSession(s) \/ SessionStep(s)
  BY <1>1, SessionStepType
<1>2. CASE \E p \in Script : DestroyRead(p) \/ ScriptStep(p)
  BY <1>2, ScriptStepType
<1>3. CASE Persona
  <2>1. StoreOk'
    BY <1>3, DecisionType DEF Persona
  <2> QED
    BY <1>3, <2>1 DEF Persona, uidVars, ContractOk, RunsOk
<1>4. CASE \E event \in webhooks : Callback(event)
  <2>1. StoreOk'
    BY <1>4, CallbackType DEF Callback
  <2> QED
    BY <1>4, <2>1 DEF Callback, uidVars, ContractOk, RunsOk
<1>5. CASE StateResidency
  <2>1. StoreOk'
    BY <1>5, ResidencyType DEF StateResidency
  <2> QED
    BY <1>5, <2>1 DEF StateResidency, uidVars, ContractOk, RunsOk
<1>6. CASE Tick
  BY <1>6 DEF Tick, storeVars, uidVars, StoreOk, ContractOk, RunsOk
<1>7. CASE UNCHANGED vars
  BY <1>7 DEF vars, storeVars, uidVars, StoreOk, ContractOk, RunsOk
<1> QED
  BY <1>1, <1>2, <1>3, <1>4, <1>5, <1>6, <1>7 DEF Next

LEMMA TypeInvariant == Spec => []TypeInv
BY TypeInit, TypeStep, PTL DEF Spec

\* Whatever is lost, repeated or overtaken, the documents, the contract and the runs
\* keep their types: TypeOK for all constants.
THEOREM UidTypeCorrect == Spec => []TypeOK
<1>1. TypeInv => TypeOK
  <2> SUFFICES ASSUME TypeInv PROVE TypeOK
    OBVIOUS
  <2>1. \A a \in Account : \A k \in DOMAIN destroyedUsers[a] :
          destroyedUsers[a][k] \in [type : UidType, persona : PersonaType]
    <3> SUFFICES ASSUME NEW a \in Account, NEW k \in DOMAIN destroyedUsers[a]
                 PROVE  destroyedUsers[a][k] \in DeletionType
      BY DEF DeletionType
    <3>1. destroyedUsers[a] \in Seq(DeletionType)
      BY DEF TypeInv, StoreOk
    <3> QED
      BY <3>1
  <2>2. /\ \A s \in Session : sessions[s].pc \in SessionPcs /\ sessions[s].account \in Address
        /\ \A p \in Script : scripts[p].pc \in ScriptPcs /\ scripts[p].account \in Address
    BY DEF TypeInv, RunsOk, SessionType, ScriptType
  <2> QED
    BY <2>1, <2>2 DEF TypeInv, StoreOk, ContractOk, TypeOK
<1> QED
  BY <1>1, TypeInvariant, PTL

-----------------------------------------------------------------------------
(* Approvals.                                                              *)

\* Webhooks are never taken back.
LEMMA WebhooksKept ==
    ASSUME TypeInv, [Next]_vars
    PROVE  webhooks \subseteq webhooks'
<1>1. CASE \E s \in Session : StartSession(s) \/ SessionStep(s)
  BY <1>1 DEF StartSession, SessionStep, FetchKycStatus, ReadBlock, SignForNonce, LinkChecks,
     LinkTransaction, LinkFails, SubmitMint, MintMined, ChainAndStoreUnchanged, storeVars,
     linkUserToUid
<1>2. CASE \E p \in Script : DestroyRead(p) \/ ScriptStep(p)
  BY <1>2 DEF DestroyRead, ScriptStep, DestroyReadDeletions, DestroyCommit, DestroyFails,
     SignBurn, BurnMined, ChainAndStoreUnchanged, storeVars, destroyUser
<1>3. CASE Persona
  BY <1>3 DEF Persona, PersonaDecides
<1>4. CASE \E event \in webhooks : Callback(event)
  BY <1>4 DEF Callback, personaCallback
<1>5. CASE StateResidency \/ Tick \/ UNCHANGED vars
  BY <1>5 DEF StateResidency, setUserKYCData, Tick, storeVars, vars
<1> QED
  BY <1>1, <1>2, <1>3, <1>4, <1>5 DEF Next

LEMMA ApprovalKept ==
    ASSUME TypeInv, [Next]_vars, NEW a, HasApproval(a)
    PROVE  HasApproval(a)'
BY WebhooksKept DEF HasApproval

\* What writes the documents of users, and their links.
LEMMA DocumentChanges ==
    ASSUME [Next]_vars
    PROVE  \/ UNCHANGED <<users, linked>> \/ \E s \in Session : LinkTransaction(s)
           \/ \E p \in Script : DestroyCommit(p)
           \/ \E event \in webhooks : Callback(event)
           \/ StateResidency
<1>1. CASE \E s \in Session : StartSession(s) \/ SessionStep(s)
  BY <1>1 DEF StartSession, SessionStep, FetchKycStatus, ReadBlock, SignForNonce, LinkChecks,
     LinkFails, SubmitMint, MintMined, ChainAndStoreUnchanged, storeVars
<1>2. CASE \E p \in Script : DestroyRead(p) \/ ScriptStep(p)
  BY <1>2 DEF DestroyRead, ScriptStep, DestroyReadDeletions, DestroyFails,
     SignBurn, BurnMined, ChainAndStoreUnchanged, storeVars
<1>3. CASE Persona \/ Tick \/ UNCHANGED vars
  BY <1>3 DEF Persona, PersonaDecides, Tick, storeVars, vars
<1> QED
  BY <1>1, <1>2, <1>3 DEF Next

\* A document takes its status from a callback, and every other write keeps it.
LEMMA DocumentsStep ==
    ASSUME TypeInv, [Next]_vars, DocumentsRestOnApproval
    PROVE  DocumentsRestOnApproval'
<1> DEFINE Status(a) == UserOr(a, EmptyUser).persona.status
<1>1. \A a \in Account : UserOr(a, EmptyUser) \in UserType
  BY UserOrType DEF TypeInv
<1>2. ~ Approved(EmptyUser.persona.status)
  BY DEF EmptyUser, NoPersona, Approved
<1> SUFFICES ASSUME NEW a \in Account, Approved(Status(a)')
             PROVE  Approved(Status(a)) \/ HasApproval(a)
  BY ApprovalKept DEF DocumentsRestOnApproval
<1>3. CASE UNCHANGED users
  BY <1>3 DEF UserOr, UserExists
<1>4. CASE \E s \in Session : LinkTransaction(s) /\ ~ UNCHANGED users
  <2> PICK s \in Session : LinkTransaction(s) /\ ~ UNCHANGED users
    BY <1>4
  <2> DEFINE c == sessions[s].account
             type == sessions[s].type
             recipient == RecipientOf(sessions[s])
             user == [LinkableUser(c) EXCEPT
                        !.uidRecipientAuthorizations = [NoLinks EXCEPT ![type] = recipient]]
  <2>1. users' = [users EXCEPT ![c] = user]
    BY DEF LinkTransaction, linkUserToUid, storeVars
  <2>2. c \in Account
    BY DEF TypeInv, RunsOk, SessionOk, LinkTransaction
  <2>3. user.persona = UserOr(c, EmptyUser).persona
    BY <1>1, <2>2 DEF LinkableUser, UserType
  <2> HIDE DEF user, c
  <2>4. CASE a = c
    BY <1>2, <2>1, <2>2, <2>3, <2>4 DEF UserOr, UserExists, TypeInv, StoreOk
  <2>5. CASE a # c
    BY <2>1, <2>5 DEF UserOr, UserExists, TypeInv, StoreOk
  <2> QED
    BY <2>4, <2>5
<1>5. CASE \E p \in Script : DestroyCommit(p)
  BY <1>2, <1>5 DEF DestroyCommit, destroyUser, UserOr, UserExists, TypeInv, StoreOk
<1>6. CASE \E event \in webhooks : Callback(event)
  <2> PICK event \in webhooks : personaCallback(event)
    BY <1>6 DEF Callback
  <2> DEFINE c == ReferenceId[event.inquiry]
             old == UserOr(c, EmptyUser)
             persona == [id |-> event.inquiry,
                         status |-> StickyStatus(old.persona.status, event.status)]
             country == IF event.countryCode # None THEN event.countryCode
                        ELSE old.countryCode
             user == [old EXCEPT !.persona = persona, !.countryCode = country]
  <2>1. users' = [users EXCEPT ![c] = user]
    BY DEF personaCallback
  <2>2. c \in Account
    BY KycStoreAssumption DEF TypeInv, StoreOk, EventType
  <2>3. user.persona = persona
    BY <1>1, <2>2 DEF UserType
  <2>4. persona.status = StickyStatus(old.persona.status, event.status)
    OBVIOUS
  <2> HIDE DEF user, persona
  <2>5. CASE a # c
    BY <2>1, <2>5 DEF UserOr, UserExists, TypeInv, StoreOk
  <2>6. CASE a = c
    <3>1. \/ Status(a)' = StickyStatus(old.persona.status, event.status)
          \/ Status(a)' = EmptyUser.persona.status
      BY <2>1, <2>2, <2>3, <2>4, <2>6 DEF UserOr, UserExists, TypeInv, StoreOk
    <3>2. Approved(old.persona.status) \/ Approved(event.status)
      BY <1>2, <3>1 DEF StickyStatus, Approved
    <3> QED
      BY <2>6, <3>2 DEF HasApproval
  <2> QED
    BY <2>5, <2>6
<1>7. CASE StateResidency
  <2> PICK statement \in Statements : setUserKYCData(statement[1], statement[2])
    BY <1>7 DEF StateResidency
  <2> DEFINE c == statement[1]
             user == [UserOr(c, EmptyUser) EXCEPT !.residency = statement[2]]
  <2>1. users' = [users EXCEPT ![c] = user]
    BY DEF setUserKYCData
  <2>2. c \in Account
    BY KycStoreAssumption
  <2>3. user.persona = UserOr(c, EmptyUser).persona
    BY <1>1, <2>2 DEF UserType
  <2> HIDE DEF user, c
  <2>4. CASE a = c
    BY <1>2, <2>1, <2>2, <2>3, <2>4 DEF UserOr, UserExists, TypeInv, StoreOk
  <2>5. CASE a # c
    BY <2>1, <2>5 DEF UserOr, UserExists, TypeInv, StoreOk
  <2> QED
    BY <2>4, <2>5
<1> QED
  BY <1>3, <1>4, <1>5, <1>6, <1>7, DocumentChanges

\* A session becomes eligible on an approved document alone, and stays eligible for
\* the account it began with.
LEMMA SessionsStep ==
    ASSUME TypeInv, [Next]_vars, DocumentsRestOnApproval, SessionsRestOnApproval
    PROVE  SessionsRestOnApproval'
<1> SUFFICES ASSUME NEW s \in Session, Eligible(sessions[s])'
             PROVE  HasApproval(sessions'[s].account)
  BY ApprovalKept DEF SessionsRestOnApproval
<1> DEFINE session == sessions[s]
<1>0. session \in SessionType /\ SessionOk(session)
  BY DEF TypeInv, RunsOk
<1>1. CASE sessions'[s] = session
  BY <1>1 DEF SessionsRestOnApproval, Eligible
<1>2. CASE StartSession(s) \/ SubmitMint(s) \/ MintMined(s) \/ LinkTransaction(s)
           \/ LinkChecks(s) \/ LinkFails(s) \/ ReadBlock(s) \/ SignForNonce(s)
  <2>1. /\ sessions'[s].pc \notin {"idle", "verified", "done"} =>
             /\ session.pc \notin {"idle", "verified", "done"}
             /\ sessions'[s].account = session.account
    <3>1. CASE StartSession(s)
      BY <3>1 DEF StartSession, Advance, TypeInv, RunsOk, NoSession
    <3>2. CASE SubmitMint(s) \/ MintMined(s)
      BY <1>0, <3>2 DEF SubmitMint, MintMined, Advance, TypeInv, RunsOk, NoSession, SessionType
    <3>3. CASE LinkTransaction(s) \/ LinkChecks(s) \/ LinkFails(s)
      BY <1>0, <3>3 DEF LinkTransaction, LinkChecks, LinkFails, Advance, TypeInv, RunsOk,
                        SessionType
    <3>4. CASE ReadBlock(s) \/ SignForNonce(s)
      BY <1>0, <3>4 DEF ReadBlock, SignForNonce, Advance, TypeInv, RunsOk, SessionType
    <3> QED
      BY <1>2, <3>1, <3>2, <3>3, <3>4
  <2> QED
    BY <2>1 DEF SessionsRestOnApproval, Eligible
<1>3. CASE FetchKycStatus(s)
  <2> DEFINE kyc == kycStatus(session.account)
  <2>1. session.account \in Account
    BY <1>0, <1>3 DEF FetchKycStatus, SessionOk
  <2>2. sessions'[s].pc \notin {"idle", "verified", "done"} =>
           /\ sessions'[s].account = session.account
           /\ Listed(session.account) \/ kyc.status = "approved"
    BY <1>0, <1>3 DEF FetchKycStatus, MeetsMintRequirements, Advance, TypeInv, RunsOk,
                      SessionType, NoSession
  <2>3. kyc.status = "approved" => Approved(UserOr(session.account, EmptyUser).persona.status)
    BY DEF kycStatus, userStatusFromPersonaStatus, Approved
  <2> QED
    BY <2>1, <2>2, <2>3 DEF Eligible, DocumentsRestOnApproval
<1>4. CASE \E r \in Session \ {s} : StartSession(r) \/ SessionStep(r)
  <2>1. sessions'[s] = session
    BY <1>4 DEF StartSession, SessionStep, FetchKycStatus, ReadBlock, SignForNonce,
       LinkChecks, LinkTransaction, LinkFails, SubmitMint, MintMined, Advance, TypeInv, RunsOk
  <2> QED
    BY <1>1, <2>1
<1>5. CASE \E p \in Script : DestroyRead(p) \/ ScriptStep(p)
  BY <1>1, <1>5 DEF DestroyRead, ScriptStep, DestroyReadDeletions, DestroyCommit,
     DestroyFails, SignBurn, BurnMined
<1>6. CASE Persona \/ (\E event \in webhooks : Callback(event)) \/ StateResidency
           \/ Tick \/ UNCHANGED vars
  BY <1>1, <1>6 DEF Persona, Callback, StateResidency, Tick, vars
<1> QED
  BY <1>2, <1>3, <1>4, <1>5, <1>6 DEF Next, SessionStep

\* What a step does to the UIDs: a session mints, or a run of the script burns.
LEMMA UidChanges ==
    ASSUME TypeInv, [Next]_vars
    PROVE  \/ UNCHANGED uidVars
           \/ \E s \in Session :
                /\ sessions[s].pc = "submitted"
                /\ mint(sessions[s].account, sessions[s].type, SignatureOf(sessions[s]))
           \/ \E p \in Script : \E sig :
                /\ scripts[p].pc = "burning"
                /\ burn(scripts[p].account, scripts[p].type, sig, scripts[p].obsolete)
<1>1. CASE \E s \in Session : StartSession(s) \/ SessionStep(s)
  BY <1>1 DEF StartSession, SessionStep, FetchKycStatus, ReadBlock, SignForNonce, LinkChecks,
     LinkTransaction, LinkFails, SubmitMint, MintMined, ChainAndStoreUnchanged
<1>2. CASE \E p \in Script : DestroyRead(p) \/ ScriptStep(p)
  BY <1>2 DEF DestroyRead, ScriptStep, DestroyReadDeletions, DestroyCommit, DestroyFails,
     SignBurn, BurnMined, ChainAndStoreUnchanged
<1>3. CASE Persona \/ (\E event \in webhooks : Callback(event)) \/ StateResidency
           \/ Tick \/ UNCHANGED vars
  BY <1>3 DEF Persona, Callback, StateResidency, Tick, vars
<1> QED
  BY <1>1, <1>2, <1>3 DEF Next

LEMMA UidsStep ==
    ASSUME TypeInv, [Next]_vars, SessionsRestOnApproval, UidsRestOnApproval
    PROVE  UidsRestOnApproval'
<1> SUFFICES ASSUME NEW a \in Account, NEW t \in UidType, uids'[a][t] # None, ~ Listed(a)
             PROVE  HasApproval(a)
  BY ApprovalKept DEF UidsRestOnApproval, HasApproval
<1>1. CASE uids[a][t] # None
  BY <1>1 DEF UidsRestOnApproval, HasApproval
<1>2. CASE uids[a][t] = None
  <2>1. PICK s \in Session :
          /\ sessions[s].pc = "submitted"
          /\ mint(sessions[s].account, sessions[s].type, SignatureOf(sessions[s]))
    <3>1. ~ UNCHANGED uidVars
      BY <1>2 DEF uidVars
    <3>2. ASSUME NEW p \in Script, NEW sig,
                 burn(scripts[p].account, scripts[p].type, sig, scripts[p].obsolete)
          PROVE  FALSE
      <4>1. uids' = [uids EXCEPT ![scripts[p].account][scripts[p].type] = None]
        BY <3>2 DEF burn
      <4> QED
        BY <1>2, <4>1 DEF TypeInv, ContractOk
    <3> QED
      BY <3>1, <3>2, UidChanges
  <2>2. sessions[s].account = a
    BY <1>2, <2>1 DEF mint, TypeInv, ContractOk
  <2> QED
    BY <2>1, <2>2 DEF SessionsRestOnApproval, Eligible
<1> QED
  BY <1>1, <1>2

\* No account that is on no list has a UID without an inquiry about that very
\* account, for any number of sessions, runs of the script, inquiries and callbacks
\* that come in any order and again: UidsRestOnApproval for all constants.
THEOREM UidsRestOnApprovalCorrect == Spec => []UidsRestOnApproval
<1>1. Init => ApprovalInv
  BY DEF Init, StoreInit, UidInit, ApprovalInv, DocumentsRestOnApproval, UserOr, UserExists,
     EmptyUser, NoPersona, Approved, SessionsRestOnApproval, Eligible, NoSession,
     UidsRestOnApproval
<1>2. TypeInv /\ ApprovalInv /\ [Next]_vars => ApprovalInv'
  BY DocumentsStep, SessionsStep, UidsStep DEF ApprovalInv
<1>3. ApprovalInv => UidsRestOnApproval
  BY DEF ApprovalInv
<1> QED
  BY <1>1, <1>2, <1>3, TypeInvariant, PTL DEF Spec

-----------------------------------------------------------------------------
(* Nonces.                                                                 *)

LEMMA HeldTypesFinite ==
    ASSUME NEW a
    PROVE  IsFiniteSet(HeldTypes(a)) /\ Cardinality(HeldTypes(a)) \in Nat
<1>1. HeldTypes(a) \subseteq UidType
  BY DEF HeldTypes
<1> QED
  BY <1>1, UniqueIdentityAssumption, FS_Subset, FS_CardinalityType

\* A mint and a burn both take a nonce, and a burn only what was minted.
LEMMA MintNonce ==
    ASSUME TypeInv, NonceInv, NEW c \in Account, NEW type \in UidType, NEW sig,
           mint(c, type, sig)
    PROVE  NonceInv'
<1> DEFINE uid == [inquiry |-> sig.inquiry, nonce |-> sig.nonce, after |-> Len(burns[c])]
<1>1. /\ uids[c][type] = None
      /\ sig.nonce = nonces[c]
      /\ nonces' = [nonces EXCEPT ![c] = @ + 1]
      /\ uids' = [uids EXCEPT ![c][type] = uid]
      /\ burns' = burns
  BY DEF mint, CanMint, onlySigner, balanceOf
<1>2. uid.nonce = nonces[c] /\ uid.after = Len(burns[c])
  BY <1>1
<1>3. \A a \in Account : nonces[a] \in Nat /\ Len(burns[a]) \in Nat
  BY DEF TypeInv, ContractOk
<1> HIDE DEF uid
<1>4. ASSUME NEW a \in Account
      PROVE  nonces'[a] >= 2 * Len(burns'[a]) + Cardinality(HeldTypes(a)')
  <2>1. nonces[a] >= 2 * Len(burns[a]) + Cardinality(HeldTypes(a))
    BY DEF NonceInv
  <2>2. IsFiniteSet(HeldTypes(a)) /\ Cardinality(HeldTypes(a)) \in Nat
    BY HeldTypesFinite
  <2>3. HeldTypes(a)' = HeldTypes(a) \/ (a = c /\ HeldTypes(a)' = HeldTypes(a) \cup {type})
    BY <1>1 DEF HeldTypes, TypeInv, ContractOk
  <2>4. CASE HeldTypes(a)' = HeldTypes(a)
    BY <1>1, <1>3, <2>1, <2>2, <2>4 DEF TypeInv, ContractOk
  <2>5. CASE a = c /\ HeldTypes(a)' = HeldTypes(a) \cup {type}
    <3>1. Cardinality(HeldTypes(a)') <= Cardinality(HeldTypes(a)) + 1
          /\ Cardinality(HeldTypes(a)') \in Nat
      BY <2>2, <2>5, FS_AddElement
    <3>2. nonces'[a] = nonces[a] + 1
      BY <1>1, <2>5 DEF TypeInv, ContractOk
    <3> QED
      BY <1>1, <1>3, <2>1, <2>2, <3>1, <3>2
  <2> QED
    BY <2>3, <2>4, <2>5
<1>5. ASSUME NEW a \in Account, NEW t \in UidType, uids'[a][t] # None
      PROVE  uids'[a][t].nonce >= 2 * uids'[a][t].after
  <2>1. CASE a = c /\ t = type
    <3>1. uids'[a][t] = uid
      BY <1>1, <2>1 DEF TypeInv, ContractOk
    <3>2. nonces[c] >= 2 * Len(burns[c]) + Cardinality(HeldTypes(c))
          /\ Cardinality(HeldTypes(c)) \in Nat
      BY HeldTypesFinite DEF NonceInv
    <3> QED
      BY <1>2, <1>3, <3>1, <3>2
  <2>2. CASE ~ (a = c /\ t = type)
    BY <1>1, <1>5, <2>2 DEF NonceInv, SignedSinceBurned, TypeInv, ContractOk
  <2> QED
    BY <2>1, <2>2
<1> QED
  BY <1>4, <1>5 DEF NonceInv, SignedSinceBurned

LEMMA BurnNonce ==
    ASSUME TypeInv, NonceInv, NEW c \in Account, NEW type \in UidType, NEW sig, NEW obsolete,
           burn(c, type, sig, obsolete)
    PROVE  NonceInv'
<1>1. /\ uids[c][type] # None
      /\ nonces' = [nonces EXCEPT ![c] = @ + 1]
      /\ uids' = [uids EXCEPT ![c][type] = None]
      /\ burns' = [burns EXCEPT ![c] = Append(@, obsolete)]
  BY DEF burn, CanBurn, balanceOf
<1>2. \A a \in Account : nonces[a] \in Nat /\ Len(burns[a]) \in Nat
  BY DEF TypeInv, ContractOk
<1>3. ASSUME NEW a \in Account
      PROVE  nonces'[a] >= 2 * Len(burns'[a]) + Cardinality(HeldTypes(a)')
  <2>1. nonces[a] >= 2 * Len(burns[a]) + Cardinality(HeldTypes(a))
    BY DEF NonceInv
  <2>2. IsFiniteSet(HeldTypes(a)) /\ Cardinality(HeldTypes(a)) \in Nat
    BY HeldTypesFinite
  <2>3. CASE a # c
    <3>1. HeldTypes(a)' = HeldTypes(a) /\ nonces'[a] = nonces[a] /\ burns'[a] = burns[a]
      BY <1>1, <2>3 DEF HeldTypes, TypeInv, ContractOk
    <3> QED
      BY <2>1, <3>1
  <2>4. CASE a = c
    <3>1. HeldTypes(a)' = HeldTypes(a) \ {type} /\ type \in HeldTypes(a)
      BY <1>1, <2>4 DEF HeldTypes, TypeInv, ContractOk
    <3>2. Cardinality(HeldTypes(a)') = Cardinality(HeldTypes(a)) - 1
      BY <2>2, <3>1, FS_RemoveElement
    <3>3. nonces'[a] = nonces[a] + 1 /\ Len(burns'[a]) = Len(burns[a]) + 1
      BY <1>1, <2>4 DEF TypeInv, ContractOk
    <3> QED
      BY <1>2, <2>1, <2>2, <3>2, <3>3
  <2> QED
    BY <2>3, <2>4
<1>4. ASSUME NEW a \in Account, NEW t \in UidType, uids'[a][t] # None
      PROVE  uids'[a][t].nonce >= 2 * uids'[a][t].after
  BY <1>1, <1>4 DEF NonceInv, SignedSinceBurned, TypeInv, ContractOk
<1> QED
  BY <1>3, <1>4 DEF NonceInv, SignedSinceBurned

LEMMA NonceStep == TypeInv /\ NonceInv /\ [Next]_vars => NonceInv'
<1> SUFFICES ASSUME TypeInv, NonceInv, [Next]_vars PROVE NonceInv'
  OBVIOUS
<1>1. CASE UNCHANGED uidVars
  BY <1>1 DEF uidVars, NonceInv, HeldTypes, SignedSinceBurned
<1>2. ASSUME NEW s \in Session, sessions[s].pc = "submitted",
             mint(sessions[s].account, sessions[s].type, SignatureOf(sessions[s]))
      PROVE  NonceInv'
  <2>1. sessions[s].account \in Account /\ sessions[s].type \in UidType
    BY <1>2 DEF TypeInv, RunsOk, SessionOk
  <2> QED
    BY <1>2, <2>1, MintNonce
<1>3. ASSUME NEW p \in Script, NEW sig, scripts[p].pc = "burning",
             burn(scripts[p].account, scripts[p].type, sig, scripts[p].obsolete)
      PROVE  NonceInv'
  <2>1. scripts[p].account \in Account /\ scripts[p].type \in UidType
    BY <1>3 DEF TypeInv, RunsOk, ScriptOk
  <2> QED
    BY <1>3, <2>1, BurnNonce
<1> QED
  BY <1>1, <1>2, <1>3, UidChanges

\* However the requests, the mints and the burns are interleaved, no UID is held on
\* a signature that is older than a burn: SignedSinceBurned for all constants.
THEOREM SignedSinceBurnedCorrect == Spec => []SignedSinceBurned
<1>1. Init => NonceInv
  <2> SUFFICES ASSUME Init PROVE NonceInv
    OBVIOUS
  <2>1. ASSUME NEW a \in Account PROVE HeldTypes(a) = {} /\ nonces[a] = 0 /\ Len(burns[a]) = 0
    BY DEF Init, UidInit, HeldTypes
  <2>2. Cardinality({}) = 0
    BY FS_EmptySet
  <2>3. \A a \in Account : nonces[a] >= 2 * Len(burns[a]) + Cardinality(HeldTypes(a))
    BY <2>1, <2>2
  <2>4. SignedSinceBurned
    BY DEF SignedSinceBurned, Init, UidInit
  <2> QED
    BY <2>3, <2>4 DEF NonceInv
<1>2. NonceInv => SignedSinceBurned
  BY DEF NonceInv
<1> QED
  BY <1>1, <1>2, NonceStep, TypeInvariant, PTL DEF Spec

-----------------------------------------------------------------------------
(* Recipients.                                                             *)

\* The type of UID of an account does not change while its sign-ins, links and mints
\* go on: the countries that Persona names are all the US or all others, and in the
\* second case nobody states to be a resident of the US.
OneTypeEach ==
    /\ None # "us"
    /\ \/ Country \subseteq {None, US}
       \/ US \notin Country /\ \A statement \in Statements : statement[2] # "us"

\* The type of UID of an account, once it is found eligible.
FixedType(a) ==
    CASE Listed(a) -> ListedType[a]
      [] ~ Listed(a) /\ Country \subseteq {None, US} -> 2
      [] OTHER -> 0

Document(a) == UserOr(a, EmptyUser)

\* No function but personaCallback and setUserKYCData says where a user who is on no
\* list comes from.
OriginInv ==
    \A a \in Account : ~ Listed(a) =>
        /\ Document(a).countryCode \in Country \cup {None}
        /\ Document(a).residency \in {statement[2] : statement \in Statements} \cup {None}

\* Sessions past kycStatus have the type of their account.
SessionsOfFixedType ==
    \A s \in Session :
        sessions[s].pc \notin {"idle", "verified", "done"} =>
          sessions[s].type = FixedType(sessions[s].account)

\* A link that was answered with success is the one in the document.
LinksRecorded ==
    \A l \in linked :
        /\ UserExists(l[1])
        /\ l[2] = FixedType(l[1])
        /\ users[l[1]].uidRecipientAuthorizations[l[2]] = l[3]

LinkInv == OriginInv /\ SessionsOfFixedType /\ LinksRecorded

\* The type that the signer makes of the answer of kycStatus.
LEMMA FetchedType ==
    ASSUME OneTypeEach, TypeInv, OriginInv, NEW a \in Account,
           Listed(a) \/ kycStatus(a).countryCode # None
    PROVE  getIDType(a, kycStatus(a)) = FixedType(a)
<1>1. CASE Listed(a)
  BY <1>1 DEF getIDType, FixedType
<1>2. CASE ~ Listed(a)
  <2>1. Document(a) \in UserType
    BY UserOrType DEF TypeInv, Document
  <2>2. /\ kycStatus(a).countryCode = Document(a).countryCode
        /\ kycStatus(a).residency = Document(a).residency
    BY DEF kycStatus, Document
  <2>3. CASE Country \subseteq {None, US}
    <3>1. kycStatus(a).countryCode = US
      BY <1>2, <2>1, <2>2, <2>3, UserFields
    <3> QED
      BY <1>2, <2>3, <3>1 DEF getIDType, FixedType
  <2>4. CASE ~ (Country \subseteq {None, US})
    <3>1. kycStatus(a).countryCode # US
      BY <1>2, <2>2, <2>4 DEF OriginInv, OneTypeEach
    <3>2. kycStatus(a).residency # "us"
      BY <1>2, <2>2, <2>4 DEF OriginInv, OneTypeEach
    <3> QED
      BY <1>2, <2>4, <3>1, <3>2 DEF getIDType, FixedType
  <2> QED
    BY <2>3, <2>4
<1> QED
  BY <1>1, <1>2

\* One document is replaced.
LEMMA DocumentReplaced ==
    ASSUME TypeInv, NEW c \in Account, NEW user \in UserType, users' = [users EXCEPT ![c] = user]
    PROVE  /\ UserExists(c)' /\ users'[c] = user /\ Document(c)' = user
           /\ \A a \in Account \ {c} : users'[a] = users[a] /\ Document(a)' = Document(a)
           /\ UserExists(c) => Document(c) = users[c]
BY NoneAssumption DEF UserExists, UserOr, Document, TypeInv, StoreOk

\* A document may be replaced by one of the same origin that keeps its links.
LEMMA LinksKept ==
    ASSUME TypeInv, OriginInv, LinksRecorded, NEW c \in Account, NEW user \in UserType,
           users' = [users EXCEPT ![c] = user], UNCHANGED linked,
           user.uidRecipientAuthorizations = Document(c).uidRecipientAuthorizations,
           user.countryCode \in Country \cup {None, Document(c).countryCode},
           user.residency \in {statement[2] : statement \in Statements}
                               \cup {None, Document(c).residency}
    PROVE  OriginInv' /\ LinksRecorded'
<1>1. OriginInv'
  <2> DEFINE Origin == {statement[2] : statement \in Statements}
  <2>1. ASSUME NEW a \in Account, ~ Listed(a)
        PROVE  /\ Document(a)'.countryCode \in Country \cup {None}
               /\ Document(a)'.residency \in Origin \cup {None}
    <3>1. /\ Document(a).countryCode \in Country \cup {None}
          /\ Document(a).residency \in Origin \cup {None}
      BY <2>1 DEF OriginInv
    <3>2. IF a = c THEN Document(a)' = user ELSE Document(a)' = Document(a)
      BY DocumentReplaced
    <3> HIDE DEF Origin
    <3>3. user.residency \in Origin \cup {None, Document(c).residency}
      BY DEF Origin
    <3> QED
      BY <3>1, <3>2, <3>3
  <2> HIDE DEF Origin
  <2> QED
    BY <2>1 DEF OriginInv, Origin, Listed
<1>2. ASSUME NEW l \in linked
      PROVE  /\ UserExists(l[1])' /\ l[2] = FixedType(l[1])
             /\ users'[l[1]].uidRecipientAuthorizations[l[2]] = l[3]
  <2>1. /\ l[1] \in Account /\ UserExists(l[1]) /\ l[2] = FixedType(l[1])
        /\ users[l[1]].uidRecipientAuthorizations[l[2]] = l[3]
    BY DEF LinksRecorded, TypeInv, StoreOk
  <2>2. CASE l[1] = c
    BY <2>1, <2>2, DocumentReplaced
  <2>3. CASE l[1] # c
    BY <2>1, <2>3, DocumentReplaced DEF UserExists
  <2> QED
    BY <2>1, <2>2, <2>3
<1>3. LinksRecorded'
  BY <1>2 DEF LinksRecorded
<1> QED
  BY <1>1, <1>3

\* The transaction of linkUserToUid for the type of the account.
LEMMA LinkRecorded ==
    ASSUME TypeInv, OriginInv, LinksRecorded, NEW c \in Account, NEW type \in UidType,
           NEW recipient \in Account, type = FixedType(c), linkUserToUid(c, type, recipient)
    PROVE  OriginInv' /\ LinksRecorded'
<1> DEFINE country == IF isUsAccredited(c) THEN US ELSE Document(c).countryCode
           links == [NoLinks EXCEPT ![type] = recipient]
           user == [LinkableUser(c) EXCEPT !.uidRecipientAuthorizations = links]
<1>1. Document(c) \in UserType
  BY UserOrType DEF TypeInv, Document
<1>2. links \in [UidType -> Address] /\ links[type] = recipient
  BY EmptyUserType DEF Address
<1>3. country \in Country \cup {None, US}
  BY <1>1, UserFields
<1>4. LinkableUser(c) = [Document(c) EXCEPT !.countryCode = country]
  BY <1>1 DEF LinkableUser, UserType, Document
<1>5. /\ users' = [users EXCEPT ![c] = user]
      /\ linked' = linked \cup {<<c, type, recipient>>}
      /\ Document(c).uidRecipientAuthorizations[type] \in {None, recipient}
  BY DEF linkUserToUid, CanLink, Document
<1>6. ~ Listed(c) => country = Document(c).countryCode
  BY UniqueIdentityAssumption, KycStoreAssumption, NoneAssumption DEF isUsAccredited, Listed
<1> HIDE DEF links, country
<1>7. /\ user \in UserType
      /\ user.uidRecipientAuthorizations = links
      /\ user.countryCode = country /\ user.residency = Document(c).residency
  BY <1>1, <1>2, <1>3, <1>4, UserFields DEF UserType
<1> HIDE DEF user
<1>8. /\ UserExists(c)' /\ users'[c] = user /\ Document(c)' = user
      /\ \A a \in Account \ {c} : users'[a] = users[a] /\ Document(a)' = Document(a)
      /\ UserExists(c) => Document(c) = users[c]
  BY <1>5, <1>7, DocumentReplaced
<1>9. OriginInv'
  BY <1>6, <1>7, <1>8 DEF OriginInv
<1>10. ASSUME NEW l \in linked
       PROVE  /\ UserExists(l[1])' /\ l[2] = FixedType(l[1])
              /\ users'[l[1]].uidRecipientAuthorizations[l[2]] = l[3]
  <2>1. /\ l[1] \in Account /\ l[3] \in Account /\ UserExists(l[1]) /\ l[2] = FixedType(l[1])
        /\ users[l[1]].uidRecipientAuthorizations[l[2]] = l[3]
    BY DEF LinksRecorded, TypeInv, StoreOk
  <2>2. CASE l[1] = c
    <3>1. l[3] \in {None, recipient}
      BY <1>5, <1>8, <2>1, <2>2
    <3>2. l[3] = recipient
      BY <2>1, <3>1, NoneAssumption
    <3> QED
      BY <1>2, <1>7, <1>8, <2>1, <2>2, <3>2
  <2>3. CASE l[1] # c
    BY <1>8, <2>1, <2>3 DEF UserExists
  <2> QED
    BY <2>1, <2>2, <2>3
<1>11. UserExists(c)' /\ users'[c].uidRecipientAuthorizations[type] = recipient
  BY <1>2, <1>7, <1>8
<1>12. LinksRecorded'
  BY <1>5, <1>10, <1>11 DEF LinksRecorded
<1> QED
  BY <1>9, <1>12

LEMMA StoreLinks ==
    ASSUME TypeInv, [Next]_vars, OriginInv, SessionsOfFixedType, LinksRecorded
    PROVE  OriginInv' /\ LinksRecorded'
<1>1. CASE UNCHANGED <<users, linked>>
  BY <1>1 DEF OriginInv, LinksRecorded, Document, UserOr, UserExists
<1>2. CASE \E s \in Session : LinkTransaction(s)
  <2> PICK s \in Session : LinkTransaction(s)
    BY <1>2
  <2>1. /\ sessions[s].account \in Account /\ sessions[s].type \in UidType
        /\ sessions[s] \in SessionType /\ sessions[s].type = FixedType(sessions[s].account)
    BY DEF LinkTransaction, TypeInv, RunsOk, SessionOk, SessionsOfFixedType
  <2>2. RecipientOf(sessions[s]) \in Account
    BY <2>1 DEF RecipientOf, SessionType, Address
  <2>3. \/ linkUserToUid(sessions[s].account, sessions[s].type, RecipientOf(sessions[s]))
        \/ UNCHANGED <<users, linked>>
    BY DEF LinkTransaction, storeVars
  <2> QED
    BY <1>1, <2>1, <2>2, <2>3, LinkRecorded
<1>3. CASE \E p \in Script : DestroyCommit(p)
  <2> PICK p \in Script : DestroyCommit(p)
    BY <1>3
  <2> DEFINE c == scripts[p].account
  <2>1. c \in Account
    BY DEF DestroyCommit, TypeInv, RunsOk, ScriptOk
  <2>2. /\ users' = [users EXCEPT ![c] = None]
        /\ linked' = {link \in linked : link[1] # c}
    BY DEF DestroyCommit, destroyUser
  <2> HIDE DEF c
  <2>3. ASSUME NEW a \in Account PROVE users'[a] = IF a = c THEN None ELSE users[a]
    BY <2>1, <2>2 DEF TypeInv, StoreOk
  <2>4. ASSUME NEW a \in Account PROVE Document(a)' \in {EmptyUser, Document(a)}
    BY <2>3 DEF Document, UserOr, UserExists
  <2>5. EmptyUser.countryCode = None /\ EmptyUser.residency = None
    BY DEF EmptyUser
  <2>6. OriginInv'
    BY <2>4, <2>5 DEF OriginInv
  <2>7. LinksRecorded'
    BY <2>2, <2>3 DEF LinksRecorded, UserExists, TypeInv, StoreOk
  <2> QED
    BY <2>6, <2>7
<1>4. CASE \E event \in webhooks : Callback(event)
  <2> PICK event \in webhooks : personaCallback(event)
    BY <1>4 DEF Callback
  <2> DEFINE c == ReferenceId[event.inquiry]
             persona == [id |-> event.inquiry,
                         status |-> StickyStatus(Document(c).persona.status, event.status)]
             country == IF event.countryCode # None THEN event.countryCode
                        ELSE Document(c).countryCode
             user == [Document(c) EXCEPT !.persona = persona, !.countryCode = country]
  <2>1. event \in EventType /\ c \in Account
    BY KycStoreAssumption DEF TypeInv, StoreOk, EventType
  <2>2. Document(c) \in UserType
    BY <2>1, UserOrType DEF TypeInv, Document
  <2>3. persona \in PersonaType /\ country \in Country \cup {None, US}
    BY <2>1, <2>2, UserFields DEF EventType, PersonaType, StickyStatus, Statuses
  <2>4. country \in Country \cup {None, Document(c).countryCode}
    BY <2>1 DEF EventType
  <2>5. users' = [users EXCEPT ![c] = user] /\ UNCHANGED linked
    BY DEF personaCallback, Document
  <2> HIDE DEF c, persona, country
  <2>6. /\ user \in UserType /\ user.countryCode = country
        /\ user.residency = Document(c).residency
        /\ user.uidRecipientAuthorizations = Document(c).uidRecipientAuthorizations
    BY <2>2, <2>3, UserFields DEF UserType
  <2> HIDE DEF user
  <2> QED
    BY <2>1, <2>4, <2>5, <2>6, LinksKept
<1>5. CASE StateResidency
  <2> PICK statement \in Statements : setUserKYCData(statement[1], statement[2])
    BY <1>5 DEF StateResidency
  <2> DEFINE c == statement[1]
             user == [Document(c) EXCEPT !.residency = statement[2]]
  <2>1. c \in Account /\ statement[2] \in Residency
    BY KycStoreAssumption
  <2>2. Document(c) \in UserType
    BY <2>1, UserOrType DEF TypeInv, Document
  <2>3. users' = [users EXCEPT ![c] = user] /\ UNCHANGED linked
    BY DEF setUserKYCData, Document
  <2>4. /\ user \in UserType /\ user.countryCode = Document(c).countryCode
        /\ user.residency = statement[2]
        /\ user.uidRecipientAuthorizations = Document(c).uidRecipientAuthorizations
    BY <2>1, <2>2, UserFields DEF UserType
  <2> HIDE DEF c, user
  <2> QED
    BY <2>1, <2>3, <2>4, LinksKept
<1> QED
  BY <1>1, <1>2, <1>3, <1>4, <1>5, DocumentChanges

\* A session takes its type from kycStatus, and keeps it.
LEMMA SessionTypes ==
    ASSUME OneTypeEach, TypeInv, [Next]_vars, OriginInv, SessionsOfFixedType
    PROVE  SessionsOfFixedType'
<1> SUFFICES ASSUME NEW s \in Session, sessions'[s].pc \notin {"idle", "verified", "done"}
             PROVE  sessions'[s].type = FixedType(sessions'[s].account)
  BY DEF SessionsOfFixedType, FixedType, Listed
<1> DEFINE session == sessions[s]
<1>0. session \in SessionType /\ SessionOk(session)
  BY DEF TypeInv, RunsOk
<1>1. CASE sessions'[s] = session
  BY <1>1 DEF SessionsOfFixedType
<1>2. CASE StartSession(s) \/ SubmitMint(s) \/ MintMined(s) \/ LinkTransaction(s)
           \/ LinkChecks(s) \/ LinkFails(s) \/ ReadBlock(s) \/ SignForNonce(s)
  <2>1. /\ session.pc \notin {"idle", "verified", "done"}
        /\ sessions'[s].account = session.account /\ sessions'[s].type = session.type
    <3>1. CASE StartSession(s)
      BY <3>1 DEF StartSession, Advance, TypeInv, RunsOk, NoSession
    <3>2. CASE SubmitMint(s) \/ MintMined(s)
      BY <1>0, <3>2 DEF SubmitMint, MintMined, Advance, TypeInv, RunsOk, NoSession, SessionType
    <3>3. CASE LinkTransaction(s) \/ LinkChecks(s) \/ LinkFails(s)
      BY <1>0, <3>3 DEF LinkTransaction, LinkChecks, LinkFails, Advance, TypeInv, RunsOk,
                        SessionType
    <3>4. CASE ReadBlock(s) \/ SignForNonce(s)
      BY <1>0, <3>4 DEF ReadBlock, SignForNonce, Advance, TypeInv, RunsOk, SessionType
    <3> QED
      BY <1>2, <3>1, <3>2, <3>3, <3>4
  <2> QED
    BY <2>1 DEF SessionsOfFixedType
<1>3. CASE FetchKycStatus(s)
  <2> DEFINE kyc == kycStatus(session.account)
             type == getIDType(session.account, kyc)
             fetched == [session EXCEPT !.signInAt = 0, !.type = type]
  <2>1. session.account \in Account
    BY <1>0, <1>3 DEF FetchKycStatus, SessionOk
  <2>2. \/ Advance(s, "done", NoSession)
        \/ /\ Listed(session.account) \/ kyc.countryCode # None
           /\ \/ Advance(s, "eligible", fetched)
              \/ Advance(s, "eligible", [fetched EXCEPT !.inquiry = kyc.inquiry])
    BY <1>3 DEF FetchKycStatus, MeetsMintRequirements
  <2>3. Listed(session.account) \/ kyc.countryCode # None => type = FixedType(session.account)
    BY <2>1, FetchedType
  <2> HIDE DEF kyc, type
  <2>4. CASE Advance(s, "done", NoSession)
    BY <2>4 DEF Advance, TypeInv, RunsOk, NoSession
  <2>5. CASE ~ Advance(s, "done", NoSession)
    <3>1. sessions'[s].account = session.account /\ sessions'[s].type = type
      BY <1>0, <2>2, <2>5 DEF Advance, TypeInv, RunsOk, SessionType
    <3> QED
      BY <2>2, <2>3, <2>5, <3>1
  <2> QED
    BY <2>4, <2>5
<1>4. CASE \E r \in Session \ {s} : StartSession(r) \/ SessionStep(r)
  <2>1. sessions'[s] = session
    BY <1>4 DEF StartSession, SessionStep, FetchKycStatus, ReadBlock, SignForNonce,
       LinkChecks, LinkTransaction, LinkFails, SubmitMint, MintMined, Advance, TypeInv, RunsOk
  <2> QED
    BY <1>1, <2>1
<1>5. CASE \E p \in Script : DestroyRead(p) \/ ScriptStep(p)
  BY <1>1, <1>5 DEF DestroyRead, ScriptStep, DestroyReadDeletions, DestroyCommit,
     DestroyFails, SignBurn, BurnMined
<1>6. CASE Persona \/ (\E event \in webhooks : Callback(event)) \/ StateResidency
           \/ Tick \/ UNCHANGED vars
  BY <1>1, <1>6 DEF Persona, Callback, StateResidency, Tick, vars
<1> QED
  BY <1>2, <1>3, <1>4, <1>5, <1>6 DEF Next, SessionStep

\* As long as the type of an account does not change, no two requests that race
\* through linkUserToUid, destroyUser and the callbacks are both told that the UID of
\* that type goes to a recipient of theirs: OneRecipientPerType for all constants.
\* The configuration in which the country is corrected shows that OneTypeEach is needed.
THEOREM OneRecipientPerTypeCorrect ==
    ASSUME OneTypeEach
    PROVE  Spec => []OneRecipientPerType
<1>1. Init => LinkInv
  <2> SUFFICES ASSUME Init PROVE LinkInv
    OBVIOUS
  <2>1. \A a \in Account : Document(a) = EmptyUser
    BY DEF Init, StoreInit, Document, UserOr, UserExists
  <2>2. OriginInv
    BY <2>1 DEF OriginInv, EmptyUser
  <2> QED
    BY <2>2 DEF Init, StoreInit, LinkInv, SessionsOfFixedType, LinksRecorded, NoSession
<1>2. TypeInv /\ LinkInv /\ [Next]_vars => LinkInv'
  BY StoreLinks, SessionTypes DEF LinkInv
<1>3. LinkInv => OneRecipientPerType
  BY DEF LinkInv, LinksRecorded, OneRecipientPerType
<1> QED
  BY <1>1, <1>2, <1>3, TypeInvariant, PTL DEF Spec
=============================================================================
