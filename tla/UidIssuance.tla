---------------------------- MODULE UidIssuance ----------------------------
(* How a UID comes to be and goes: the autotask unique-identity-signer, the    *)
(* function linkUserToUid that it calls, the page that mints, the script       *)
(* burnUID and the function destroyUser that it calls. They run at the same    *)
(* time over the store of KycStore and the contract UniqueIdentity, each step  *)
(* a request, a read or a write of theirs.                                     *)
EXTENDS KycStore

CONSTANTS Session,                \* runs of the signer, each with the page that asked
          Script,                 \* runs of burnUID
          Requests,               \* who may ask for a UID for whom: <<account, mintToAddress>>
          SignatureExpiry,        \* SIGNATURE_EXPIRY_IN_SECONDS
          SignInMaxAge,           \* ONE_DAY_SECONDS, the signatureMaxAge of kycStatus
          MaxTime                 \* bound: the last instant

ASSUME UidIssuanceAssumption ==
    /\ Requests \subseteq Account \X (Account \cup {None})
    /\ SignatureExpiry \in Nat /\ SignInMaxAge \in Nat /\ MaxTime \in Nat

VARIABLES sessions, scripts

vars == <<storeVars, uidVars, now, sessions, scripts>>

NoSession == [pc |-> "idle", account |-> None, mintTo |-> None, signInAt |-> 0,
              inquiry |-> None, type |-> None, expiresAt |-> 0, nonce |-> 0]
NoScript == [pc |-> "idle", account |-> None, type |-> None, user |-> None,
             deletions |-> <<>>, obsolete |-> None, expiresAt |-> 0, nonce |-> 0]

Init ==
    /\ StoreInit /\ UidInit
    /\ now = 0
    /\ sessions = [s \in Session |-> NoSession]
    /\ scripts = [p \in Script |-> NoScript]

Advance(s, pc, fields) == sessions' = [sessions EXCEPT ![s] = [fields EXCEPT !.pc = pc]]
AdvanceScript(p, pc, fields) == scripts' = [scripts EXCEPT ![p] = [fields EXCEPT !.pc = pc]]
ChainAndStoreUnchanged == UNCHANGED <<storeVars, uidVars, now>>

-----------------------------------------------------------------------------
(* The signer *)

\* "Sign in to Goldfinch: <block>", for a block that exists and is a day old at most.
verifySignature(signInAt) == signInAt <= now /\ signInAt + SignInMaxAge >= now

\* The signer takes a request and verifies its sign-in.
StartSession(s) ==
    /\ sessions[s].pc = "idle"
    /\ \E request \in Requests, signInAt \in 0..now :
         /\ verifySignature(signInAt)
         /\ Advance(s, "verified", [NoSession EXCEPT !.account = request[1],
                                       !.mintTo = request[2], !.signInAt = signInAt])
    /\ ChainAndStoreUnchanged /\ UNCHANGED scripts

\* What the signer asks of the answer of kycStatus: approved, and a country that
\* is a string (isKYC).
MeetsMintRequirements(kyc) == kyc.status = "approved" /\ kyc.countryCode # None

\* fetchKYCStatus: kycStatus verifies the sign-in again and reads the document.
\* The signer throws unless the account meets the requirements; listed accounts
\* are not asked about.
FetchKycStatus(s) ==
    LET session == sessions[s]
        kyc == kycStatus(session.account)
        fetched == [session EXCEPT !.signInAt = 0, !.type = getIDType(session.account, kyc)]
    IN  /\ session.pc = "verified"
        /\ IF Listed(session.account) THEN Advance(s, "eligible", fetched)
           ELSE IF verifySignature(session.signInAt) /\ MeetsMintRequirements(kyc)
             THEN Advance(s, "eligible", [fetched EXCEPT !.inquiry = kyc.inquiry])
             ELSE Advance(s, "done", NoSession)
        /\ ChainAndStoreUnchanged /\ UNCHANGED scripts

\* getBlock("latest"), for the expiry.
ReadBlock(s) ==
    /\ sessions[s].pc = "eligible"
    /\ Advance(s, "dated", [sessions[s] EXCEPT !.expiresAt = now + SignatureExpiry])
    /\ ChainAndStoreUnchanged /\ UNCHANGED scripts

\* nonces(userAddress), and the signature.
SignForNonce(s) ==
    /\ sessions[s].pc = "dated"
    /\ Advance(s, "signed", [sessions[s] EXCEPT !.nonce = nonces[sessions[s].account]])
    /\ ChainAndStoreUnchanged /\ UNCHANGED scripts

SignatureOf(session) ==
    Signature(session.account, session.mintTo, session.type, session.expiresAt,
              session.nonce, session.inquiry)

RecipientOf(session) == IF session.mintTo = None THEN session.account ELSE session.mintTo

\* linkUserToUid verifies the signature and its expiry and reads the balances; a
\* refusal ends the request, and the signer answers the page all the same.
LinkChecks(s) ==
    LET session == sessions[s]
        ok == /\ session.expiresAt >= now
              /\ balanceOf(RecipientOf(session), session.type) = 0
              /\ balanceOf(session.account, session.type) = 0
    IN  /\ session.pc = "signed"
        /\ Advance(s, IF ok THEN "linking" ELSE "answered", session)
        /\ ChainAndStoreUnchanged /\ UNCHANGED scripts

\* The transaction of linkUserToUid, committed or refused.
LinkTransaction(s) ==
    LET session == sessions[s]
    IN  /\ session.pc = "linking"
        /\ Advance(s, "answered", session)
        /\ \/ linkUserToUid(session.account, session.type, RecipientOf(session))
           \/ /\ ~ CanLink(session.account, session.type, RecipientOf(session))
              /\ UNCHANGED storeVars
        /\ UNCHANGED <<uidVars, now, scripts>>

\* The request to linkUserToUid fails on the way; the error is logged.
LinkFails(s) ==
    /\ sessions[s].pc \in {"signed", "linking"}
    /\ Advance(s, "answered", sessions[s])
    /\ ChainAndStoreUnchanged /\ UNCHANGED scripts

\* The page asks kycStatus again, for the type it will mint, and sends the
\* transaction: one of another type than was signed reverts whenever it is mined.
SubmitMint(s) ==
    LET session == sessions[s]
        version == getIDType(session.account, kycStatus(session.account))
    IN  /\ session.pc = "answered"
        /\ IF session.mintTo = None /\ version = session.type
             THEN Advance(s, "submitted", session)
             ELSE Advance(s, "done", NoSession)
        /\ ChainAndStoreUnchanged /\ UNCHANGED scripts

\* The transaction is mined, or reverts.
MintMined(s) ==
    LET session == sessions[s]
    IN  /\ session.pc = "submitted"
        /\ Advance(s, "done", NoSession)
        /\ \/ mint(session.account, session.type, SignatureOf(session))
           \/ /\ ~ CanMint(session.account, session.type, SignatureOf(session))
              /\ UNCHANGED uidVars
        /\ UNCHANGED <<storeVars, now, scripts>>

-----------------------------------------------------------------------------
(* The script burnUID *)

\* The script sends its request to destroyUser, which verifies it and reads the
\* document of the user. Without one it answers 200; without an approved status it
\* answers 409, and without any persona it fails with 500. The script throws only
\* at a body that has an "error", which the answers of a refused signature have:
\* it goes on after 200, 409 and 500.
DestroyRead(p) ==
    /\ scripts[p].pc = "idle"
    /\ \E a \in Account, t \in UidType :
         LET user == UserOr(a, EmptyUser)
             read == [NoScript EXCEPT !.account = a, !.type = t, !.user = user.persona,
                                      !.obsolete = user.persona.id]
         IN  AdvanceScript(p, IF user.persona.status = "approved" THEN "deleting"
                              ELSE "answered", read)
    /\ ChainAndStoreUnchanged /\ UNCHANGED sessions

\* destroyUser reads the record of earlier deletions.
DestroyReadDeletions(p) ==
    /\ scripts[p].pc = "deleting"
    /\ AdvanceScript(p, "committing",
         [scripts[p] EXCEPT !.deletions = destroyedUsers[scripts[p].account]])
    /\ ChainAndStoreUnchanged /\ UNCHANGED sessions

\* A slip of WithDeletion: the earlier deletions are not spread.
NestedDeletions(script) ==
    <<script.deletions, [type |-> script.type, persona |-> script.user]>>

\* What the script found, with its own deletion at the end.
WithDeletion(script) ==
    Append(script.deletions, [type |-> script.type, persona |-> script.user])

\* destroyUser commits.
DestroyCommit(p) ==
    LET script == scripts[p]
    IN  /\ script.pc = "committing"
        /\ destroyUser(script.account, WithDeletion(script), script.deletions = <<>>)
        /\ AdvanceScript(p, "answered", script)
        /\ UNCHANGED <<uidVars, now, sessions>>

\* The commit fails and destroyUser answers 500.
DestroyFails(p) ==
    /\ scripts[p].pc = "committing"
    /\ AdvanceScript(p, "answered", scripts[p])
    /\ ChainAndStoreUnchanged /\ UNCHANGED sessions

\* The script reads the chain: an account that has no nonce is an error, one that
\* has no UID of the type is left alone, any other gets a signature for the burn.
SignBurn(p) ==
    LET script == scripts[p]
    IN  /\ script.pc = "answered"
        /\ IF nonces[script.account] > 0 /\ balanceOf(script.account, script.type) > 0
             THEN AdvanceScript(p, "burning",
                    [script EXCEPT !.nonce = nonces[script.account],
                                   !.expiresAt = now + SignatureExpiry])
             ELSE AdvanceScript(p, "done", NoScript)
        /\ ChainAndStoreUnchanged /\ UNCHANGED sessions

\* The burn is mined, or reverts; the script does not wait for it.
BurnMined(p) ==
    LET script == scripts[p]
        sig == Signature(script.account, None, script.type, script.expiresAt,
                         script.nonce, None)
    IN  /\ script.pc = "burning"
        /\ AdvanceScript(p, "done", NoScript)
        /\ \/ burn(script.account, script.type, sig, script.obsolete)
           \/ ~ CanBurn(script.account, script.type, sig) /\ UNCHANGED uidVars
        /\ UNCHANGED <<storeVars, now, sessions>>

-----------------------------------------------------------------------------
(* Persona, the user, the admin and time *)

Persona ==
    /\ \E i \in Inquiry : PersonaDecides(i)
    /\ UNCHANGED <<uidVars, now, sessions, scripts>>

Callback(event) ==
    /\ personaCallback(event)
    /\ UNCHANGED <<uidVars, now, sessions, scripts>>

StateResidency ==
    /\ \E statement \in Statements : setUserKYCData(statement[1], statement[2])
    /\ UNCHANGED <<uidVars, now, sessions, scripts>>

Tick ==
    /\ now < MaxTime
    /\ now' = now + 1
    /\ UNCHANGED <<storeVars, uidVars, sessions, scripts>>

SessionStep(s) ==
    \/ FetchKycStatus(s) \/ ReadBlock(s) \/ SignForNonce(s)
    \/ LinkChecks(s) \/ LinkTransaction(s) \/ LinkFails(s)
    \/ SubmitMint(s) \/ MintMined(s)

ScriptStep(p) ==
    \/ DestroyReadDeletions(p) \/ DestroyCommit(p) \/ DestroyFails(p)
    \/ SignBurn(p) \/ BurnMined(p)

Next ==
    \/ \E s \in Session : StartSession(s) \/ SessionStep(s)
    \/ \E p \in Script : DestroyRead(p) \/ ScriptStep(p)
    \/ Persona
    \/ \E event \in webhooks : Callback(event)
    \/ StateResidency \/ Tick

Spec == Init /\ [][Next]_vars

\* Persona sends an event again until it is answered with 200.
WebhooksDelivered ==
    \A i \in Inquiry, country \in Country :
        LET event == [inquiry |-> i, status |-> "approved", countryCode |-> country]
        IN  WF_vars(event \in webhooks \ acked /\ Callback(event))

FairSpec == Spec /\ WebhooksDelivered
=============================================================================
