--------------------------- MODULE UniqueIdentity ---------------------------
(* The contract UniqueIdentity: at most one UID of each type for an account,   *)
(* minted and burned by whoever brings a signature of a holder of SIGNER_ROLE  *)
(* over the account, the type, an expiry and the account's nonce.              *)
EXTENDS Integers, Sequences, FiniteSets

CONSTANTS Account,    \* the addresses
          UidType,    \* the types of UID, 0..10 in the contract
          supportedUIDTypes,  \* those that can be minted
          None        \* no UID, no recipient, no inquiry

ASSUME UniqueIdentityAssumption ==
    IsFiniteSet(UidType) /\ supportedUIDTypes \subseteq UidType

VARIABLES
    nonces,             \* nonces[a]: the operations on a's UIDs so far
    uids,               \* uids[a][t]: None, or what a's UID of type t was signed on
    burns,              \* burns[a]: what each burn of a UID of a had made obsolete
    now                 \* block.timestamp, in hours

uidVars == <<nonces, uids, burns>>

\* A signature over presignedMintMessage, or presignedMintToMessage when it names
\* a recipient. "inquiry" is no part of the message: it is the Persona inquiry that
\* the signer had read when it signed.
Signature(account, mintTo, id, expiresAt, nonce, inquiry) ==
    [account |-> account, mintTo |-> mintTo, id |-> id, expiresAt |-> expiresAt,
     nonce |-> nonce, inquiry |-> inquiry]

UidInit ==
    /\ nonces = [a \in Account |-> 0]
    /\ uids = [a \in Account |-> [t \in UidType |-> None]]
    /\ burns = [a \in Account |-> <<>>]

\* A slip of onlySigner: the nonce is not in the message.
onlySignerAnyNonce(account, id, sig) ==
    /\ now < sig.expiresAt
    /\ sig.account = account
    /\ sig.id = id
    /\ sig.mintTo = None

\* The message that mint and burn hash has no recipient, so that a signature for
\* another recipient recovers to an address that is no signer.
onlySigner(account, id, sig) ==
    /\ now < sig.expiresAt
    /\ sig.account = account
    /\ sig.id = id
    /\ sig.nonce = nonces[account]
    /\ sig.mintTo = None

balanceOf(account, id) == IF uids[account][id] = None THEN 0 ELSE 1

CanMint(account, id, sig) ==
    /\ onlySigner(account, id, sig)
    /\ id \in supportedUIDTypes
    /\ balanceOf(account, id) = 0

\* The UID remembers the inquiry it was signed on, and how many burns came before.
mint(account, id, sig) ==
    /\ CanMint(account, id, sig)
    /\ nonces' = [nonces EXCEPT ![account] = @ + 1]
    /\ uids' = [uids EXCEPT ![account][id] =
                  [inquiry |-> sig.inquiry, nonce |-> sig.nonce, after |-> Len(burns[account])]]
    /\ UNCHANGED burns

CanBurn(account, id, sig) ==
    /\ onlySigner(account, id, sig)
    /\ balanceOf(account, id) = 1

burn(account, id, sig, obsolete) ==
    /\ CanBurn(account, id, sig)
    /\ nonces' = [nonces EXCEPT ![account] = @ + 1]
    /\ uids' = [uids EXCEPT ![account][id] = None]
    /\ burns' = [burns EXCEPT ![account] = Append(@, obsolete)]
=============================================================================
