----------------------------- MODULE PoolTokens -----------------------------
(***************************************************************************)
(* PoolTokens.sol: the tokens that stand for deposits in a pool, as far as *)
(* one pool sees them.  Ids count up and are not used again; a token that  *)
(* is burned leaves no record.  Who owns a token is not modelled: the      *)
(* owner is whoever makes the call.                                        *)
(***************************************************************************)
EXTENDS Integers, Functions

CONSTANT MaxTokens   \* bound: how many tokens are ever minted

ASSUME PoolTokensAssumption == MaxTokens \in Nat

VARIABLES
    tokens,                  \* the live tokens: id -> TokenInfo
    lastTokenId,
    totalMinted,             \* PoolInfo of the pool
    totalPrincipalRedeemed

tokenVars == <<tokens, lastTokenId, totalMinted, totalPrincipalRedeemed>>

TokensInit ==
    /\ tokens = << >>
    /\ lastTokenId = 0
    /\ totalMinted = 0
    /\ totalPrincipalRedeemed = 0

\* A tranche is <<index of its slice, kind>>.
TokenInfo(tranche, amount) ==
    [tranche |-> tranche, principalAmount |-> amount,
     principalRedeemed |-> 0, interestRedeemed |-> 0]

mint(tranche, amount) ==
    /\ lastTokenId < MaxTokens
    /\ lastTokenId' = lastTokenId + 1
    /\ tokens' = [id \in DOMAIN tokens \cup {lastTokenId'} |->
                     IF id = lastTokenId' THEN TokenInfo(tranche, amount) ELSE tokens[id]]
    /\ totalMinted' = totalMinted + amount
    /\ UNCHANGED totalPrincipalRedeemed

redeem(id, principal, interest) ==
    /\ totalPrincipalRedeemed + principal <= totalMinted
    /\ tokens[id].principalRedeemed + principal <= tokens[id].principalAmount
    /\ totalPrincipalRedeemed' = totalPrincipalRedeemed + principal
    /\ tokens' = [tokens EXCEPT ![id].principalRedeemed = @ + principal,
                                ![id].interestRedeemed = @ + interest]
    /\ UNCHANGED <<lastTokenId, totalMinted>>

\* Variant: what the pool has minted in total is not reduced.
MintedKept(id, amount) ==
    /\ tokens[id].principalRedeemed = 0
    /\ tokens[id].principalAmount >= amount
    /\ tokens' = [tokens EXCEPT ![id].principalAmount = @ - amount]
    /\ UNCHANGED <<lastTokenId, totalMinted, totalPrincipalRedeemed>>

withdrawPrincipal(id, amount) ==
    /\ tokens[id].principalRedeemed = 0
    /\ tokens[id].principalAmount >= amount
    /\ totalMinted - amount >= totalPrincipalRedeemed
    /\ totalMinted' = totalMinted - amount
    /\ tokens' = [tokens EXCEPT ![id].principalAmount = @ - amount]
    /\ UNCHANGED <<lastTokenId, totalPrincipalRedeemed>>

\* Only a token with no principal left may be burned.
burn(id) ==
    /\ tokens[id].principalRedeemed = tokens[id].principalAmount
    /\ tokens' = Restrict(tokens, DOMAIN tokens \ {id})
    /\ UNCHANGED <<lastTokenId, totalMinted, totalPrincipalRedeemed>>
=============================================================================
