-------------------------- MODULE SubgraphProperties --------------------------
(***************************************************************************)
(* What is asked of Subgraph: what its entities say, when it has caught up *)
(* with the chain, of the pool they stand for.                             *)
(***************************************************************************)
EXTENDS Subgraph, TranchedPoolProperties

CaughtUp == block = <<>> /\ ~Stopped(store)

\* The token entities are the live tokens, with their owners and what was withdrawn
\* and redeemed of them, and a wallet lists exactly the tokens it has, each once,
\* though all of this is added up from the events of two contracts, of which a
\* burn, a mint and a transfer share one, in whatever order they come in a block, and
\* though handlers of the pool's events may have failed before.
TokensMirrored ==
    CaughtUp =>
        /\ DOMAIN store.tokens = DOMAIN tokens
        /\ \A id \in DOMAIN tokens :
              store.tokens[id] = [user |-> owner[id],
                                  principalAmount |-> tokens[id].principalAmount,
                                  principalRedeemed |-> tokens[id].principalRedeemed,
                                  interestRedeemed |-> tokens[id].interestRedeemed]
        /\ \A user \in Wallets :
              /\ ToSet(store.users[user]) = {id \in DOMAIN owner : owner[id] = user}
              /\ IsInjective(store.users[user])

\* What the drawdowns of the transaction list add up to, less what the pool is said
\* to have repaid, is what is borrowed, on the chain and in the line's entity: events
\* are added up, the balance is read at the end of the block, and they agree after
\* draws and payments, of interest alone or too large, that share a block.
LoanAddsUp ==
    CaughtUp /\ ~store.failed =>
        /\ store.drawn - store.principalAmountRepaid = balance
        /\ store.lineBalance = balance

\* Once the current slice is locked, the tranches' deposits, locks and share prices
\* are those of the contract, and so is the sum of the junior deposits: whatever the
\* deposits, which are added to what was read and may be counted twice, have left
\* wrong before, the lock puts right and nothing after it spoils.
LockedPoolMirrored ==
    CaughtUp /\ ~store.failed /\ Locked =>
        /\ store.tranches = TrancheInfos
        /\ store.juniorDeposited = JuniorDeposited

\* No handler fails: "assert(TranchedPoolToken.load(poolTokenIds[i]))"
\* (updatePoolTokensRedeemable).
HandlersSucceed == ~store.failed

\* The tokens that were made or changed hands in the current block.
Moved ==
    {e.id : e \in {x \in ToSet(FlattenSeq(block)) : x.name \in {"TokenMinted", "Transfer"}}}

\* A wallet stops being a backer only when none of the tokens that it had, and that
\* stayed with it, is left with principal, whichever of several tokens it withdrew, in
\* which order, in blocks in which tokens come and go.
BackersWithdrawn ==
    [][\A user \in store.backers \ store'.backers :
          \A id \in ToSet(store.users[user]) \ Moved :
              id \in DOMAIN tokens => tokens[id].principalAmount = 0
      ]_<<clVars, poolVars, subgraphVars>>
=============================================================================
