------------------------------ MODULE Subgraph ------------------------------
(***************************************************************************)
(* packages/subgraph: the entities from which the newer web clients read,  *)
(* made by handlers of a tranched pool's and its tokens' events.  A block  *)
(* is indexed once it is complete, its events in their order; some         *)
(* handlers add up what the events say, others read the contracts, as they *)
(* are at the END of the block.  Left out: estimates and rewards, what of  *)
(* a token is redeemable, zaps, and the entities of other contracts.       *)
(***************************************************************************)
EXTENDS TranchedPool, SequencesExt

CONSTANTS
    Backers,        \* wallets that hold junior tokens
    SeniorFund,     \* the senior pool
    Nobody,         \* the zero address
    SelfTransfers,  \* whether a token may be sent to who has it
    NonFatalErrors, \* whether the feature nonFatalErrors is supported
    MaxBlockTxs     \* bound: transactions with events in a block

ASSUME SubgraphAssumption ==
    /\ SeniorFund \notin Backers /\ Nobody \notin Backers \cup {SeniorFund}
    /\ {SelfTransfers, NonFatalErrors} \subseteq BOOLEAN
    /\ MaxBlockTxs \in Nat

VARIABLES
    owner,   \* who holds a live token
    block,   \* the current block: of each of its transactions, the events
    store    \* the entities, and whether a handler has failed

\* The function with a value for one argument more.
Added(f, x, value) == [y \in DOMAIN f \cup {x} |-> IF y = x THEN value ELSE f[y]]

Wallets == Backers \cup {SeniorFund}
subgraphVars == <<owner, block, store>>

-----------------------------------------------------------------------------
(* What handlers read of the contracts                                     *)

TrancheInfos == [i \in DOMAIN slices |-> [kind \in Kinds |-> slices[i][kind]]]

JuniorDeposited == SumOfSlices(slices, LAMBDA i : slices[i].junior.principalDeposited)

\* Slip of initOrUpdateTranchedPool: the infos there are already are kept.
RefreshNewOnly(s) ==
    [s EXCEPT !.tranches = @ \o SubSeq(TrancheInfos, Len(@) + 1, Len(slices)),
              !.juniorDeposited = JuniorDeposited]

initOrUpdateTranchedPool(s) ==
    [s EXCEPT !.tranches = TrancheInfos, !.juniorDeposited = JuniorDeposited]

\* Slip of updatePoolCreditLine: the entity is made once (getOrInitCreditLine).
KeptLine(s) == s

updatePoolCreditLine(s) == [s EXCEPT !.lineBalance = balance]

\* Most handlers of the pool's events do both.
Refresh(s) == updatePoolCreditLine(initOrUpdateTranchedPool(s))

\* updatePoolTokensRedeemable asserts that the tokens the pool has listed are stored.
TokensListed(s) == s.poolTokens \subseteq DOMAIN s.tokens
UpdateTokens(s) == IF TokensListed(s) THEN s ELSE [s EXCEPT !.failed = TRUE]

-----------------------------------------------------------------------------
(* Handlers: the entities after an event                                   *)

TokenEntity(user, amount) ==
    [user |-> user, principalAmount |-> amount,
     principalRedeemed |-> 0, interestRedeemed |-> 0]

handleTokenMinted(s, e) ==
    [s EXCEPT !.tokens = Added(@, e.id, TokenEntity(e.to, e.amount)),
              !.poolTokens = @ \cup {e.id},
              !.users[e.to] = Append(@, e.id)]

handleTokenBurned(s, e) ==
    [s EXCEPT !.tokens = Restrict(@, DOMAIN @ \ {e.id})]

handleTokenRedeemed(s, e) ==
    [s EXCEPT !.tokens[e.id].principalRedeemed = @ + e.principal,
              !.tokens[e.id].interestRedeemed = @ + e.interest]

\* Slip of handleTransfer: the token stays with the old owner.
KeptByOldOwner(s, e) ==
    [s EXCEPT !.users[e.to] = Append(@, e.id), !.tokens[e.id].user = e.to]

\* The new owner's list is read before the old owner's is saved: it matters when
\* they are the same.
handleTransfer(s, e) ==
    [s EXCEPT !.users = [s.users EXCEPT ![e.from] = RemoveFirst(s.users[e.from], e.id),
                                        ![e.to] = Append(s.users[e.to], e.id)],
              !.tokens[e.id].user = e.to]

\* Slip of isUserFullyWithdrawnFromPool: no other token is looked at.
WithdrawnFromToken(s, user) == TRUE

HasPrincipal(s, id) == id \in DOMAIN s.tokens /\ s.tokens[id].principalAmount > 0
isUserFullyWithdrawnFromPool(s, user) == ~\E id \in Range(s.users[user]) : HasPrincipal(s, id)

\* It looks at the tokens one by one, until one has principal, and asserts of
\* each that it is stored.
AssertsMissing(s, user) ==
    \E i \in DOMAIN s.users[user] :
        /\ s.users[user][i] \notin DOMAIN s.tokens
        /\ \A j \in 1..(i - 1) : ~HasPrincipal(s, s.users[user][j])

handleTokenPrincipalWithdrawn(s, e) ==
    LET t == [s EXCEPT !.tokens[e.id].principalAmount = @ - e.amount]
    IN  IF t.tokens[e.id].principalAmount > 0 THEN t
        ELSE IF AssertsMissing(t, e.from) THEN [t EXCEPT !.failed = TRUE]
        ELSE IF isUserFullyWithdrawnFromPool(t, e.from)
             THEN [t EXCEPT !.backers = @ \ {e.from}]
        ELSE t

\* The amount counts as junior whatever the tranche; only a junior tranche's info
\* is brought up to date.
DepositCounted(infos, e) ==
    IF e.tranche[2] = "junior"
    THEN [infos EXCEPT ![e.tranche[1]].junior.principalDeposited = @ + e.amount]
    ELSE infos

handleDepositMade(s, e) ==
    updatePoolCreditLine(
        [s EXCEPT !.backers = @ \cup {e.to},
                  !.juniorDeposited = @ + e.amount,
                  !.tranches = DepositCounted(@, e)])

\* The amount is that of the transaction entity it makes.
handleDrawdownMade(s, e) ==
    [UpdateTokens(Refresh(s)) EXCEPT !.drawn = @ + e.amount]

handlePaymentApplied(s, e) ==
    UpdateTokens([Refresh(s) EXCEPT !.principalAmountRepaid = @ + e.principal])

\* Events of a token that is not stored are passed over; without nonFatalErrors so
\* are all events once a handler has failed.
OfToken == {"Transfer", "TokenBurned", "TokenRedeemed", "TokenPrincipalWithdrawn"}
Stopped(s) == s.failed /\ ~NonFatalErrors
PassedOver(s, e) == Stopped(s) \/ (e.name \in OfToken /\ e.id \notin DOMAIN s.tokens)

Handler(s, e) ==
    CASE e.name = "Transfer"                -> handleTransfer(s, e)
      [] e.name = "TokenMinted"             -> handleTokenMinted(s, e)
      [] e.name = "TokenBurned"             -> handleTokenBurned(s, e)
      [] e.name = "TokenRedeemed"           -> handleTokenRedeemed(s, e)
      [] e.name = "TokenPrincipalWithdrawn" -> handleTokenPrincipalWithdrawn(s, e)
      [] e.name = "DepositMade"             -> handleDepositMade(s, e)
      [] e.name = "DrawdownMade"            -> handleDrawdownMade(s, e)
      [] e.name = "PaymentApplied"          -> handlePaymentApplied(s, e)
      [] e.name = "DrawdownsPaused"         -> initOrUpdateTranchedPool(s)
      [] OTHER                              -> Refresh(s)

\* What a failed handler has saved is undone.
Handle(s, e) ==
    LET t == Handler([s EXCEPT !.failed = FALSE], e)
    IN  IF PassedOver(s, e) THEN s
        ELSE IF t.failed THEN [s EXCEPT !.failed = TRUE]
        ELSE [t EXCEPT !.failed = s.failed]

\* Without nonFatalErrors the index stays before a block in which a handler fails.
IndexBlock ==
    LET indexed == FoldLeft(Handle, store, FlattenSeq(block))
    IN  /\ block # <<>>
        /\ block' = <<>>
        /\ store' = IF Stopped(indexed) THEN [store EXCEPT !.failed = TRUE] ELSE indexed
        /\ UNCHANGED <<clVars, poolVars, owner>>

-----------------------------------------------------------------------------
(* Transactions, with the events they emit                                 *)

Emit(events) ==
    /\ Len(block) < MaxBlockTxs
    /\ block' = Append(block, events)
    /\ UNCHANGED store

Event(name) == [name |-> name]
Transferred(id, from, to) == [name |-> "Transfer", id |-> id, from |-> from, to |-> to]

DepositBy(user, kind, amount) ==
    /\ Deposit(kind, amount)
    /\ owner' = Added(owner, lastTokenId', user)
    /\ Emit(<<Transferred(lastTokenId', Nobody, user),
              [name |-> "TokenMinted", id |-> lastTokenId', to |-> user, amount |-> amount],
              [name |-> "DepositMade", to |-> user, tranche |-> <<Current, kind>>,
               amount |-> amount]>>)

TokenEvent(id, amount) ==
    IF TrancheOf(id).lockedUntil = 0
    THEN [name |-> "TokenPrincipalWithdrawn", id |-> id, from |-> owner[id], amount |-> amount]
    ELSE LET interest == Smaller(InterestRedeemable(id), amount)
         IN  [name |-> "TokenRedeemed", id |-> id, interest |-> interest,
              principal |-> Smaller(PrincipalRedeemable(id), amount - interest)]

WithdrawFrom(id, amount) ==
    /\ Withdraw(id, amount)
    /\ Emit(<<TokenEvent(id, amount), Event("WithdrawalMade")>>)
    /\ UNCHANGED owner

TransferToken(id, to) ==
    /\ owner[id] \in Backers
    /\ SelfTransfers \/ to # owner[id]
    /\ owner' = [owner EXCEPT ![id] = to]
    /\ Emit(<<Transferred(id, owner[id], to)>>)
    /\ UNCHANGED <<clVars, poolVars>>

\* _burn emits Transfer before burn emits TokenBurned.
BurnToken(id) ==
    /\ Burn(id)
    /\ owner' = Restrict(owner, DOMAIN owner \ {id})
    /\ Emit(<<Transferred(id, owner[id], Nobody), [name |-> "TokenBurned", id |-> id]>>)

\* A pool locked by a draw emits TrancheLocked for both tranches, to the same effect.
DrawAndEmit(amount) ==
    /\ PoolDrawdown(amount)
    /\ Emit((IF Locked THEN <<>> ELSE <<Event("TrancheLocked")>>)
              \o <<[name |-> "DrawdownMade", amount |-> amount]>>)

\* PaymentApplied is emitted when some of the payment was applied.
ApplyAndEmit(payment) ==
    IF Collected(payment) > 0
    THEN Emit(<<[name |-> "PaymentApplied", principal |-> PrincipalPayment(payment)]>>)
    ELSE UNCHANGED <<block, store>>

\* What emits one event of the pool.  A migration keeps the limit.
PoolEvent ==
    \/ (LockJuniorCapital \/ LockPool) /\ Emit(<<Event("TrancheLocked")>>)
    \/ /\ \E time \in FundableTimes : InitializeNextSlice(time)
       /\ Emit(<<Event("SliceCreated")>>)
    \/ EmergencyShutdown /\ Emit(<<Event("EmergencyShutdown")>>)
    \/ /\ \E value \in PauseValues : SetDrawdownsPaused(value)
       /\ Emit(<<Event("DrawdownsPaused")>>)
    \/ /\ \E newTerms \in Terms : Migrate(newTerms, maxLimit)
       /\ UNCHANGED poolVars
       /\ Emit(<<Event("CreditLineMigrated")>>)

\* What emits no event that has a handler: the subgraph never hears of it.
Unheard ==
    /\ \/ \E value \in PauseValues : SetPaused(value)
       \/ \E time \in FundableTimes : SetFundableAt(time)
       \/ /\ \/ \E amount \in Donations : Receive(amount)
             \/ \E limit \in AdminLimits : SetLimit(limit) \/ SetMaxLimit(limit)
          /\ UNCHANGED poolVars
    /\ UNCHANGED <<block, store>>

\* A block has one timestamp.
NextTimestamp ==
    /\ block = <<>>
    /\ Tick
    /\ UNCHANGED <<poolVars, subgraphVars>>

-----------------------------------------------------------------------------

SubgraphInit ==
    /\ PoolInit
    /\ owner = << >>
    /\ block = <<>>
    /\ store = [tokens |-> << >>, users |-> [user \in Wallets \cup {Nobody} |-> <<>>],
                poolTokens |-> {}, backers |-> {}, tranches |-> TrancheInfos,
                juniorDeposited |-> 0, lineBalance |-> 0, drawn |-> 0,
                principalAmountRepaid |-> 0, failed |-> FALSE]

SubgraphNext ==
    \/ \E amount \in DepositAmounts :
          \/ \E user \in Backers : DepositBy(user, "junior", amount)
          \/ DepositBy(SeniorFund, "senior", amount)
    \/ \E id \in DOMAIN tokens :
          \/ \E amount \in DepositAmounts \cup {Redeemable(id)} : WithdrawFrom(id, amount)
          \/ \E to \in Backers : TransferToken(id, to)
          \/ BurnToken(id)
    \/ /\ \/ \E amount \in DrawAmounts : DrawAndEmit(amount)
          \/ PoolAssess /\ ApplyAndEmit(usdc)
          \/ \E amount \in Amounts : PoolPay(amount) /\ ApplyAndEmit(usdc + amount)
          \/ PoolEvent
          \/ Unheard
       /\ UNCHANGED owner
    \/ NextTimestamp
    \/ IndexBlock

SubgraphSpec == SubgraphInit /\ [][SubgraphNext]_<<clVars, poolVars, subgraphVars>>
=============================================================================
