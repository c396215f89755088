---------------------------- MODULE ClientProofs ----------------------------
(* Proofs that the web client keeps its promises, for any number of           *)
(* transactions, of confirmations asked for and of blocks.                    *)
EXTENDS ClientProperties, TLAPS

-----------------------------------------------------------------------------
(* Bags: which elements they have                                          *)

LEMMA NothingInEmptyBag == DOMAIN EmptyBag = {}
BY DEF EmptyBag, SetToBag

LEMMA InSetToBag == ASSUME NEW S PROVE DOMAIN SetToBag(S) = S
BY DEF SetToBag

LEMMA InBagSum == ASSUME NEW A, NEW B PROVE DOMAIN (A (+) B) = DOMAIN A \cup DOMAIN B
BY DEF (+)

LEMMA InBagRemove == ASSUME NEW B, NEW e PROVE DOMAIN BagRemove(B, e) \subseteq DOMAIN B
BY DEF BagRemove

-----------------------------------------------------------------------------
(* The types of the page's data                                            *)

AppType ==
    [root : Nat, rewards : Nat, adopted : BOOLEAN, consistent : Nat,
     user : Nat, merkle : Nat, backer : Nat, page : BOOLEAN,
     leaf : Nat, leafBlock : Nat]

LoadType == [kind : Kinds, block : Nat]

\* Requests, loads and what they leave behind are labelled with blocks.
AppTyped ==
    /\ head \in Nat
    /\ DOMAIN requests \subseteq Nat
    /\ app \in AppType
    /\ DOMAIN loads \subseteq LoadType

LEMMA StartedTyped ==
    ASSUME NEW kinds \in SUBSET Kinds, NEW block \in Nat
    PROVE  DOMAIN Started(kinds, block) \subseteq LoadType
<1>1. DOMAIN Started(kinds, block) = {Load(kind, block) : kind \in kinds}
  BY InSetToBag DEF Started
<1> QED
  BY <1>1 DEF Load, LoadType

LEMMA ShownTyped == ASSUME NEW a \in AppType PROVE Shown(a) \in AppType
BY DEF Shown, Raised, AppType

\* What a change of state sets off keeps the types.
LEMMA CommitTyped ==
    ASSUME NEW a \in AppType, NEW pageReads \in BOOLEAN, NEW underWay,
           DOMAIN underWay \subseteq LoadType,
           Commit(a, pageReads, underWay)
    PROVE  app' \in AppType /\ DOMAIN loads' \subseteq LoadType
<1> DEFINE adopts == ~a.adopted /\ FromRoot(a, {a.rewards})
           b == IF adopts THEN [a EXCEPT !.adopted = TRUE, !.consistent = a.rewards] ELSE a
           reads == (pageReads \/ adopts) /\ FromRoot(b, {b.user, b.consistent})
           more == IF adopts THEN Started({"pool", "merkle"}, b.root) ELSE EmptyBag
           backer == IF reads THEN Started({"backer"}, b.root) ELSE EmptyBag
<1>1. b \in AppType
  BY DEF AppType
<1>2. [b EXCEPT !.page = @ \/ reads] \in AppType
  BY <1>1 DEF AppType
<1>3. app' = Shown([b EXCEPT !.page = @ \/ reads]) /\ loads' = underWay (+) more (+) backer
  BY DEF Commit
<1>4. b.root \in Nat
  BY <1>1 DEF AppType
<1>5. DOMAIN more \subseteq LoadType
  BY <1>4, StartedTyped, NothingInEmptyBag DEF Kinds
<1>6. DOMAIN backer \subseteq LoadType
  BY <1>4, StartedTyped, NothingInEmptyBag DEF Kinds
<1> HIDE DEF adopts, b, reads, more, backer
<1>7. DOMAIN loads' = DOMAIN underWay \cup DOMAIN more \cup DOMAIN backer
  BY <1>3, InBagSum
<1> QED
  BY <1>2, <1>3, <1>5, <1>6, <1>7, ShownTyped

LEMMA RefreshTyped ==
    ASSUME AppTyped, NEW n, RefreshCurrentBlock(n)
    PROVE  DOMAIN requests' \subseteq Nat
<1> DEFINE asked == [b \in {head} |-> n]
<1>1. DOMAIN asked = {head}
  OBVIOUS
<1>2. requests' = requests \/ requests' = requests (+) asked
  BY DEF RefreshCurrentBlock
<1> HIDE DEF asked
<1>3. DOMAIN requests' \subseteq DOMAIN requests \cup {head}
  BY <1>1, <1>2, InBagSum
<1> QED
  BY <1>3 DEF AppTyped

LEMMA SetCurrentBlockTyped ==
    ASSUME AppTyped, NEW from \in BagToSet(requests), SetCurrentBlock(from)
    PROVE  AppTyped'
<1>1. PICK n \in from..head :
        Commit([app EXCEPT !.root = n], n # app.root, loads (+) LoadsOfBlock(n))
  BY DEF SetCurrentBlock
<1>2. n \in Nat
  BY <1>1 DEF AppTyped, BagToSet
<1>3. DOMAIN LoadsOfBlock(n) \subseteq LoadType
  BY <1>2, StartedTyped, InBagSum, NothingInEmptyBag DEF LoadsOfBlock, Kinds
<1>4. [app EXCEPT !.root = n] \in AppType
  BY <1>2 DEF AppTyped, AppType
<1>5. DOMAIN (loads (+) LoadsOfBlock(n)) \subseteq LoadType
  BY <1>3, InBagSum DEF AppTyped
<1>6. app' \in AppType /\ DOMAIN loads' \subseteq LoadType
  BY <1>1, <1>4, <1>5, CommitTyped
<1>7. head' = head /\ DOMAIN requests' \subseteq Nat
  BY InBagRemove DEF SetCurrentBlock, AppTyped
<1> QED
  BY <1>6, <1>7 DEF AppTyped

LEMMA LoadEndsTyped ==
    ASSUME AppTyped, NEW l \in BagToSet(loads), LoadEnds(l)
    PROVE  AppTyped'
<1> DEFINE underWay == BagRemove(loads, l)
<1>1. l \in LoadType /\ DOMAIN underWay \subseteq LoadType
  BY InBagRemove DEF AppTyped, BagToSet
<1>2. DOMAIN (underWay (+) Started({"user"}, app.root)) \subseteq LoadType
  BY <1>1, StartedTyped, InBagSum DEF AppTyped, AppType, Kinds
<1> HIDE DEF underWay
<1>3. \/ Commit([app EXCEPT !.rewards = l.block, !.adopted = FALSE], FALSE, underWay)
      \/ Commit(app, FALSE, underWay (+) Started({"user"}, app.root))
      \/ Commit([app EXCEPT !.merkle = l.block], FALSE, underWay)
      \/ Commit([app EXCEPT !.user = l.block], TRUE, underWay)
      \/ Commit([app EXCEPT !.backer = l.block], FALSE, underWay)
  BY DEF LoadEnds, SetRewards, SetPool, SetMerkle, SetUser, SetBacker, underWay
<1>4. /\ app \in AppType
      /\ [app EXCEPT !.rewards = l.block, !.adopted = FALSE] \in AppType
      /\ [app EXCEPT !.merkle = l.block] \in AppType
      /\ [app EXCEPT !.user = l.block] \in AppType
      /\ [app EXCEPT !.backer = l.block] \in AppType
  BY <1>1 DEF AppTyped, AppType, LoadType
<1>5. app' \in AppType /\ DOMAIN loads' \subseteq LoadType
  BY <1>1, <1>2, <1>3, <1>4, CommitTyped
<1> QED
  BY <1>5 DEF AppTyped, LoadEnds

LEMMA AppTypedInit == AppInit => AppTyped
<1> SUFFICES ASSUME AppInit PROVE AppTyped
  OBVIOUS
<1>1. DOMAIN loads \subseteq LoadType
  BY StartedTyped DEF AppInit, Kinds
<1> QED
  BY <1>1, NothingInEmptyBag DEF AppInit, AppTyped, AppType, NoApp

LEMMA AppTypedStep == AppTyped /\ [ClientNext]_clientVars => AppTyped'
<1> SUFFICES ASSUME AppTyped, [ClientNext]_clientVars PROVE AppTyped'
  OBVIOUS
<1>1. CASE AppNext
  BY <1>1, SetCurrentBlockTyped, LoadEndsTyped DEF AppNext
<1>2. CASE Mine
  BY <1>2 DEF Mine, AppTyped
<1>3. ASSUME NEW t \in Txs, TxEvents(t) PROVE AppTyped'
  <2>1. CASE ActionComplete(t)
    <3>1. DOMAIN requests' \subseteq Nat
      BY <2>1, RefreshTyped DEF ActionComplete, AppTyped
    <3> QED
      BY <2>1, <3>1 DEF ActionComplete, AppTyped
  <2>2. CASE UNCHANGED appVars
    BY <2>2 DEF appVars, AppTyped
  <2> QED
    BY <1>3, <2>1, <2>2
    DEF TxEvents, Send, TransactionHash, TxConfirmed, TxFailed, TxError
<1>4. ASSUME NEW n \in 1..head, NewBlockHeader(n) PROVE AppTyped'
  <2>1. DOMAIN requests' \subseteq Nat
    BY <1>4, RefreshTyped DEF NewBlockHeader
  <2> QED
    BY <1>4, <2>1 DEF NewBlockHeader, AppTyped
<1>5. CASE UNCHANGED clientVars
  BY <1>5 DEF clientVars, appVars, AppTyped
<1> QED
  BY <1>1, <1>2, <1>3, <1>4, <1>5 DEF ClientNext

LEMMA AppTypedInvariant == ClientSpec => []AppTyped
<1>1. ClientInit => AppTyped
  BY AppTypedInit DEF ClientInit
<1> QED
  BY <1>1, AppTypedStep, PTL DEF ClientSpec

-----------------------------------------------------------------------------
(* The data that is shown                                                  *)

\* A page that is shown anew is shown from the current block.
LEMMA LeafFromRoot ==
    ASSUME NEW a \in AppType, NEW pageReads, NEW underWay, Commit(a, pageReads, underWay)
    PROVE  app'.leaf = a.leaf \/ app'.leaf = app'.root
<1> DEFINE adopts == ~a.adopted /\ FromRoot(a, {a.rewards})
           b == IF adopts THEN [a EXCEPT !.adopted = TRUE, !.consistent = a.rewards] ELSE a
           reads == (pageReads \/ adopts) /\ FromRoot(b, {b.user, b.consistent})
           c == [b EXCEPT !.page = @ \/ reads]
<1>1. b.leaf = a.leaf /\ DOMAIN b = DOMAIN a
  BY DEF AppType
<1>2. c.leaf = a.leaf /\ DOMAIN c = DOMAIN a /\ app' = Shown(c)
  BY <1>1 DEF Commit, AppType
<1> HIDE DEF c
<1>3. CASE FromRoot(c, {c.consistent, c.user, c.merkle, c.backer})
  <2>1. app' = [c EXCEPT !.leaf = c.consistent, !.leafBlock = Raised(@, c.root)]
    BY <1>2, <1>3 DEF Shown
  <2>2. app'.leaf = c.consistent /\ app'.root = c.root
    BY <1>2, <2>1 DEF AppType
  <2>3. c.consistent = c.root
    BY <1>3 DEF FromRoot
  <2> QED
    BY <2>2, <2>3
<1>4. CASE ~FromRoot(c, {c.consistent, c.user, c.merkle, c.backer})
  BY <1>2, <1>4 DEF Shown
<1> QED
  BY <1>3, <1>4

\* Loads end in any order, requests are answered in any order and with any later
\* head: the page shows older data only when the current block itself was set back.
THEOREM StaleLoadNotShownCorrect == ClientSpec => StaleLoadNotShown
<1>1. AppTyped /\ [ClientNext]_clientVars
        => [app'.leaf < app.leaf => app'.root < app.leaf]_clientVars
  <2> SUFFICES ASSUME AppTyped, ClientNext, app'.leaf # app.leaf
               PROVE  app'.leaf = app'.root
    BY DEF clientVars, appVars, AppTyped, AppType
  <2>1. ASSUME NEW from \in BagToSet(requests), SetCurrentBlock(from)
        PROVE  app'.leaf = app'.root
    <3>1. PICK n \in from..head :
            Commit([app EXCEPT !.root = n], n # app.root, loads (+) LoadsOfBlock(n))
      BY <2>1 DEF SetCurrentBlock
    <3>2. n \in Nat
      BY <2>1 DEF AppTyped, BagToSet
    <3>3. [app EXCEPT !.root = n] \in AppType /\ [app EXCEPT !.root = n].leaf = app.leaf
      BY <3>2 DEF AppTyped, AppType
    <3> QED
      BY <3>1, <3>3, LeafFromRoot
  <2>2. ASSUME NEW l \in BagToSet(loads), LoadEnds(l)
        PROVE  app'.leaf = app'.root
    <3> DEFINE Ended(a) == a \in AppType /\ a.leaf = app.leaf
    <3>1. l \in LoadType
      BY <2>2 DEF AppTyped, BagToSet
    <3>2. /\ Ended(app)
          /\ Ended([app EXCEPT !.rewards = l.block, !.adopted = FALSE])
          /\ Ended([app EXCEPT !.merkle = l.block])
          /\ Ended([app EXCEPT !.user = l.block])
          /\ Ended([app EXCEPT !.backer = l.block])
      BY <3>1 DEF AppTyped, AppType, LoadType
    <3>3. PICK a, pageReads, underWay : Ended(a) /\ Commit(a, pageReads, underWay)
      <4> HIDE DEF Ended
      <4> QED
        BY <2>2, <3>2 DEF LoadEnds, SetRewards, SetPool, SetMerkle, SetUser, SetBacker
    <3> QED
      BY <3>3, LeafFromRoot
  <2>3. CASE UNCHANGED app
    BY <2>3
  <2> QED
    BY <2>1, <2>2, <2>3
    DEF ClientNext, AppNext, Mine, TxEvents, Send, TransactionHash, TxConfirmed, TxFailed,
        TxError, ActionComplete, NewBlockHeader, appVars
<1> QED
  BY <1>1, AppTypedInvariant, PTL DEF ClientSpec, StaleLoadNotShown

-----------------------------------------------------------------------------
(* The status of transactions                                              *)

\* On the main network a transaction has a block number once Notify has told of the
\* block that holds it, and never loses it.
TxKnown(t) ==
    /\ currentTxs[t].status \in {"none", "pending", "successful", "error"}
    /\ currentTxs[t].blockNumber \in Nat
    /\ mined[t].block \in 0..head
    /\ mined[t].ok => mined[t].block # 0
    /\ currentTxs[t].status = "none" => ~currentTxs[t].hash
    /\ currentTxs[t].blockNumber # 0 => currentTxs[t].hash
    /\ currentTxs[t].status = "successful" => currentTxs[t].blockNumber # 0
    /\ currentTxs[t].blockNumber # 0 /\ ~isLocalNetwork =>
          mined[t].ok /\ currentTxs[t].blockNumber = mined[t].block

TxsKnown ==
    /\ currentBlockNumber \in Nat
    /\ DOMAIN currentTxs = Txs /\ DOMAIN mined = Txs
    /\ \A t \in Txs : DOMAIN currentTxs[t] = DOMAIN NoTx /\ TxKnown(t)

TxInv == AppTyped /\ TxsKnown

\* An event of one transaction leaves the others as they are.
LEMMA UpdatedKnown ==
    ASSUME TxInv, NEW t \in Txs, NEW tx, UpdateTX(t, tx),
           UNCHANGED <<head, isLocalNetwork, currentBlockNumber, mined>>,
           DOMAIN tx = DOMAIN NoTx,
           TxKnown(t)'
    PROVE  TxsKnown'
<1>1. /\ DOMAIN currentTxs' = Txs
      /\ \A u \in Txs \ {t} : currentTxs'[u] = currentTxs[u]
      /\ currentTxs'[t] = tx
  BY DEF UpdateTX, TxInv, TxsKnown
<1>2. ASSUME NEW u \in Txs \ {t} PROVE TxKnown(u)' /\ DOMAIN currentTxs'[u] = DOMAIN NoTx
  BY <1>1 DEF TxInv, TxsKnown, TxKnown
<1> QED
  BY <1>1, <1>2 DEF TxInv, TxsKnown

\* What an event of t may do to its status.
Earned(t) ==
    LET old == currentTxs[t].status  new == currentTxs'[t].status IN
    new # old =>
       /\ old \in {"none", "pending"}
       /\ new = "successful" /\ ~isLocalNetwork =>
             mined[t].ok /\ head + 1 >= mined[t].block + CONFIRMATION_THRESHOLD

AllEarned == \A t \in Txs : Earned(t)

LEMMA OnlyOneEarned ==
    ASSUME TxInv, NEW t \in Txs, NEW tx, UpdateTX(t, tx), Earned(t)
    PROVE  AllEarned
BY DEF UpdateTX, TxInv, TxsKnown, AllEarned, Earned

\* Blocks hold transactions of the future only as yet unmined.
LEMMA MineKnown == ASSUME TxInv, Mine PROVE TxsKnown' /\ AllEarned
<1>0. PICK in \in SUBSET {t \in Txs : MayBeMined(t)} : \E ok \in SUBSET in :
        mined' = [t \in Txs |-> IF t \in in THEN [block |-> head', ok |-> t \in ok] ELSE mined[t]]
  BY DEF Mine
<1>1. PICK ok \in SUBSET in :
        mined' = [t \in Txs |-> IF t \in in THEN [block |-> head', ok |-> t \in ok] ELSE mined[t]]
  BY <1>0
<1>2. /\ head \in Nat /\ head' = head + 1
      /\ UNCHANGED <<isLocalNetwork, currentBlockNumber, currentTxs>>
  BY DEF Mine, TxInv, AppTyped
<1>3. ASSUME NEW t \in Txs PROVE TxKnown(t)'
  <2>1. CASE t \in in
    <3>1. mined'[t].block = head' /\ mined[t].block = 0 /\ ~mined[t].ok
      BY <1>1, <2>1 DEF MayBeMined, TxInv, TxsKnown, TxKnown
    <3>2. currentTxs[t].blockNumber = 0 \/ isLocalNetwork
      BY <3>1 DEF TxInv, TxsKnown, TxKnown
    <3> QED
      BY <1>2, <3>1, <3>2 DEF TxInv, TxsKnown, TxKnown
  <2>2. CASE t \notin in
    <3>1. mined'[t] = mined[t]
      BY <1>1, <2>2
    <3> QED
      BY <1>2, <3>1 DEF TxInv, TxsKnown, TxKnown
  <2> QED
    BY <2>1, <2>2
<1> QED
  BY <1>1, <1>2, <1>3 DEF TxInv, TxsKnown, AllEarned, Earned

LEMMA EventKnown ==
    ASSUME TxInv, NEW t \in Txs, TxEvents(t)
    PROVE  TxsKnown' /\ AllEarned
<1>1. TxKnown(t) /\ DOMAIN currentTxs[t] = DOMAIN NoTx /\ currentBlockNumber \in Nat
  BY DEF TxInv, TxsKnown
<1>2. CASE Send(t)
  <2> DEFINE tx == [NoTx EXCEPT !.status = "pending"]
  <2>1. tx.status = "pending" /\ ~tx.hash /\ tx.blockNumber = 0 /\ DOMAIN tx = DOMAIN NoTx
    BY DEF NoTx
  <2>2. UpdateTX(t, tx) /\ UNCHANGED <<head, isLocalNetwork, currentBlockNumber, mined>>
    BY <1>2 DEF Send, appVars
  <2> HIDE DEF tx
  <2>3. currentTxs'[t] = tx
    BY <2>2 DEF UpdateTX, TxInv, TxsKnown
  <2>4. TxKnown(t)'
    BY <1>1, <2>1, <2>2, <2>3 DEF TxKnown
  <2>5. Earned(t)
    BY <1>2, <2>1, <2>3 DEF Send, Earned
  <2> QED
    BY <2>1, <2>2, <2>4, <2>5, UpdatedKnown, OnlyOneEarned
<1>3. CASE TransactionHash(t)
  <2> DEFINE tx == [currentTxs[t] EXCEPT !.hash = TRUE,
                      !.blockNumber = IF isLocalNetwork THEN BlockToWatch ELSE @]
  <2>1. /\ tx.status = "pending" /\ tx.hash /\ DOMAIN tx = DOMAIN NoTx
        /\ tx.blockNumber = IF isLocalNetwork THEN BlockToWatch ELSE currentTxs[t].blockNumber
    BY <1>1, <1>3 DEF TransactionHash, NoTx
  <2>2. UpdateTX(t, tx) /\ UNCHANGED <<head, isLocalNetwork, currentBlockNumber, mined>>
    BY <1>3 DEF TransactionHash, appVars
  <2> HIDE DEF tx
  <2>3. currentTxs'[t] = tx
    BY <2>2 DEF UpdateTX, TxInv, TxsKnown
  <2>4. TxKnown(t)'
    BY <1>1, <2>1, <2>2, <2>3 DEF TxKnown, BlockToWatch
  <2>5. Earned(t)
    BY <1>3, <2>1, <2>3 DEF TransactionHash, Earned
  <2> QED
    BY <2>1, <2>2, <2>4, <2>5, UpdatedKnown, OnlyOneEarned
<1>4. CASE TxConfirmed(t)
  <2> DEFINE tx == [currentTxs[t] EXCEPT !.blockNumber = mined[t].block]
  <2>1. /\ tx.status = currentTxs[t].status /\ (tx.hash <=> currentTxs[t].hash)
        /\ tx.blockNumber = mined[t].block /\ DOMAIN tx = DOMAIN NoTx
    BY <1>1 DEF NoTx
  <2>2. UpdateTX(t, tx) /\ UNCHANGED <<head, isLocalNetwork, currentBlockNumber, mined>>
    BY <1>4 DEF TxConfirmed, appVars
  <2> HIDE DEF tx
  <2>3. currentTxs'[t] = tx
    BY <2>2 DEF UpdateTX, TxInv, TxsKnown
  <2>4. TxKnown(t)'
    BY <1>1, <1>4, <2>1, <2>2, <2>3 DEF TxKnown, TxConfirmed, TxInv, AppTyped
  <2>5. Earned(t)
    BY <2>1, <2>3 DEF Earned
  <2> QED
    BY <2>1, <2>2, <2>4, <2>5, UpdatedKnown, OnlyOneEarned
<1>5. ASSUME UpdateTX(t, Errored(t)),
             UNCHANGED <<head, isLocalNetwork, currentBlockNumber, mined>>,
             currentTxs[t].status \in {"none", "pending", "error"},
             currentTxs[t].status # "none"
      PROVE  TxsKnown' /\ AllEarned
  <2> DEFINE tx == Errored(t)
  <2>1. /\ tx.status = "error" /\ (tx.hash <=> currentTxs[t].hash)
        /\ tx.blockNumber = currentTxs[t].blockNumber /\ DOMAIN tx = DOMAIN NoTx
    BY <1>1 DEF NoTx, Errored
  <2>2. UpdateTX(t, tx)
    BY <1>5
  <2> HIDE DEF tx
  <2>3. currentTxs'[t] = tx
    BY <2>2 DEF UpdateTX, TxInv, TxsKnown
  <2>4. TxKnown(t)'
    BY <1>1, <1>5, <2>1, <2>3 DEF TxKnown
  <2>5. Earned(t)
    BY <1>5, <2>1, <2>3 DEF Earned
  <2> QED
    BY <1>5, <2>1, <2>2, <2>4, <2>5, UpdatedKnown, OnlyOneEarned
<1>6. CASE TxFailed(t)
  BY <1>1, <1>5, <1>6 DEF TxFailed, Reverted, TxKnown, appVars
<1>7. CASE TxError(t)
  <2>1. CASE isLocalNetwork /\ currentTxs[t].hash
    BY <1>7, <2>1 DEF TxError, TxInv, TxsKnown, TxKnown, AllEarned, Earned, appVars
  <2>2. CASE ~(isLocalNetwork /\ currentTxs[t].hash)
    BY <1>1, <1>5, <1>7, <2>2 DEF TxError, Reverted, TxKnown, appVars
  <2> QED
    BY <2>1, <2>2
<1>8. CASE ActionComplete(t)
  BY <1>8 DEF ActionComplete, TxInv, TxsKnown, TxKnown, AllEarned, Earned
<1> QED
  BY <1>2, <1>3, <1>4, <1>6, <1>7, <1>8 DEF TxEvents

\* A header that confirms a transaction is of a block of the chain.
LEMMA HeaderKnown ==
    ASSUME TxInv, NEW n \in 1..head, NewBlockHeader(n)
    PROVE  TxsKnown' /\ AllEarned
<1>1. /\ n \in Nat /\ head \in Nat /\ n <= head /\ CONFIRMATION_THRESHOLD \in Nat \ {0, 1}
      /\ UNCHANGED <<head, isLocalNetwork, mined>> /\ currentBlockNumber' = n
      /\ currentTxs' = [t \in Txs |-> IF Followed(t) THEN Updated(t, n) ELSE currentTxs[t]]
  BY NetworkMonitorAssumption DEF NewBlockHeader, TxInv, AppTyped
<1>2. ASSUME NEW t \in Txs
      PROVE  TxKnown(t)' /\ Earned(t) /\ DOMAIN currentTxs'[t] = DOMAIN NoTx
  <2>1. CASE ~Followed(t)
    BY <1>1, <2>1 DEF TxInv, TxsKnown, TxKnown, Earned
  <2>2. CASE Followed(t)
    <3> DEFINE tx == Updated(t, n)
    <3>1. /\ DOMAIN tx = DOMAIN NoTx /\ (tx.hash <=> currentTxs[t].hash)
          /\ tx.blockNumber = currentTxs[t].blockNumber
          /\ tx.status = IF IsSuccessful(Confirmations(t, n)) THEN "successful" ELSE "pending"
      BY <2>2 DEF TxInv, TxsKnown, NoTx, Updated, Followed
    <3>2. currentTxs'[t] = tx
      BY <1>1, <2>2
    <3> HIDE DEF tx
    <3>3. TxKnown(t)'
      BY <1>1, <2>2, <3>1, <3>2 DEF TxInv, TxsKnown, TxKnown, Followed
    <3>4. Earned(t)
      <4> SUFFICES ASSUME tx.status = "successful", ~isLocalNetwork
                   PROVE  mined[t].ok /\ head + 1 >= mined[t].block + CONFIRMATION_THRESHOLD
        BY <2>2, <3>1, <3>2 DEF Earned, Followed
      <4>1. n - currentTxs[t].blockNumber + 1 >= CONFIRMATION_THRESHOLD
        BY <3>1 DEF IsSuccessful, Confirmations
      <4>2. mined[t].ok /\ currentTxs[t].blockNumber = mined[t].block /\ mined[t].block \in Nat
        BY <1>1, <2>2 DEF Followed, TxInv, TxsKnown, TxKnown
      <4> QED
        BY <1>1, <4>1, <4>2
    <3> QED
      BY <3>1, <3>2, <3>3, <3>4
  <2> QED
    BY <2>1, <2>2
<1> QED
  BY <1>1, <1>2 DEF TxInv, TxsKnown, AllEarned

LEMMA TxStep == TxInv /\ [ClientNext]_clientVars => TxsKnown' /\ AllEarned
<1> SUFFICES ASSUME TxInv, [ClientNext]_clientVars PROVE TxsKnown' /\ AllEarned
  OBVIOUS
<1>1. CASE UNCHANGED <<head, txVars>>
  BY <1>1 DEF txVars, TxInv, TxsKnown, TxKnown, AllEarned, Earned
<1>2. CASE AppNext /\ UNCHANGED txVars
  BY <1>1, <1>2 DEF AppNext, SetCurrentBlock, LoadEnds
<1> QED
  BY <1>1, <1>2, MineKnown, EventKnown, HeaderKnown DEF ClientNext, clientVars, appVars

\* Whichever events come late, twice or never: a transaction is shown as successful
\* only when the chain holds it with the confirmations asked for, and what is shown
\* as successful or failed stays so.
THEOREM StatusIsEarnedCorrect == ClientSpec => StatusIsEarned
<1>1. ClientInit => TxsKnown
  <2> SUFFICES ASSUME ClientInit PROVE TxsKnown
    OBVIOUS
  <2>1. ASSUME NEW t \in Txs PROVE TxKnown(t) /\ DOMAIN currentTxs[t] = DOMAIN NoTx
    <3>1. currentTxs[t] = NoTx /\ mined[t] = [block |-> 0, ok |-> FALSE] /\ head = 1
      BY DEF ClientInit, AppInit
    <3>2. NoTx.status = "none" /\ ~NoTx.hash /\ NoTx.blockNumber = 0
      BY DEF NoTx
    <3>3. mined[t].block = 0 /\ ~mined[t].ok
      BY <3>1
    <3> QED
      BY <3>1, <3>2, <3>3 DEF TxKnown
  <2> QED
    BY <2>1 DEF ClientInit, TxsKnown
<1>2. AllEarned => [\A t \in Txs : Earned(t)]_clientVars
  BY DEF AllEarned
<1>3. StatusIsEarned <=> [][\A t \in Txs : Earned(t)]_clientVars
  BY DEF StatusIsEarned, Earned
<1> QED
  BY <1>1, <1>2, <1>3, TxStep, AppTypedInvariant, PTL DEF ClientSpec, TxInv
=============================================================================
