--------------------------- MODULE NetworkMonitor ---------------------------
(* The transactions of the web client: useSendFromUser sends them, and        *)
(* NetworkMonitor follows them by the events of the wallet, of Notify and of  *)
(* the subscription to block headers, which come late, in any order and not   *)
(* at all. A confirmed transaction refreshes the current block.               *)
EXTENDS AppState, Integers, FiniteSets

CONSTANTS
    Txs,                       \* the transactions the user may send
    CONFIRMATION_THRESHOLD     \* 6 in ethereum/utils.ts

ASSUME NetworkMonitorAssumption == CONFIRMATION_THRESHOLD \in Nat \ {0, 1}

VARIABLES
    isLocalNetwork,       \* chain 31337, on which Notify is not used
    mined,                \* of each transaction: [block, ok], block 0 if it is in none
    currentBlockNumber,   \* the last block header received
    currentTxs,           \* of each transaction: [status, hash, blockNumber, confirmations]
    promises              \* of each transaction: what sendTransaction returned

txVars == <<isLocalNetwork, mined, currentBlockNumber, currentTxs, promises>>
clientVars == <<appVars, txVars>>

NoTx == [status |-> "none", hash |-> FALSE, blockNumber |-> 0, confirmations |-> 0]

ClientInit ==
    /\ AppInit
    /\ isLocalNetwork \in BOOLEAN
    /\ mined = [t \in Txs |-> [block |-> 0, ok |-> FALSE]]
    /\ currentBlockNumber = 1
    /\ currentTxs = [t \in Txs |-> NoTx]
    /\ promises = [t \in Txs |-> "none"]

UpdateTX(t, tx) == currentTxs' = [currentTxs EXCEPT ![t] = tx]

-----------------------------------------------------------------------------
(* The chain                                                               *)

\* The wallet was not refused by its user.
MayBeMined(t) ==
    /\ currentTxs[t].status # "none"
    /\ mined[t].block = 0
    /\ ~(currentTxs[t].status = "error" /\ ~currentTxs[t].hash)

\* A block with some of the transactions, some of which revert.
Mine ==
    /\ head < MaxBlock
    /\ head' = head + 1
    /\ \E in \in SUBSET {t \in Txs : MayBeMined(t)} : \E ok \in SUBSET in :
          mined' = [t \in Txs |-> IF t \in in THEN [block |-> head', ok |-> t \in ok]
                                  ELSE mined[t]]
    /\ UNCHANGED <<requests, app, loads, isLocalNetwork, currentBlockNumber,
                   currentTxs, promises>>

-----------------------------------------------------------------------------
(* The events of a transaction                                             *)

\* send(), and its "sent" event: addPendingTX.
Send(t) ==
    /\ currentTxs[t].status = "none"
    /\ UpdateTX(t, [NoTx EXCEPT !.status = "pending"])
    /\ promises' = [promises EXCEPT ![t] = "open"]
    /\ UNCHANGED <<appVars, isLocalNetwork, mined, currentBlockNumber>>

\* On a local network the next block is expected to hold the transaction.
BlockToWatch == currentBlockNumber + 1

\* "transactionHash": watch.
TransactionHash(t) ==
    /\ currentTxs[t].status = "pending" /\ ~currentTxs[t].hash
    /\ UpdateTX(t, [currentTxs[t] EXCEPT !.hash = TRUE,
                      !.blockNumber = IF isLocalNetwork THEN BlockToWatch ELSE @])
    /\ UNCHANGED <<appVars, isLocalNetwork, mined, currentBlockNumber, promises>>

\* Notify's "txConfirmed".
TxConfirmed(t) ==
    /\ ~isLocalNetwork
    /\ currentTxs[t].hash
    /\ mined[t].ok
    /\ UpdateTX(t, [currentTxs[t] EXCEPT !.blockNumber = mined[t].block])
    /\ UNCHANGED <<appVars, isLocalNetwork, mined, currentBlockNumber, promises>>

Errored(t) == [currentTxs[t] EXCEPT !.status = "error"]
Reverted(t) == mined[t].block # 0 /\ ~mined[t].ok

\* Notify's "txFailed": markTXErrored.
TxFailed(t) ==
    /\ ~isLocalNetwork
    /\ currentTxs[t].hash
    /\ Reverted(t)
    /\ UpdateTX(t, Errored(t))
    /\ UNCHANGED <<appVars, isLocalNetwork, mined, currentBlockNumber, promises>>

\* "error": the user refuses, the transaction reverts, or web3 has waited 50
\* blocks for it. On a local network watch has returned nothing, and the error is
\* taken for one of a transaction that was not sent.
TxError(t) ==
    /\ currentTxs[t].status # "none"
    /\ mined[t].block = 0 \/ Reverted(t)
    /\ IF isLocalNetwork /\ currentTxs[t].hash
         THEN UNCHANGED currentTxs
         ELSE UpdateTX(t, Errored(t))
    /\ IF promises[t] = "open"
         THEN \E outcome \in {"resolved", "rejected"} :
                promises' = [promises EXCEPT ![t] = outcome]
         ELSE UNCHANGED promises
    /\ UNCHANGED <<appVars, isLocalNetwork, mined, currentBlockNumber>>

\* The form that sent the transaction refreshes the current block too, or it does
\* not, and is done.
ActionComplete(t) ==
    /\ promises[t] \in {"confirmed", "resolved"}
    /\ promises' = [promises EXCEPT ![t] = "done"]
    /\ RefreshCurrentBlock(1) \/ UNCHANGED requests
    /\ UNCHANGED <<head, app, loads, isLocalNetwork, mined, currentBlockNumber, currentTxs>>

-----------------------------------------------------------------------------
(* Block headers                                                           *)

\* Slip of Followed: whatever has a block number is followed.
FollowedWhateverStatus(t) == currentTxs[t].blockNumber # 0

\* updatePendingTxs looks at the transaction.
Followed(t) == currentTxs[t].status = "pending" /\ currentTxs[t].blockNumber # 0

\* Less than one before the header of its block.
Confirmations(t, n) == n - currentTxs[t].blockNumber + 1

\* Slip of IsSuccessful: one confirmation more.
IsAfterThreshold(confirmations) ==
    \/ confirmations > CONFIRMATION_THRESHOLD
    \/ isLocalNetwork /\ confirmations >= 1

IsSuccessful(confirmations) ==
    \/ confirmations >= CONFIRMATION_THRESHOLD
    \/ isLocalNetwork /\ confirmations >= 1

Updated(t, n) ==
    [currentTxs[t] EXCEPT !.confirmations = Confirmations(t, n),
        !.status = IF IsSuccessful(Confirmations(t, n)) THEN "successful" ELSE @]

\* onConfirm is called by the header of the transaction's own block only.
ConfirmedBy(n) == {t \in Txs : Followed(t) /\ Confirmations(t, n) = 1}

\* newBlockHeaderReceived. Headers of blocks that are not higher change nothing.
NewBlockHeader(n) ==
    /\ n > currentBlockNumber
    /\ currentBlockNumber' = n
    /\ currentTxs' = [t \in Txs |-> IF Followed(t) THEN Updated(t, n) ELSE currentTxs[t]]
    /\ promises' = [t \in Txs |-> IF t \in ConfirmedBy(n) /\ promises[t] = "open"
                                  THEN "confirmed" ELSE promises[t]]
    /\ RefreshCurrentBlock(Cardinality(ConfirmedBy(n)))
    /\ UNCHANGED <<head, app, loads, isLocalNetwork, mined>>

-----------------------------------------------------------------------------

TxEvents(t) ==
    \/ Send(t) \/ TransactionHash(t)
    \/ TxConfirmed(t) \/ TxFailed(t) \/ TxError(t)
    \/ ActionComplete(t)

ClientNext ==
    \/ AppNext /\ UNCHANGED txVars
    \/ Mine
    \/ \E t \in Txs : TxEvents(t)
    \/ \E n \in 1..head : NewBlockHeader(n)

ClientSpec == ClientInit /\ [][ClientNext]_clientVars

\* The chain goes on, headers come again and again, though any one may be lost,
\* and the nodes answer. The user and the wallet do not have to do anything.
ClientFairness ==
    /\ WF_head(head < MaxBlock /\ head' = head + 1)
    /\ WF_currentBlockNumber(\E n \in currentBlockNumber + 1 .. head : currentBlockNumber' = n)
    /\ WF_requests(\E from \in BagToSet(requests) : requests' = BagRemove(requests, from))
    /\ WF_appVars(\E l \in BagToSet(loads) : LoadEnds(l))

FairClient == ClientSpec /\ ClientFairness
=============================================================================
