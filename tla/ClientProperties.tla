-------------------------- MODULE ClientProperties --------------------------
(* What the web client promises of its transactions and of the data it shows. *)
EXTENDS NetworkMonitor

\* What the user is told of a transaction is final and earned: only a pending one
\* becomes successful, and on the main network only when the chain holds it with
\* CONFIRMATION_THRESHOLD blocks; one that is shown as failed stays so, though it
\* may be mined later.
StatusIsEarned ==
    [][\A t \in Txs : LET old == currentTxs[t].status  new == currentTxs'[t].status IN
          new # old =>
             /\ old \in {"none", "pending"}
             /\ new = "successful" /\ ~isLocalNetwork =>
                   mined[t].ok /\ head + 1 >= mined[t].block + CONFIRMATION_THRESHOLD]_clientVars

\* The transaction's block is known, and the blocks that confirm it are still to
\* come before the bound.
IsFollowed(t) ==
    /\ Followed(t)
    /\ currentTxs[t].blockNumber + CONFIRMATION_THRESHOLD <= MaxBlock + 1
    /\ currentBlockNumber < MaxBlock

\* A transaction whose block is known does not stay pending, whichever headers are
\* lost.
FollowedIsSettled == \A t \in Txs : IsFollowed(t) ~> ~Followed(t)

\* When the header of its block confirms a transaction, the client comes to know of
\* a block that has it: "the user took some action to which we want to react".
ConfirmedIsRead ==
    \A t \in Txs :
       promises[t] = "confirmed" /\ ~isLocalNetwork ~> app.root >= mined[t].block

\* However late an older load ends, what the page shows is replaced by older data
\* only if the current block itself was set back.
StaleLoadNotShown ==
    [][app'.leaf < app.leaf => app'.root < app.leaf]_clientVars

\* The current block's data is handed on again and again, in whichever order the
\* loads of this block and of others end.
RootIsAdopted == []<>(app.consistent = app.root)

\* "Refreshing the application's understanding of the current block is meant to be
\* sufficient to trigger cascading refreshing of the data": again and again the page
\* is done refreshing.
CascadeReachesLeaf == []<>~IsRefreshing
=============================================================================
