------------------------------ MODULE AppState ------------------------------
(* The chain data of the web client: the block it knows about, the loads that *)
(* each change of it sets off, in a cascade of effects, and the data of the   *)
(* rewards page, which is the leaf of the cascade that needs the most. What   *)
(* was loaded is told apart by the block it is labelled with.                 *)
(*                                                                            *)
(* A load that fails is never tried again: it is one that is never answered.  *)
EXTENDS Naturals, Bags, BagsExt

CONSTANT MaxBlock          \* bound: the last block of the chain

ASSUME AppStateAssumption == MaxBlock \in Nat \ {0}

VARIABLES
    head,       \* the last block of the chain
    requests,   \* getBlock("latest") requests: a bag of the heads they were sent at
    app,        \* the state of the App and Rewards components
    loads       \* loads under way: a bag of records [kind, block]

appVars == <<head, requests, app, loads>>

Kinds == {"rewards", "pool", "merkle", "user", "backer"}
Load(kind, block) == [kind |-> kind, block |-> block]
Started(kinds, block) == SetToBag({Load(kind, block) : kind \in kinds})

NoApp == [root |-> 0, rewards |-> 0, adopted |-> FALSE, consistent |-> 0,
          user |-> 0, merkle |-> 0, backer |-> 0, page |-> FALSE,
          leaf |-> 0, leafBlock |-> 0]

\* setupUserWalletWeb3 is done: the block is known and the first load started.
AppInit ==
    /\ head = 1
    /\ requests = EmptyBag
    /\ app = [NoApp EXCEPT !.root = 1]
    /\ loads = Started({"rewards"}, 1)

-----------------------------------------------------------------------------
(* The effects that follow a change of state                               *)

\* Slip of FromRoot: every item is loaded.
AllLoaded(a, blocks) == 0 \notin blocks

\* useFromSameBlock: every item is from the current block.
FromRoot(a, blocks) == blocks = {a.root}

\* Slip of Raised: the last block that was shown, whichever it is.
Replaced(existing, new) == new

\* setLeafCurrentBlock
Raised(existing, new) == IF existing < new THEN new ELSE existing

\* The rewards page shows its items once all of them are from the same block.
Shown(a) ==
    IF FromRoot(a, {a.consistent, a.user, a.merkle, a.backer})
    THEN [a EXCEPT !.leaf = a.consistent, !.leafBlock = Raised(@, a.root)]
    ELSE a

\* The state is a, and the effects whose dependencies changed have run: the
\* rewards contracts are handed on if they are from the current block, and what
\* depends on them is loaded; the page, if something it reads has changed, reads
\* the user and the contracts and loads the user's backer rewards.
Commit(a, pageReads, underWay) ==
    LET adopts == ~a.adopted /\ FromRoot(a, {a.rewards})
        b == IF adopts THEN [a EXCEPT !.adopted = TRUE, !.consistent = a.rewards] ELSE a
        reads == (pageReads \/ adopts) /\ FromRoot(b, {b.user, b.consistent})
    IN /\ app' = Shown([b EXCEPT !.page = @ \/ reads])
       /\ loads' = underWay (+) (IF adopts THEN Started({"pool", "merkle"}, b.root) ELSE EmptyBag)
                            (+) (IF reads THEN Started({"backer"}, b.root) ELSE EmptyBag)

-----------------------------------------------------------------------------
(* The current block                                                       *)

\* Slip of RefreshCurrentBlock: the answer may be one that was cached.
RefreshFromCache(n) ==
    requests' = IF n = 0 THEN requests
                ELSE requests (+) [b \in {app.root} |-> n]

\* refreshCurrentBlock asks for the latest block, n times.
RefreshCurrentBlock(n) ==
    requests' = IF n = 0 THEN requests
                ELSE requests (+) [b \in {head} |-> n]

\* Slip of LoadsOfBlock: nothing is loaded while a load is under way.
LoadsUnlessLoading(n) ==
    (IF \E l \in BagToSet(loads) : l.kind = "rewards" THEN EmptyBag
     ELSE Started({"rewards"}, n))
    (+) (IF app.page THEN Started({"backer"}, n) ELSE EmptyBag)

\* The effects on currentBlock, a new object even when its number is the same.
LoadsOfBlock(n) ==
    Started({"rewards"}, n) (+) (IF app.page THEN Started({"backer"}, n) ELSE EmptyBag)

\* The answer to a request that was sent at block `from` is any later head, and
\* answers come in any order; the last to come is the current block.
SetCurrentBlock(from) ==
    /\ BagIn(from, requests)
    /\ requests' = BagRemove(requests, from)
    /\ \E n \in from..head :
          Commit([app EXCEPT !.root = n], n # app.root, loads (+) LoadsOfBlock(n))
    /\ UNCHANGED head

-----------------------------------------------------------------------------
(* The loads                                                               *)

\* refreshGfiAndRewards ends: the contracts' data is replaced, all at once.
SetRewards(l, underWay) ==
    Commit([app EXCEPT !.rewards = l.block, !.adopted = FALSE], FALSE, underWay)

\* refreshPool ends, and the user is loaded at what is the current block now.
SetPool(l, underWay) == Commit(app, FALSE, underWay (+) Started({"user"}, app.root))

\* refreshUserMerkleAndCommunityRewardsInfo ends.
SetMerkle(l, underWay) == Commit([app EXCEPT !.merkle = l.block], FALSE, underWay)

\* refreshUserData ends.
SetUser(l, underWay) == Commit([app EXCEPT !.user = l.block], TRUE, underWay)

\* refreshUserBackerRewards ends.
SetBacker(l, underWay) == Commit([app EXCEPT !.backer = l.block], FALSE, underWay)

\* Loads end in any order.
LoadEnds(l) ==
    /\ BagIn(l, loads)
    /\ LET underWay == BagRemove(loads, l) IN
       \/ l.kind = "rewards" /\ SetRewards(l, underWay)
       \/ l.kind = "pool" /\ SetPool(l, underWay)
       \/ l.kind = "merkle" /\ SetMerkle(l, underWay)
       \/ l.kind = "user" /\ SetUser(l, underWay)
       \/ l.kind = "backer" /\ SetBacker(l, underWay)
    /\ UNCHANGED <<head, requests>>

AppNext ==
    \/ \E from \in BagToSet(requests) : SetCurrentBlock(from)
    \/ \E l \in BagToSet(loads) : LoadEnds(l)

\* getIsRefreshing: the indicator turns, and the page's buttons are disabled.
IsRefreshing == app.leafBlock # 0 /\ app.root > app.leafBlock
=============================================================================
