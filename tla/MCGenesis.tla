----------------------------- MODULE MCGenesis ------------------------------
EXTENDS Genesis

CONSTANTS n1, n2, n3

\* Two genesis stakers and one node that is not a staker.
MCNodes == {n1, n2, n3}
MCStakers == {n1, n2}

\* The two stakers alone.
MCStakerNodes == {n1, n2}

\* Genesis stakes of different sizes, so a stake sent to the wrong
\* validator changes the ledger.
MCGenesisStake == (n1 :> 100) @@ (n2 :> 40)

\* Validator keys whose order differs from the name order of the peers.
MCPubKey == (n1 :> 2) @@ (n2 :> 1) @@ (n3 :> 3)

\* The order in which generate_genesis_txs walks the peers (by name).
MCNameOrder == <<n1, n2, n3>>
=============================================================================
