----------------------------- MODULE MCProving -------------------------------
EXTENDS Proving

CONSTANTS c1, c2, sha3, alice, bob

MCContracts == {c1, c2}
MCIdentities == {alice, bob}
\* c1 is a risc0 contract; c2 is registered with sp1, built without the feature.
MCVerifierOf == (c1 :> "risc0-1") @@ (c2 :> "sp1-4")
=============================================================================
