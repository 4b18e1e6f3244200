----------------------------- MODULE MCTeeAuth ------------------------------
EXTENDS TeeAuth, TLC
CONSTANTS k1, k2

\* One key of a scheme the server opted into, one of a scheme it did not.
MCScheme == k1 :> "ed25519" @@ k2 :> "ml-dsa-65"
=============================================================================
