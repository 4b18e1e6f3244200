--------------------------- MODULE MCContractVote ---------------------------
EXTENDS ContractVote, TLC

W(r, a, b) == [runs |-> r, allowed |-> a, blob |-> b]

\* One wallet of each kind a vote can meet: each resolver authorizing the
\* message, with signatures on, off and garbled, a blob for another payload, a
\* delegated, a rejected, an oversized and an unreadable or empty answer, and no code.
MCWallets ==
  {W("eip712", "true", "expected"), W("eip712", "false", "expected"),
   W("eip712", "true", "bad"),      W("eip712", "true", "padded"),
   W("nep641", "true", "expected"), W("nep641", "other", "expected"),
   W("nep641", "true", "delegated"), W("nep641", "true", "bad"),
   W("nep641", "true", "other"),    W("eip712", "true", "garbled"),
   W("eip712", "true", "empty"),
   W("nep641", "true", "empty"),    W("none", "false", "bad")}

NodeSymmetry == Permutations(Nodes)
=============================================================================
