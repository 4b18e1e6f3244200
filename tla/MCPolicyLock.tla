---------------------------- MODULE MCPolicyLock -----------------------------
EXTENDS PolicyLock, TLC

CONSTANTS w1, w2, alice, bob, carol, blank_alice, ka1, ka2, kb, a1, a2, owner, other

LockSymmetry == Permutations(Wallets) \cup Permutations(Approvals)

MCKeysOf == alice :> {ka1, ka2} @@ bob :> {kb} @@ carol :> {}
MCEvm == <<>>
MCTrimmed == blank_alice :> alice
Entry(id, pubkey) == [id |-> id, pubkey |-> pubkey]
Approval(threshold, approvers) ==
  [threshold |-> threshold, approvers |-> approvers, locked |-> TRUE, excluded_types |-> {}]
Raw(chains) == "raw_sign" :> Capability(TRUE, FALSE, chains, FALSE)

\* A policy is told apart by its lock, its quorum and what it opens.
Policy(capabilities, approval) ==
  [frozen |-> FALSE, rules |-> NoRules, capabilities |-> capabilities, approval |-> approval]
Open == Policy(Raw({"near", "solana"}), Absent)
Pair == Policy(<<>>, Approval(Unreadable, {Entry(alice, Absent), Entry(alice, ka1), Entry(bob, Absent)}))
Single == Policy(Raw(Absent), Approval(1, {Entry(carol, Absent), Entry(Absent, Absent)}))
\* Refused at the doors: nobody, too few, a repeated entry, near listed however spelled.
Refused == {
  Policy(<<>>, Approval(Absent, {Entry(alice, Absent)})),
  Policy(<<>>, Approval(0, {Entry(alice, Absent)})),
  Policy(<<>>, Approval(1, Absent)),
  Policy(<<>>, Approval(2, {Entry(alice, ka1), Entry(alice, ka2), Entry(Absent, Absent)})),
  Policy(Raw({"NEAR"}), Approval(1, {Entry(alice, Absent)})),
  Policy(Raw({" near"}), Approval(1, {Entry(alice, Absent)})) }
MCDocuments == {Open, Pair, Single} \cup Refused

Blank == Policy(<<>>, Approval(2, {Entry(blank_alice, Absent), Entry(bob, Absent)}))
MCBlankDocuments == {Open, Blank}
=============================================================================
