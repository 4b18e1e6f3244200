----------------------------- MODULE PolicyLock ------------------------------
(***************************************************************************)
(* Locked policies: once a wallet's policy is locked, every later write of *)
(* it waits for the votes of its approvers (wallet_policy.rs:362-511,      *)
(* contract_vote.rs:36-118). The owner has a new policy encrypted and an   *)
(* approval opened for it, approvers vote, the keystore's sign-policy door *)
(* recomputes the operation from the blob and the chain and counts the     *)
(* votes, and the contract stores what the keystore signed. The operation, *)
(* the standing of a voter and the test of a lock are the library's; the   *)
(* doors and the contract are its callers', as its comments tell of them.  *)
(***************************************************************************)
EXTENDS PolicyEngine, FiniteSets

CONSTANTS
  Wallets,
  Documents,    \* the policies the owners may ask for
  First,        \* the policy every wallet starts with, not locked
  Callers,      \* the accounts that may send a policy to the contract
  Approvals,    \* the ids of approvals
  Accounts,     \* the accounts that may vote
  KeysOf,       \* the access keys of each account; none for a contract wallet
  Trimmed,      \* each spelling of an id with blanks around it, and the id
  MaxVotes, MaxSigned, MaxVersion   \* how much is voted, signed and stored

ASSUME LockAssumption ==
  /\ First \in Documents /\ ~Locked(First) /\ \A policy \in Documents : IsPolicy(policy)
  /\ IsFiniteSet(Accounts) /\ Accounts \cap DOMAIN Trimmed = {}
  /\ MaxVotes \in Nat /\ MaxSigned \in Nat /\ MaxVersion \in Nat

VARIABLES
  stored,       \* the policy the contract holds for each wallet
  version,      \* the version it holds it under
  opened,       \* the operation each open approval is for
  votes,        \* the votes cast: who, the proof, the message, and what the voter meant
  signed        \* the messages sign-policy has signed for the contract

vars == <<stored, version, opened, votes, signed>>

-----------------------------------------------------------------------------
(* The operation the approvers vote on, and their votes.                   *)

\* The digest stands for the whole document and nothing else.
policy_canonical_hash(policy) == [sha256 |-> policy]
request_hash(op) == [sha256 |-> op]

PolicyUpdate(wallet, policy, at_version, caller) ==
  [wallet_pubkey |-> wallet, policy_hash |-> policy_canonical_hash(policy), version |-> at_version,
   locked |-> Locked(policy), caller |-> caller]

\* Mutant: a rejection reads as the approval it refuses.
without_verb(verb, approval_id, wallet, hash) == <<approval_id, wallet, hash>>

vote_message(verb, approval_id, wallet, hash) == <<verb, approval_id, wallet, hash>>

trimmed(id) == IF id \in DOMAIN Trimmed THEN Trimmed[id] ELSE id

ApproversOf(policy) ==
  IF policy.approval = Absent \/ policy.approval.approvers = Absent THEN {} ELSE policy.approval.approvers

NotListed == [standing |-> "not listed"]
Unpinned == [standing |-> "unpinned"]
Pinned(keys) == [standing |-> "pinned", keys |-> keys]

\* Mutant: an entry without a pin lifts the pin of another.
loosest_standing(policy, id) ==
  LET entries == {a \in ApproversOf(policy) : a.id = id}
      pins == {a.pubkey : a \in entries}
  IN  IF entries = {} THEN NotListed ELSE IF Absent \in pins THEN Unpinned ELSE Pinned(pins)

\* What a policy says of an account, over every entry that names it.
approver_standing(policy, id) ==
  LET entries == {a \in ApproversOf(policy) : a.id = id}
      pins == {a.pubkey : a \in entries} \ {Absent}
  IN  IF entries = {} THEN NotListed ELSE IF pins = {} THEN Unpinned ELSE Pinned(pins)

admits_key(standing, key) ==
  standing = Unpinned \/ (standing.standing = "pinned" /\ key \in standing.keys)
admits_contract_vote(standing) == standing = Unpinned

Contract == [proof |-> "contract"]
Key(key) == [proof |-> "key", key |-> key]
ProofsOf(account) == IF KeysOf[account] = {} THEN {Contract} ELSE {Key(k) : k \in KeysOf[account]}

Admits(policy, voter, proof) ==
  IF proof = Contract THEN admits_contract_vote(approver_standing(policy, voter))
  ELSE admits_key(approver_standing(policy, voter), proof.key)

-----------------------------------------------------------------------------
(* The test of a lock.                                                     *)

raw_sign_names_near(chains) == chains # Absent /\ chains \cap TrimsToNear # {}

raw_signing_on_near_is_open(policy) ==
  LET cap == CapabilityOf(policy, "raw_sign", FALSE) IN cap.allowed /\ raw_sign_names_near(cap.chains)

\* Mutant: every entry is a voter of its own.
Entries(policy) == {a \in ApproversOf(policy) : a.id # Absent}

\* The distinct approvers with an id: a repeated entry is one voter.
NamedApprovers(policy) == {trimmed(a.id) : a \in {a \in ApproversOf(policy) : a.id # Absent}}

\* Mutant: any capability of raw signing that does not list near as written is
\* taken for closed.
as_written(policy) ==
  ~Locked(policy) \/
  /\ ~(raw_signing_on_near_is_open(policy) /\ "near" \in CapabilityOf(policy, "raw_sign", FALSE).chains)
  /\ policy.approval.threshold # Absent
  /\ required(policy.approval.threshold) \in 1..Cardinality(NamedApprovers(policy))

lock_is_satisfiable(policy) ==
  ~Locked(policy) \/
  /\ ~raw_signing_on_near_is_open(policy)
  /\ policy.approval.threshold # Absent
  /\ required(policy.approval.threshold) \in 1..Cardinality(NamedApprovers(policy))

-----------------------------------------------------------------------------
(* The doors (external, but for what they ask of the library).             *)

Init ==
  /\ stored = [w \in Wallets |-> First]
  /\ version = [w \in Wallets |-> 1]
  /\ opened = <<>> /\ votes = {} /\ signed = {}

\* The coordinator's encrypt-policy (444-445): a new policy for a locked wallet, put
\* to its approvers.
OpenApproval(id, w, policy, caller) ==
  /\ id \notin DOMAIN opened
  /\ Locked(stored[w]) /\ lock_is_satisfiable(policy)
  /\ opened' = [i \in DOMAIN opened \cup {id} |->
       IF i = id THEN PolicyUpdate(w, policy, version[w] + 1, caller) ELSE opened[i]]
  /\ UNCHANGED <<stored, version, votes, signed>>

\* Any account votes either way on an approval it was shown, with any proof it has.
CastVote(id, voter, proof, verb) ==
  /\ id \in DOMAIN opened /\ Cardinality(votes) < MaxVotes
  /\ votes' = votes \cup {[voter |-> voter, proof |-> proof,
       message |-> vote_message(verb, id, opened[id].wallet_pubkey, request_hash(opened[id])),
       meant |-> [verb |-> verb, op |-> opened[id]]]}
  /\ UNCHANGED <<stored, version, opened, signed>>

\* The accounts whose votes on an approval of the operation count under a policy.
VotersFor(policy, id, op) ==
  {v.voter : v \in {v \in votes :
     /\ v.message = vote_message("approve", id, op.wallet_pubkey, request_hash(op))
     /\ Admits(policy, v.voter, v.proof)}}

Carried(policy, id, op) ==
  policy.approval.threshold # Absent /\ Cardinality(VotersFor(policy, id, op)) >= required(policy.approval.threshold)

\* sign-policy: the operation is recomputed from the blob and the chain.
SignPolicy(w, policy, caller) ==
  /\ Cardinality(signed) < MaxSigned
  /\ lock_is_satisfiable(policy)
  /\ LET op == PolicyUpdate(w, policy, version[w] + 1, caller) IN
     Locked(stored[w]) => \E id \in Approvals : Carried(stored[w], id, op)
  /\ signed' = signed \cup {[wallet |-> w, policy |-> policy, version |-> version[w] + 1, caller |-> caller]}
  /\ UNCHANGED <<stored, version, opened, votes>>

\* Mutant: a message signed for an earlier version is stored.
any_version(s) ==
  /\ stored' = [stored EXCEPT ![s.wallet] = s.policy]
  /\ version' = [version EXCEPT ![s.wallet] = s.version]
  /\ UNCHANGED <<opened, votes, signed>>

\* store_wallet_policy: the contract stores the next version, from the account the
\* message names, however long ago it was signed.
StoreWalletPolicy(s) ==
  /\ version[s.wallet] < MaxVersion /\ s.version = version[s.wallet] + 1
  /\ stored' = [stored EXCEPT ![s.wallet] = s.policy]
  /\ version' = [version EXCEPT ![s.wallet] = s.version]
  /\ UNCHANGED <<opened, votes, signed>>

Next ==
  \/ \E w \in Wallets, policy \in Documents, caller \in Callers :
       SignPolicy(w, policy, caller) \/ \E id \in Approvals : OpenApproval(id, w, policy, caller)
  \/ \E id \in Approvals, voter \in Accounts, verb \in {"approve", "reject"} :
       \E proof \in ProofsOf(voter) : CastVote(id, voter, proof, verb)
  \/ \E s \in signed : StoreWalletPolicy(s)

Spec == Init /\ [][Next]_vars

-----------------------------------------------------------------------------

TypeOK ==
  /\ stored \in [Wallets -> Documents] /\ version \in [Wallets -> Nat \ {0}]
  /\ DOMAIN opened \subseteq Approvals
  /\ \A v \in votes : v.voter \in Accounts /\ v.meant.verb \in {"approve", "reject"}
  /\ \A s \in signed :
       /\ s.wallet \in Wallets /\ s.policy \in Documents /\ s.caller \in Callers
       /\ s.version \in 1..(version[s.wallet] + 1)

\* An account approved an operation as the policy asks it of an approver: an entry
\* names it, and if an entry pins it, with a key that one pins.
Supports(policy, a, op) ==
  LET entries == {e \in ApproversOf(policy) : e.id = a} IN
  /\ entries # {}
  /\ \E v \in votes :
       /\ v.voter = a /\ v.meant.verb = "approve" /\ v.meant.op = op
       /\ \/ \A e \in entries : e.pubkey = Absent
          \/ \E e \in entries : e.pubkey # Absent /\ v.proof = Key(e.pubkey)

\* The document a wallet now has was approved by the quorum of the one it replaced.
ApprovedByItsLock(w) ==
  \E s \in signed :
    /\ s.wallet = w /\ s.policy = stored'[w] /\ s.version = version'[w]
    /\ Cardinality({a \in Accounts :
         Supports(stored[w], a, PolicyUpdate(w, s.policy, s.version, s.caller))})
           >= required(stored[w].approval.threshold)

\* A locked policy is replaced only as the quorum of its own approvers, each
\* counted once, approved: this policy, for this wallet, under this version, from
\* this sender; whatever was voted on or signed before it was stored. "Every later
\* store_wallet_policy - including one that clears this flag - waits for threshold
\* votes" (942-945); "approvers approve exactly what lands in the contract" (369).
LockHolds ==
  [][\A w \in Wallets : Locked(stored[w]) /\ version'[w] # version[w] => ApprovedByItsLock(w)]_vars

\* The accounts that could cast a vote a policy counts.
CouldVote(policy) == {a \in Accounts : approver_standing(policy, a) # NotListed}

\* No lock is stored that its approvers could not lift: "a lock that nobody could
\* lift ... is never stored" (445-446).
LockCanBeLifted ==
  \A w \in Wallets : Locked(stored[w]) =>
    Cardinality(CouldVote(stored[w])) >= required(stored[w].approval.threshold)

\* Nor one that "anybody could step around": under a stored lock the capability
\* rule refuses a raw signature by the NEAR key on its own, however the operation
\* spells the chain and whatever order the rules are asked in.
NoRawUnderLock ==
  \A w \in Wallets, chain \in TrimsToNear : Locked(stored[w]) =>
    check_capabilities(stored[w], Op("raw", NoAccount, Absent, Absent, chain)) = {Deny("capabilities")}
=============================================================================
