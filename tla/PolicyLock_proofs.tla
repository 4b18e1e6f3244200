-------------------------- MODULE PolicyLock_proofs --------------------------
(***************************************************************************)
(* A lock holds: for any number of wallets, approvers, keys and policies,  *)
(* a locked policy gives way only to the update its quorum approved. The   *)
(* argument is one invariant: a message signed for the next version of a   *)
(* locked wallet has the quorum of the policy now stored. Storing a policy *)
(* moves the version on, and no message was signed that far ahead.         *)
(***************************************************************************)
EXTENDS PolicyLock, TLAPS, FiniteSetTheorems

\* The update a signed message stores, and who approved it under the stored policy.
UpdateOf(s) == PolicyUpdate(s.wallet, s.policy, s.version, s.caller)
Supporters(s) == {a \in Accounts : Supports(stored[s.wallet], a, UpdateOf(s))}

\* What a vote's message says is what its voter meant, and its proof is the voter's.
VotesAreMeant ==
  \A v \in votes :
    /\ v.proof \in ProofsOf(v.voter)
    /\ \E id \in Approvals :
         v.message = vote_message(v.meant.verb, id, v.meant.op.wallet_pubkey, request_hash(v.meant.op))

LocksAreSound ==
  /\ \A w \in Wallets : lock_is_satisfiable(stored[w])
  /\ \A s \in signed : lock_is_satisfiable(s.policy)

SignaturesAreVoted ==
  \A s \in signed :
    s.version = version[s.wallet] + 1 /\ Locked(stored[s.wallet]) =>
      Cardinality(Supporters(s)) >= required(stored[s.wallet].approval.threshold)

Inv == TypeOK /\ VotesAreMeant /\ LocksAreSound /\ SignaturesAreVoted

-----------------------------------------------------------------------------

LEMMA SubsetCounts ==
  ASSUME NEW S \in SUBSET Accounts, NEW T \in SUBSET S
  PROVE  Cardinality(S) \in Nat /\ Cardinality(T) \in Nat /\ Cardinality(T) <= Cardinality(S)
<1>1. IsFiniteSet(S) /\ IsFiniteSet(T)
  BY FS_Subset, LockAssumption
<1> QED
  BY <1>1, FS_Subset, FS_CardinalityType

\* A vote that a policy counts is its voter's support of the operation.
LEMMA CountedIsSupport ==
  ASSUME VotesAreMeant, TypeOK, NEW policy, NEW id, NEW op
  PROVE  VotersFor(policy, id, op) \subseteq {a \in Accounts : Supports(policy, a, op)}
<1> SUFFICES ASSUME NEW v \in votes,
                    v.message = vote_message("approve", id, op.wallet_pubkey, request_hash(op)),
                    Admits(policy, v.voter, v.proof)
             PROVE  v.voter \in {a \in Accounts : Supports(policy, a, op)}
  BY DEF VotersFor
<1> DEFINE entries == {a \in ApproversOf(policy) : a.id = v.voter}
           pins == {a.pubkey : a \in entries} \ {Absent}
<1>1. v.voter \in Accounts /\ v.meant.verb = "approve" /\ v.meant.op = op
  <2>1. v.voter \in Accounts
    BY DEF TypeOK
  <2>2. PICK said \in Approvals :
          vote_message("approve", id, op.wallet_pubkey, request_hash(op))
            = vote_message(v.meant.verb, said, v.meant.op.wallet_pubkey, request_hash(v.meant.op))
    BY DEF VotesAreMeant
  <2>3. "approve" = v.meant.verb /\ request_hash(op) = request_hash(v.meant.op)
    BY <2>2 DEF vote_message
  <2>4. request_hash(op).sha256 = op /\ request_hash(v.meant.op).sha256 = v.meant.op
    BY DEF request_hash
  <2> QED
    BY <2>1, <2>3, <2>4
<1>2. v.proof = Contract \/ (v.proof # Contract /\ v.proof = Key(v.proof.key))
  <2>1. v.proof \in ProofsOf(v.voter)
    BY DEF VotesAreMeant
  <2>2. ASSUME NEW k, v.proof = Key(k) PROVE v.proof = Key(v.proof.key)
    BY <2>2 DEF Key
  <2> QED
    BY <2>1, <2>2 DEF ProofsOf
<1>3. approver_standing(policy, v.voter) =
        IF entries = {} THEN NotListed ELSE IF pins = {} THEN Unpinned ELSE Pinned(pins)
  BY DEF approver_standing
<1>4. NotListed # Unpinned /\ NotListed.standing = "not listed" /\ Pinned(pins) # Unpinned
      /\ Unpinned.standing = "unpinned" /\ Pinned(pins).keys = pins
  BY DEF NotListed, Unpinned, Pinned
<1>5. \/ approver_standing(policy, v.voter) = Unpinned
      \/ v.proof = Key(v.proof.key) /\ approver_standing(policy, v.voter).standing = "pinned"
         /\ v.proof.key \in approver_standing(policy, v.voter).keys
  BY <1>2 DEF Admits, admits_contract_vote, admits_key
<1>6. entries # {}
  BY <1>3, <1>4, <1>5
<1>7. \/ \A e \in entries : e.pubkey = Absent
      \/ \E e \in entries : e.pubkey # Absent /\ v.proof = Key(e.pubkey)
  <2>1. CASE pins = {}
    BY <2>1
  <2>2. CASE pins # {}
    <3>1. approver_standing(policy, v.voter) = Pinned(pins)
      BY <2>2, <1>3, <1>6
    <3>2. v.proof = Key(v.proof.key) /\ v.proof.key \in pins
      BY <3>1, <1>4, <1>5
    <3>3. PICK e \in entries : e.pubkey = v.proof.key /\ e.pubkey # Absent
      BY <3>2
    <3> QED
      BY <3>2, <3>3
  <2> QED BY <2>1, <2>2
<1> QED
  BY <1>1, <1>6, <1>7 DEF Supports

\* A test passed is a quorum within the named approvers.
LEMMA SatisfiableQuorum ==
  ASSUME NEW policy, lock_is_satisfiable(policy), Locked(policy)
  PROVE  /\ policy.approval.threshold # Absent
         /\ required(policy.approval.threshold) \in 1..Cardinality(NamedApprovers(policy))
         /\ ~raw_signing_on_near_is_open(policy)
  BY DEF lock_is_satisfiable

\* A signature needs, when it is given, the quorum of the policy then stored.
LEMMA SignedIsVoted ==
  ASSUME Inv, NEW w \in Wallets, NEW policy \in Documents, NEW caller \in Callers,
         Locked(stored[w]) => \E id \in Approvals :
           Carried(stored[w], id, PolicyUpdate(w, policy, version[w] + 1, caller)),
         Locked(stored[w])
  PROVE  Cardinality({a \in Accounts : Supports(stored[w], a, PolicyUpdate(w, policy, version[w] + 1, caller))})
           >= required(stored[w].approval.threshold)
<1> DEFINE op == PolicyUpdate(w, policy, version[w] + 1, caller)
           all == {a \in Accounts : Supports(stored[w], a, op)}
<1>1. PICK id \in Approvals : Carried(stored[w], id, op)
  OBVIOUS
<1>2. VotersFor(stored[w], id, op) \subseteq all
  BY CountedIsSupport DEF Inv
<1>3. /\ Cardinality(all) \in Nat /\ Cardinality(VotersFor(stored[w], id, op)) \in Nat
      /\ Cardinality(VotersFor(stored[w], id, op)) <= Cardinality(all)
  <2>1. all \in SUBSET Accounts /\ VotersFor(stored[w], id, op) \in SUBSET all
    BY <1>2
  <2> HIDE DEF all
  <2> QED
    BY <2>1, SubsetCounts
<1>4. required(stored[w].approval.threshold) \in Int
  <2>1. lock_is_satisfiable(stored[w])
    BY DEF Inv, LocksAreSound
  <2>2. required(stored[w].approval.threshold) \in 1..Cardinality(NamedApprovers(stored[w]))
    BY <2>1, SatisfiableQuorum
  <2> QED BY <2>2
<1>5. Cardinality(VotersFor(stored[w], id, op)) >= required(stored[w].approval.threshold)
  BY <1>1 DEF Carried
<1> HIDE DEF op, all
<1>6. Cardinality(all) >= required(stored[w].approval.threshold)
  BY <1>3, <1>4, <1>5
<1> QED
  BY <1>6 DEF op, all

\* Support only grows with the votes.
LEMMA SupportGrows ==
  ASSUME NEW s, votes \subseteq votes', stored' = stored,
         required(stored[s.wallet].approval.threshold) \in Int,
         Cardinality(Supporters(s)) >= required(stored[s.wallet].approval.threshold)
  PROVE  Cardinality(Supporters(s)') >= required(stored[s.wallet].approval.threshold)
<1>1. Supporters(s) \subseteq Supporters(s)'
  BY DEF Supporters, Supports, UpdateOf
<1>2. Supporters(s)' \in SUBSET Accounts
  BY DEF Supporters
<1>3. Cardinality(Supporters(s)') \in Nat /\ Cardinality(Supporters(s)) \in Nat
      /\ Cardinality(Supporters(s)) <= Cardinality(Supporters(s)')
  BY <1>1, <1>2, SubsetCounts
<1> QED
  BY <1>3

-----------------------------------------------------------------------------

LEMMA InitIsSound == Init => Inv
<1> SUFFICES ASSUME Init PROVE Inv
  OBVIOUS
<1>1. TypeOK
  BY LockAssumption DEF Init, TypeOK
<1>2. VotesAreMeant /\ SignaturesAreVoted
  BY DEF Init, VotesAreMeant, SignaturesAreVoted
<1>3. LocksAreSound
  BY LockAssumption DEF Init, LocksAreSound, lock_is_satisfiable
<1> QED
  BY <1>1, <1>2, <1>3 DEF Inv

LEMMA OpenKeeps ==
  ASSUME Inv, NEW id \in Approvals, NEW w \in Wallets, NEW policy \in Documents, NEW caller \in Callers,
         OpenApproval(id, w, policy, caller)
  PROVE  Inv'
<1>1. stored' = stored /\ version' = version /\ votes' = votes /\ signed' = signed
  BY DEF OpenApproval
<1>2. DOMAIN opened' \subseteq Approvals
  BY DEF OpenApproval, Inv, TypeOK
<1>3. TypeOK'
  BY <1>1, <1>2 DEF Inv, TypeOK
<1>4. VotesAreMeant' /\ LocksAreSound' /\ SignaturesAreVoted'
  BY <1>1 DEF Inv, VotesAreMeant, LocksAreSound, SignaturesAreVoted, Supporters, Supports, UpdateOf
<1> QED
  BY <1>3, <1>4 DEF Inv

LEMMA VoteKeeps ==
  ASSUME Inv, NEW id \in Approvals, NEW voter \in Accounts, NEW proof \in ProofsOf(voter),
         NEW verb \in {"approve", "reject"}, CastVote(id, voter, proof, verb)
  PROVE  Inv'
<1> DEFINE vote == [voter |-> voter, proof |-> proof,
                    message |-> vote_message(verb, id, opened[id].wallet_pubkey, request_hash(opened[id])),
                    meant |-> [verb |-> verb, op |-> opened[id]]]
<1>1. stored' = stored /\ version' = version /\ opened' = opened /\ signed' = signed /\ votes' = votes \cup {vote}
  BY DEF CastVote
<1>2. /\ vote.voter = voter /\ vote.proof = proof /\ vote.meant.verb = verb /\ vote.meant.op = opened[id]
      /\ vote.message = vote_message(verb, id, opened[id].wallet_pubkey, request_hash(opened[id]))
  OBVIOUS
<1> HIDE DEF vote
<1>3. TypeOK'
  BY <1>1, <1>2 DEF Inv, TypeOK
<1>4. VotesAreMeant'
  <2>1. vote.proof \in ProofsOf(vote.voter)
    BY <1>2
  <2>2. vote.message = vote_message(vote.meant.verb, id, vote.meant.op.wallet_pubkey, request_hash(vote.meant.op))
    BY <1>2
  <2> QED
    BY <1>1, <2>1, <2>2 DEF Inv, VotesAreMeant
<1>5. LocksAreSound'
  BY <1>1 DEF Inv, LocksAreSound
<1>6. SignaturesAreVoted'
  <2> SUFFICES ASSUME NEW s \in signed, s.version = version[s.wallet] + 1, Locked(stored[s.wallet])
               PROVE  Cardinality(Supporters(s)') >= required(stored[s.wallet].approval.threshold)
    BY <1>1 DEF SignaturesAreVoted
  <2>1. Cardinality(Supporters(s)) >= required(stored[s.wallet].approval.threshold)
    BY DEF Inv, SignaturesAreVoted
  <2>2. required(stored[s.wallet].approval.threshold) \in Int
    <3>1. lock_is_satisfiable(stored[s.wallet])
      BY DEF Inv, TypeOK, LocksAreSound
    <3>2. required(stored[s.wallet].approval.threshold) \in 1..Cardinality(NamedApprovers(stored[s.wallet]))
      BY <3>1, SatisfiableQuorum
    <3> QED BY <3>2
  <2> QED
    BY <1>1, <2>1, <2>2, SupportGrows
<1> QED
  BY <1>3, <1>4, <1>5, <1>6 DEF Inv

LEMMA SignKeeps ==
  ASSUME Inv, NEW w \in Wallets, NEW policy \in Documents, NEW caller \in Callers, SignPolicy(w, policy, caller)
  PROVE  Inv'
<1> DEFINE new == [wallet |-> w, policy |-> policy, version |-> version[w] + 1, caller |-> caller]
<1>1. /\ stored' = stored /\ version' = version /\ opened' = opened /\ votes' = votes
      /\ signed' = signed \cup {new} /\ lock_is_satisfiable(policy)
  BY DEF SignPolicy
<1>2. new.wallet = w /\ new.policy = policy /\ new.version = version[w] + 1 /\ new.caller = caller
  OBVIOUS
<1> HIDE DEF new
<1>3. TypeOK'
  <2>1. new.version \in 1..(version[w] + 1)
    BY <1>2 DEF Inv, TypeOK
  <2> QED
    BY <1>1, <1>2, <2>1 DEF Inv, TypeOK
<1>4. VotesAreMeant' /\ LocksAreSound'
  BY <1>1, <1>2 DEF Inv, VotesAreMeant, LocksAreSound
<1>5. SignaturesAreVoted'
  <2>1. ASSUME Locked(stored[w])
        PROVE  Cardinality(Supporters(new)) >= required(stored[w].approval.threshold)
    <3>1. Locked(stored[w]) => \E id \in Approvals :
            Carried(stored[w], id, PolicyUpdate(w, policy, version[w] + 1, caller))
      BY DEF SignPolicy
    <3>2. Cardinality({a \in Accounts : Supports(stored[w], a, PolicyUpdate(w, policy, version[w] + 1, caller))})
            >= required(stored[w].approval.threshold)
      BY <2>1, <3>1, SignedIsVoted
    <3> QED
      BY <1>2, <3>2 DEF Supporters, UpdateOf
  <2>2. ASSUME NEW s \in signed \cup {new}, s.version = version[s.wallet] + 1, Locked(stored[s.wallet])
        PROVE  Cardinality(Supporters(s)) >= required(stored[s.wallet].approval.threshold)
    <3>1. CASE s = new
      BY <1>2, <2>1, <2>2, <3>1
    <3>2. CASE s \in signed
      BY <2>2, <3>2 DEF Inv, SignaturesAreVoted
    <3> QED BY <3>1, <3>2
  <2> QED
    BY <1>1, <2>2 DEF SignaturesAreVoted, Supporters, Supports, UpdateOf
<1> QED
  BY <1>3, <1>4, <1>5 DEF Inv

LEMMA StoreKeeps ==
  ASSUME Inv, NEW s \in signed, StoreWalletPolicy(s)
  PROVE  Inv'
<1>1. /\ opened' = opened /\ votes' = votes /\ signed' = signed
      /\ stored' = [stored EXCEPT ![s.wallet] = s.policy]
      /\ version' = [version EXCEPT ![s.wallet] = s.version] /\ s.version = version[s.wallet] + 1
  BY DEF StoreWalletPolicy
<1>2. s.wallet \in Wallets /\ s.policy \in Documents /\ s.version \in Nat \ {0}
  BY <1>1 DEF Inv, TypeOK
<1>3. \A w \in Wallets : version[w] \in Nat /\ version'[w] >= version[w]
  BY <1>1, <1>2 DEF Inv, TypeOK
<1>4. TypeOK'
  <2>1. stored' \in [Wallets -> Documents] /\ version' \in [Wallets -> Nat \ {0}]
    BY <1>1, <1>2 DEF Inv, TypeOK
  <2>2. ASSUME NEW m \in signed PROVE m.version \in 1..(version'[m.wallet] + 1)
    <3>1. m.version \in 1..(version[m.wallet] + 1) /\ m.wallet \in Wallets
      BY DEF Inv, TypeOK
    <3>2. version'[m.wallet] \in Nat
      BY <2>1, <3>1
    <3> QED BY <1>3, <3>1, <3>2
  <2> QED
    BY <1>1, <2>1, <2>2 DEF Inv, TypeOK
<1>5. VotesAreMeant'
  BY <1>1 DEF Inv, VotesAreMeant
<1>6. LocksAreSound'
  BY <1>1, <1>2 DEF Inv, LocksAreSound, TypeOK
<1>7. SignaturesAreVoted'
  <2> SUFFICES ASSUME NEW m \in signed, m.version = version'[m.wallet] + 1, Locked(stored'[m.wallet])
               PROVE  Cardinality(Supporters(m)') >= required(stored'[m.wallet].approval.threshold)
    BY <1>1 DEF SignaturesAreVoted
  <2>1. m.wallet \in Wallets /\ m.version \in 1..(version[m.wallet] + 1)
    BY DEF Inv, TypeOK
  <2>2. m.wallet # s.wallet
    <3> SUFFICES ASSUME m.wallet = s.wallet PROVE FALSE
      OBVIOUS
    <3>1. version'[m.wallet] = version[m.wallet] + 1
      BY <1>1, <2>1 DEF Inv, TypeOK
    <3> QED BY <1>3, <2>1, <3>1
  <2>3. version'[m.wallet] = version[m.wallet] /\ stored'[m.wallet] = stored[m.wallet]
    BY <1>1, <2>1, <2>2 DEF Inv, TypeOK
  <2>4. Supporters(m)' = Supporters(m)
    BY <1>1, <2>3 DEF Supporters, Supports, UpdateOf
  <2> QED
    BY <2>3, <2>4 DEF Inv, SignaturesAreVoted
<1> QED
  BY <1>4, <1>5, <1>6, <1>7 DEF Inv

LEMMA StepIsSound == Inv /\ [Next]_vars => Inv'
<1> SUFFICES ASSUME Inv, [Next]_vars PROVE Inv'
  OBVIOUS
<1>1. CASE UNCHANGED vars
  BY <1>1 DEF vars, Inv, TypeOK, VotesAreMeant, LocksAreSound, SignaturesAreVoted, Supporters, Supports, UpdateOf
<1>2. ASSUME NEW w \in Wallets, NEW policy \in Documents, NEW caller \in Callers, SignPolicy(w, policy, caller)
      PROVE Inv'
  BY <1>2, SignKeeps
<1>3. ASSUME NEW w \in Wallets, NEW policy \in Documents, NEW caller \in Callers, NEW id \in Approvals,
             OpenApproval(id, w, policy, caller)
      PROVE Inv'
  BY <1>3, OpenKeeps
<1>4. ASSUME NEW id \in Approvals, NEW voter \in Accounts, NEW verb \in {"approve", "reject"},
             NEW proof \in ProofsOf(voter), CastVote(id, voter, proof, verb)
      PROVE Inv'
  BY <1>4, VoteKeeps
<1>5. ASSUME NEW s \in signed, StoreWalletPolicy(s) PROVE Inv'
  BY <1>5, StoreKeeps
<1> QED
  BY <1>1, <1>2, <1>3, <1>4, <1>5 DEF Next

LEMMA AlwaysSound == Spec => []Inv
<1> QED
  BY InitIsSound, StepIsSound, PTL DEF Spec

-----------------------------------------------------------------------------

\* The variables of the doors and the contract keep their types.
THEOREM TypeCorrect == Spec => []TypeOK
<1>1. Inv => TypeOK
  BY DEF Inv
<1> QED
  BY AlwaysSound, <1>1, PTL

\* A locked policy is replaced only by what its own quorum approved, for any
\* wallets, policies, approvers, keys and order of voting, signing and storing.
THEOREM LocksHold == Spec => LockHolds
<1>1. ASSUME Inv, Next, NEW w \in Wallets, Locked(stored[w]), version'[w] # version[w]
      PROVE  ApprovedByItsLock(w)
  <2>1. PICK s \in signed : StoreWalletPolicy(s)
    BY <1>1 DEF Next, OpenApproval, CastVote, SignPolicy
  <2>2. s.wallet = w /\ stored'[w] = s.policy /\ version'[w] = s.version /\ s.version = version[w] + 1
    BY <1>1, <2>1 DEF StoreWalletPolicy, Inv, TypeOK
  <2>3. Cardinality(Supporters(s)) >= required(stored[w].approval.threshold)
    BY <1>1, <2>2 DEF Inv, SignaturesAreVoted
  <2>4. Cardinality({a \in Accounts : Supports(stored[w], a, PolicyUpdate(w, s.policy, s.version, s.caller))})
          >= required(stored[w].approval.threshold)
    BY <2>2, <2>3 DEF Supporters, UpdateOf
  <2> QED
    BY <2>2, <2>4 DEF ApprovedByItsLock
<1>2. Inv /\ [Next]_vars =>
        [\A w \in Wallets : Locked(stored[w]) /\ version'[w] # version[w] => ApprovedByItsLock(w)]_vars
  BY <1>1
<1> QED
  BY AlwaysSound, <1>2, PTL DEF Spec, LockHolds

\* Every lock that is stored can be lifted, when approvers are written as their
\* accounts are. (Written with a blank, an approver counts here and cannot vote.)
THEOREM LocksCanBeLifted ==
  ASSUME \A policy \in Documents : \A e \in ApproversOf(policy) : e.id # Absent => e.id \in Accounts
  PROVE  Spec => []LockCanBeLifted
<1>1. ASSUME Inv, NEW w \in Wallets, Locked(stored[w])
      PROVE  Cardinality(CouldVote(stored[w])) >= required(stored[w].approval.threshold)
  <2>1. lock_is_satisfiable(stored[w]) /\ stored[w] \in Documents
    BY <1>1 DEF Inv, LocksAreSound, TypeOK
  <2>2. required(stored[w].approval.threshold) \in 1..Cardinality(NamedApprovers(stored[w]))
    BY <1>1, <2>1, SatisfiableQuorum
  <2>3. NamedApprovers(stored[w]) \subseteq CouldVote(stored[w])
    <3> SUFFICES ASSUME NEW e \in ApproversOf(stored[w]), e.id # Absent
                 PROVE  trimmed(e.id) \in CouldVote(stored[w])
      BY DEF NamedApprovers
    <3>1. e.id \in Accounts /\ trimmed(e.id) = e.id
      BY <2>1, LockAssumption DEF trimmed
    <3>2. approver_standing(stored[w], e.id) # NotListed
      <4>1. e \in {a \in ApproversOf(stored[w]) : a.id = e.id}
        OBVIOUS
      <4>2. Unpinned # NotListed /\ \A keys : Pinned(keys) # NotListed
        BY DEF Unpinned, NotListed, Pinned
      <4> QED
        BY <4>1, <4>2 DEF approver_standing
    <3> QED
      BY <3>1, <3>2 DEF CouldVote
  <2>4. CouldVote(stored[w]) \in SUBSET Accounts
    BY DEF CouldVote
  <2>5. /\ Cardinality(CouldVote(stored[w])) \in Nat /\ Cardinality(NamedApprovers(stored[w])) \in Nat
        /\ Cardinality(NamedApprovers(stored[w])) <= Cardinality(CouldVote(stored[w]))
    BY <2>3, <2>4, SubsetCounts
  <2> QED
    BY <2>2, <2>5
<1>2. Inv => LockCanBeLifted
  BY <1>1 DEF LockCanBeLifted
<1> QED
  BY AlwaysSound, <1>2, PTL

\* No stored lock leaves the NEAR key open to raw signing, by any spelling of near.
THEOREM LocksCloseRaw == Spec => []NoRawUnderLock
<1>1. ASSUME Inv, NEW w \in Wallets, NEW chain \in TrimsToNear, Locked(stored[w])
      PROVE  check_capabilities(stored[w], Op("raw", NoAccount, Absent, Absent, chain)) = {Deny("capabilities")}
  <2> DEFINE cap == CapabilityOf(stored[w], "raw_sign", FALSE)
             op == Op("raw", NoAccount, Absent, Absent, chain)
  <2>1. ~(cap.allowed /\ raw_sign_names_near(cap.chains))
    BY <1>1, SatisfiableQuorum DEF Inv, LocksAreSound, raw_signing_on_near_is_open
  <2>2. op.kind = "raw" /\ op.detail = chain
    BY DEF Op
  <2>3. cap.allowed => raw_chain_refused(stored[w], chain)
    BY <2>1, <1>1 DEF raw_sign_names_near, raw_chain_refused
  <2>4. ~cap.allowed => Gate(stored[w], "raw_sign", FALSE) = {Deny("capabilities")}
    BY DEF Gate
  <2>5. check_capabilities(stored[w], op) =
          IF cap.allowed /\ raw_chain_refused(stored[w], chain) THEN {Deny("capabilities")}
          ELSE Gate(stored[w], "raw_sign", FALSE)
    BY <2>2 DEF check_capabilities, extension_reaches_intents, IsDoor
  <2> HIDE DEF cap, op
  <2>6. CASE cap.allowed
    BY <2>3, <2>5, <2>6 DEF op
  <2>7. CASE ~cap.allowed
    BY <2>4, <2>5, <2>7 DEF op
  <2> QED
    BY <2>6, <2>7
<1>2. Inv => NoRawUnderLock
  BY <1>1 DEF NoRawUnderLock
<1> QED
  BY AlwaysSound, <1>2, PTL
=============================================================================
