# A TLA+ model of shared-tee-helpers

`shared-tee-helpers` is the Rust crate that OutLayer's keystore worker (inside a
TEE), its coordinator and its register contract share: who may open a session,
whose vote counts, what a bound wallet may do, what a policy lets a wallet sign.
It is a library of judgements. Nearly every function is called twice, by two
parties that must agree, on facts read from a chain through nodes that lag, while
the chain and the policy go on changing. The unit tests call the judgements one
at a time. This project models them inside the processes they are called from,
model-checks those with TLC, and proves the main results with TLAPS.

Line numbers in this file and in the modules' comments are those of the files
under the repository's `src/` unless a longer path is given.

## 1. Inventory

| part | source | state it keeps | operations |
|---|---|---|---|
| contract votes | `contract_vote.rs` | per call: the pair being read, the block the first read answered from | `resolve_contract_vote`, `resolve_pair`, `classify_call`, `judge_signature_allowed`, `judge_resolution` |
| signer key | `signer_key.rs` | per call: which of two reads it is at | `signer_key_by`, `read_access_key_answer`, `read_account_exists`, `is_implicit_of` |
| TEE handshake | `lib.rs` | per handshake: the challenge, the attempt, the last error | `generate_challenge`, `verify_signature`, `check_access_key_on_contract`, `check_access_key_with_retry`, `AllowedKeyTypes` |
| legacy crate | `tee-auth/src/lib.rs` | the same | the ed25519-only predecessor: `verify_signature`, `parse_public_key_bytes`, the same loop |
| binding profiles | `binding.rs`, `hos.rs` | the caller's: cached evidence, a binding that is live, suspended or ended | `admit`, the two `verify`, `effective_code_hash_b58`, `is_terminal`, `signing_version_gate` |
| spend-grant mirror | `hos.rs`, `binding.rs`, `hos_contract_vectors.rs` | none; mirrors a contract with meters | `admission`, `check_own_collection`, `check_reserve`, `verdict`; the golden vectors of the contract's own suite |
| request decoder | `wallet_request_decode.rs` | none | `decode`, `effects` |
| policy engine | `wallet_policy.rs` | none; the callers keep counters, votes and the policy | `evaluate`, `Usage::from_current_usage`, the EVM and Solana decisions, `bind_mode`, `lock_is_satisfiable`, `PolicyUpdate`, hashes and messages |
| access limits, secret references, path helpers | `access_limits.rs`, `secrets_ref.rs`, `lib.rs` | none | predicates over strings and JSON trees |

How they meet. The coordinator takes a request, evaluates the policy with the
spend counters of its database, and collects approvers' votes; an approver that
is a contract wallet votes through `resolve_contract_vote`, one with a key through
`signer_key_by`; which of the two counts for it is `approver_standing`. The keystore, reached over a session that the TEE handshake
opened, evaluates the same policy again without counters and signs, if its build carries
the decoder the job names (`signing_version_gate`). A policy that is locked is itself
replaced only by a vote, over an operation (`PolicyUpdate`) that names the new one. If the wallet is
bound to another account, the request first passes `admit` on cached evidence and,
for a leased account, the mirror of the contract's spend grant; the request it
carries is read by the same decoder for the mirror and for the policy's extension
door.

What is hard to test here, by part (PROJECT.json lists each at its line):

* *Two reads, one fact.* A vote and an implicit account are each judged from two
  queries, with a changing chain between them and nodes that lag behind it.
* *Retries.* A loop whose last attempt decides; a pinned block a node does not have yet;
  a failure that must not be read as a fact, and a fact that must not be retried away.
* *Cached evidence* judged under a later clock; faults that end a binding against
  faults that suspend it; answers that arrive with fields missing; two views of one account
  read at two blocks; a grant's meters that other requests move on meanwhile.
* *Two implementations of one rule set.* The pre-flight lists every rule broken,
  by category; the contract stops at the first in promise order; both meter.
* *Two evaluations of one policy*, one with counters and one without, hours and
  possibly a policy or a build apart; counters that cannot be read, or that several
  requests read before any of them is counted; spends that are nested,
  split or redirected inside a request; signatures that pass the ladder by.
* *A lock on the policy itself*: votes gathered for hours on a replacement while other
  replacements are put, voted on, signed and stored.

What makes each part correct is stated as the properties of section 3.

## 2. The modules

Every definition that stands for code has its source lines in PROJECT.json
(`map`) and, as far as TLA+ allows, the source's name. A definition whose comment
begins with "Mutant:" is a plausible mistake in the definition it stands beside; no
specification uses it, and putting it in that definition's place makes TLC report
the property PROJECT.json names for it.

**AtomicVote** is what a vote promises its caller: the call reads the wallet at *one*
block, in one step, and returns the verdict of that block, or says it could not
reach it. It ends.

**ContractVote** is the driver that makes good on it with two queries. One step of
the driver is one query, sent, answered and judged: an answer is a fact about a
block that exists already, so only the time *between* the queries matters, and
there any block may be produced and any node may catch up. When a call about the final block
meets a node that lacks the block its first read pinned, the pair is read once more from
the start.
`Promise == INSTANCE AtomicVote` is the refinement.

**SignerKey** is `signer_key_by`. The caller hands it a closure that
asks the chain, and decides there whether the two reads name one block; the model's
caller does either (`pin`, 0 for none).

**TeeAuth** is the handshake, for several handshakes over one chain of registered
keys: challenge, signature, then the retry loop that asks the chain. Each handshake's server
links this crate or the legacy one (`Legacy`), which reads other spellings of a key and has no
allowlist; the chain they ask is one. Cryptography is
abstract: a signature is who made it and over which challenge, and it verifies when
both and the scheme agree.

**BindingLife** is a binding over time: `Observe` caches evidence, `Request` calls
`admit` under the request's clock, `is_terminal` decides between ended and
suspended, and `Change` and `Tick` are the account and the clock. An account runs code of its own
or code it refers to by hash, which the views report in different fields. A personal account
takes two views; the constant `Apart` says whether a caller may read them at two blocks, and
`Reshaped` whether a response may arrive other than whole. The binding's mode
is chosen at the start and never changes.

**Effects** is what the decoder states of a request, shared by the two that read it:
**GrantMirror** and the policy engine. GrantMirror runs the whole pre-flight on a
request and then the contract on the same request, promise by promise with its
meters, so that what the owner was told can be held against what the chain does. The
contract is not in this repository; it is modelled from the ladder `binding.rs`
states (405-417). **GoldenVectors** holds that reading of it to account: every vector of
`hos_contract_vectors.rs` is a case, with the class its panic maps to, and both the
pre-flight and the modelled contract must answer it so. Between the view and the charge
`ChargeElsewhere` lets the grant's other callers spend from the same budgets.

**PolicyEngine** is `evaluate` as a pure operator. Each gate is an operator that
returns the set of what it has to say, nothing or one decision; `evaluate` lists the
gates in the order of `evaluate_section` and the first that speaks decides. EVM and Solana
signatures have a decision of their own (`chain_sign_decision`); `judged` picks the one that
is asked. `IsPolicy` and `IsOp` are the schemas that serde reads, and
**SigningGate** is the gate on the decoder a job names.
**PolicyFlow** puts it where it is called: `Submit` (the coordinator, with the
counters as it managed to read them), `Vote`, `Sign` (the keystore, without counters,
under the policy then in force, by a build of any age), `Record` and `HandOver`, with
`StorePolicy` and `NextHour` in between at any time, for several requests (`Flights`) that
overlap or follow on each other. Those steps are the callers' and marked external;
the engine's documentation says what they do (8-23, 1092-1098, 1474-1480).
**PolicyBatch** is PolicyFlow with a memory: whether the policy has stood all along, and the
most that was in flight, of each token and in requests, beside a request when it was admitted. The
memory follows the steps and changes none of them.

**PolicyLock** is the replacement of a locked policy. `OpenApproval` puts a document to the
approvers, `CastVote` is a vote of any account, either way, with any proof it has,
`SignPolicy` recomputes the operation from the document and the chain and counts the votes
that `approver_standing` of the *stored* policy admits, and `StoreWalletPolicy` is the contract.
The doors and the contract are external; `PolicyUpdate`, the vote's message, the standings and
`lock_is_satisfiable` are the library's. A hash stands for the whole of what it is taken of.

The modules named `MC...` give the constants values; `..._proofs` hold the theorems.

## 3. The runs

Symmetry is used where wallets, approvals or nodes are interchangeable and no liveness is
checked. `CHECK_DEADLOCK FALSE` is set everywhere because every one of these
processes ends: a call returns, a binding ends, time, the chain, votes and versions are bounded.

| run | what it asks | bounds, and why they are enough |
|---|---|---|
| `contract_vote` | `CountedAtOneBlock`: a vote counts only if one block alone supports it. `OneLagNeverFails`: one lagging node does not lose a vote. `ImplementsPromise`: refinement of AtomicVote. `QueriesRunOut`: each query is one of the four a call has at most. `Resolves`: the call ends. | two nodes, two blocks, thirteen kinds of wallet, every shape and starting block. Two blocks are the fewest at which halves of two blocks could be mixed, and two nodes the fewest at which one lags; the theorems cover the rest. |
| `signer_key` | `HeardKeySpoke`: a key heard as the owner's spoke at a block that was read. `OnlyTheRaceMisleads`: a key that spoke at every block read is judged absent only when its account was made between the two reads. `VerdictOfThePinnedBlock`: one block in, that block's verdict out. | four blocks: the account can be made, lose its key and be deleted between two reads. |
| `signer_key_race` | violation: `AbsentKeyWasSilent`, section 6. | the same |
| `tee_auth` | `SessionIsEarned`, `RefusedAfterEveryAttempt`; `AttemptsRunOut`: each query is one of the `MAX_RETRIES` a handshake has at most; `AskingEnds`. | two handshakes, one with a server of each crate (one can present what was made for the other), two nodes, one key of a scheme the server accepts and one of another, three spellings, all three attempts. |
| `binding` | `AdmittedWhileLive`: admissions are of an account live at its block, before its lease ends on the request's clock. `LiveIsAdmitted`: a live account's own evidence is admitted, whichever way its code is installed. `OnlyPartialLooksMislead`: a binding that could be admitted again was ended by a misshapen response or by two views of two blocks, and by nothing else. | both modes, every reply, evidence from any block and any pair of blocks, a clock that passes the lease's end, two changes of the account (cut, spoil, restore): one takes the code or the membership away and one brings it back. |
| `binding_reshaped` | violation: `EndedIsOver` when a response arrives misshapen, section 6. | three changes, both views of one block |
| `grant_mirror` | `NoFalseRefusal`: nothing the chain executes is refused. `ToldThePanic`: what is told first is the chain's panic, of the same promise. `VectorsHold`: each golden vector is answered as the contract's suite has it, by both sides. | every request of up to two promises out of 28 forms, which meet every rung of the ladder and every pair of rungs across two promises, and of three promises out of seven for the running totals; five grants (none, fresh, part spent, exhausted, expired); every subset of the views unread; every vector, with its own grant; other callers that raise a meter, up to its budget, to one of `Levels` before the charge. One level, 4, lies between what the part-spent grants have spent and their budgets, which is what tells a verdict on old meters from one on new. |
| `grant_mirror_meter` | violation: `ToldEveryPanic`, section 6. | the same, with no other caller (`Levels = {}`) |
| `policy_flow` | `KeystoreAgrees`: the same decision, the same threshold, from both parties. `SignedUnderThePolicy`: the policy in force at the signature binds every account and amount inside the request, and its hours, read off a clock and a calendar. `SignedByOptIn`: what the keystore takes on trust is signed only by a capability written in the policy then in force. `ReadByItsSchema`: a leased account's request is signed only by a build that reads its schema. `CapsHold`, `RateHolds`: requests made one at a time pass no window's cap and no hourly rate. `OverCapByABatch`, `OverRateByABatch`: however requests overlap under one policy, a cap and the rate are passed by what was in flight beside a request when it was admitted, and by no more. | two requests: one of 46 operations (every kind of gate reached, nested spends, jobs that state less than they should), and one of four that spend whole, split and nested, before, during or after the first; seven policies swapped at any time; builds that carry one decoder or the other; the turn from hour 23 to 24, which is midnight, Thursday to Friday; counters unread as a whole or cell by cell, or handed over without the windows and the count that are still zero. Two requests are the fewest that reach a cap together, and the fewest that overlap and pass it; the theorems have any number. |
| `policy_count` | violation: `RateHolds` when the count does not read, section 6. | the same, and that failure |
| `policy_lock` | `LockHolds`: a locked policy is replaced only by what the quorum of its own approvers voted for: this document, wallet, version, sender. `LockCanBeLifted`: a stored lock names enough voters. `NoRawUnderLock`: none leaves the wallet's key free to sign raw. | two wallets and two approvals (a vote for one could count for another), three accounts (two keys, one key, a contract wallet), nine documents of which six are no good as locks, three votes, three signed messages and three versions: enough for a quorum of two, one stray vote, a message left over from an earlier version and a lock replaced by a lock. One caller; the theorem allows any. |
| `policy_lock_blank` | violation: `LockCanBeLifted`, section 6. | a document whose approver is written with blanks |

Amounts are small numbers under a small `MaxU128`, so that saturation and caps are
reached; in GrantMirror they keep the fixtures' proportions. The type invariant of each module
states the ranges that its code's bounds give (attempts, meters, thresholds, versions).

**Fairness.** ContractVote and TeeAuth state weak fairness of the driver's own queries,
nothing else: the callers give every HTTP query a timeout, so a query ends in an
answer or in a failure, and the loops themselves never wait. No fairness is assumed of the
chain, the nodes or the queries' success. The other modules claim no liveness: nothing in
the library obliges an owner, an approver or a coordinator to come back.

## 4. What is proved

The proofs hold for every value of the constants allowed by the named assumptions: a
set of nodes, a set of wallets or keys, a chain of any bounded length, any policies and
operations of the schema.

* **ContractVote_proofs**: `TypeCorrect`, `VotesCountAtOneBlock`, `OneLagIsReadAgain`,
  `FourQueriesAtMost` and `DriverKeepsPromise`, the refinement of AtomicVote. `CountedAtOneBlock` is not
  inductive: it speaks of a verdict, and says nothing while the call runs. `PinInv`
  adds what the driver knows between its two reads: the pinned block exists, is the one
  asked for unless the call asked for the final one, and has code whose signatures were
  allowed there. `PairInv` ties the number of the pair to the lagging reads
  that were met, which is why no conclusion after one lag is impossible, and bounds the pairs, which
  is why each query leaves fewer.
* **SignerKey_proofs**: `TypeCorrect`, `HeardKeysSpoke`, `OnlyTheRace`, `PinnedVerdicts`. `PathInv`
  holds what the first read found until the second: the key was unknown at a block
  already read, which is the caller's block if it named one, and the account is the
  key's implicit one. That the account is then missing makes the key its own. `OnlyTheRace` is the other side of the
  finding `signer_key_race`: the race it shows is the only way there.
* **TeeAuth_proofs**: `TypeCorrect`, `SessionsAreEarned`, `RefusalsAskedEveryTime`, `ThreeAttemptsAtMost`, for servers
  of either crate. `AskingInv` holds for each handshake that its signature was checked over
  its own challenge before the loop began, that the loop has only read blocks without the
  key so far, and that its attempts are within `MAX_RETRIES`. What the two crates share of a
  verified claim is one lemma, `VerdictOfTheClaim`.
* **BindingLife_proofs**: `TypeCorrect`, `AdmissionsAreLive`, `LiveIsNeverRefused`,
  `OnlyPartialLooks` and `TerminalIsOver`. `AdmittedWhileLive` needs
  `ShapeInv`, that an admission's evidence is of blocks of the account: a growing history
  leaves what was read there alone. `OnlyPartialLooks` calls the gates on a later account than the
  one that ended the binding, so it needs `EndInv`, that unless the look was partial one of two reasons
  ended it (a cut executor, a lease that ran out), and `AccountInv`, that a cut executor stays cut. It holds for
  any responses and any blocks. `TerminalIsOver` follows from it when responses arrive whole and both
  views are of one block (`Reshaped = FALSE`, `Apart = FALSE`), which makes every look whole
  (`WholeInv`); without the first it is the
  finding `binding_reshaped`, without the second the observation that ends section 6.
* **PolicyFlow_proofs**, ten theorems over one lemma about evaluations: a decision that admits
  met silence from every rule that can refuse (`SilentWhenAdmitted`).
  * `KeystoresAgree`: the rules that read counters only refuse; the velocity rules and the hourly
    count are silent without counters, and what the extension door refuses without them it refuses
    with them. So the rule that spoke first to admit with counters is one that never reads them, and
    every rule before it is silent to the keystore as well (`AdmittedAlike`). `AdmittedInv` ties a
    recorded decision to the policy and the hour it was made under.
  * `TrustIsOptedInto`: a kind's capability rule stands before the rules that admit, so an
    evaluation that admits has passed it, and the keystore's is of the policy then in force.
  * `SchemasAreRead` assumes that a job says nothing false of a leased account, its kind or its
    decoder: unstated is refused, and a false claim no enclave can tell (686-691 of `binding.rs`
    leaves that to the two parties that read the chain).
  * `SigningIsUnderThePolicy`: the rules are read off the silence of the keystore's evaluation. The
    accounts the extension door touches cover all that a nested request pays, refunds or
    registers (`PayeesAreTouched`); its totals are the true sums, capped (`TokenTotalIs`,
    `NativeIsAttached`), so a sum within a limit below the largest u128 is within it for certain, and
    a limit of the largest u128 is none; and the arithmetic of the clock is the calendar's
    (`OnTheHour`, `WithinTheRange`, `WeekdayIsCalendar`).
  * `TypeCorrect`: `TypeInv` adds that what is in flight and moves funds has an amount that
    reads. A threshold is what the rule computed, except that a policy without a lock may ask for
    none or fewer, as its owner wrote it.
  * `CapsAreHeld`, `RateIsHeld`: neither property is inductive, since a request already admitted
    is counted later. `Alone` says that while requests come one at a time there is one in flight at
    most; `Room` and `Rated` say that there is room for it under every cap and under the rate. At
    `Submit` that is the silence of the velocity rule, on counters that are those stored
    (`ReadingIs`: a reading may know less than is stored, and says where). `RateIsHeld` assumes
    that no reading leaves out the transaction count of what was counted; without that it is the finding
    `policy_count`. `CapsAreHeld` assumes the same of a window: a document may leave one out, and the
    engine's test of partial documents (5058-5067) says that callers do, but what is left out reads as nothing spent.
    The library rests on its coordinator for the rest, whose reader "always writes all three" (1154-1155);
    with `Failures = {"window"}`, which no run sets, TLC finds `CapsHold` violated, while the
    properties of `policy_flow` that speak of no cap hold. A rate below zero admits nothing, so nothing is said of it before a request counts.
  * `BatchesBoundTheCaps`, `BatchesBoundTheRate`: the same without `Alone`. `SteadySteps` says what
    a step under a standing policy does to the counters and to what is in flight. The invariant adds up both:
    what was counted and what is pending together stay within the cap and the largest batch
    (`RoomBesideABatch`, `RateBesideABatch`). An admission saw room for itself beside what was counted, so
    the sum is within the cap and what else was pending, which the batch remembers; counting a request moves its
    part from one side of the sum to the other; refusals and the clock only lower it. What is
    pending is a sum over a changing set of requests: `OneMoreMoves` and `FewerMove` say what a step
    does to it. Each assumes what its counterpart above does.
* **GrantMirror_proofs**: `TypeCorrect`, `NoFalseRefusalHolds`, `ToldThePanicHolds` and
  `ToldButAtSpentBudgets`, for requests of any length and whatever others spent since the view. What the pre-flight lists by category is first cut up by promise, one lemma for each of its
  rules (`FormViolations`, `MethodViolations`, ...); `PlainPromise` and `CallPromise` then hold the
  rules of one promise against the rung the contract stops at. The properties speak of the end of the
  contract's pass; the invariant carries them there: the verdict is what the pre-flight lists
  (`Judged`), nothing is listed of a promise already charged while the meters are what those promises
  and other callers come to (`Cleared`, `ChargedUpTo`), and a panic is the rung of the promise it stopped at (`Phases`). The
  pre-flight's sums saturate and the contract's do not: `RunningTotals` and
  `AttachedTotals` say why the two compare alike. `ToldButAtSpentBudgets` is the other side of the
  finding `grant_mirror_meter`: a panic that is not told is over a token budget that this request or another
  caller spent from after the view, or over a native budget another caller spent from.
* **Effects_proofs** is what both rest on. The sums of the decoder and of the chain are recursive
  functions over sequences and over finite sets, and the induction that unfolds them is
  stated without operators: a set of naturals has a least member, a set that holds the empty set and
  whatever a member is added to holds every finite set. From that, a sum does not depend on the order
  it is taken in (`SumIs`, `SumWith`, `SumMapped`, `SumsAgree`, `SumOfFewer`), and the total that the decoder adds up promise by
  promise, in sums that saturate, is the sum of every amount attached, capped once (`NativeIsAttached`).
* **PolicyLock_proofs**: `TypeCorrect`, `LocksHold`, `LocksCanBeLifted`, `LocksCloseRaw`. The
  invariant says of every signed message what was true when it was signed and stays true: if it is
  for the version after the stored one, and that one is locked, then its approvers' quorum has
  voted for exactly this operation, since votes are never withdrawn; and it passed
  `lock_is_satisfiable`. Storing moves the version past every other message for it.
  `LocksCanBeLifted` assumes that approvers are written as accounts are spelled, without which it is
  the finding `policy_lock_blank`.

Each proof has the same plan: lemmas say what one query or one evaluation can lead
to, with the forms of the answers resolved away; one lemma per action keeps the
inductive invariant; PTL closes the induction.

Only model-checked: the liveness properties (`Resolves`, `AskingEnds`), as the prover has neither
fairness nor ENABLED, though their safety halves, that the queries run out, are theorems; and `VectorsHold`, which is about a list of concrete requests, each of which
TLC evaluates. Every other property of a passing run is a theorem. The runs that
are expected to fail are TLC's.

## 5. What is assumed, and what is left out

* Nodes may lag and fail, and do not lie: an answer is true of some block the node
  has. A signature cannot be made without its key, a hash has one preimage.
* GrantMirror (`CasesAssumption`): requests are what the decoder hands over, with amounts that are
  u128s. No meter is past its budget, as the contract charges only within it,
  and neither the native budget nor the balance is the largest u128, where a saturating sum could no
  longer tell equal from more; both are far above any supply. The floor is zero only in the fixtures, for
  requests that the balance covers. The meters ride with cached evidence, so a pre-flight may
  miss a refusal that another request of the same window brought about (`MeterCrossed`); it promises the
  other direction only. Other callers only spend: an owner who renews or raises the grant, or a
  balance that changes, within the seconds the evidence is cached is left out. The pre-flight would
  then refuse on the old grant what the contract would accept, until the cache runs out.
* PolicyFlow (`CountersAssumption`, `SchemaAssumption`): the tokens counted are finitely many, hours are
  naturals, policies and operations are of the schemas serde reads, and a nested request is one the
  decoder hands over. The value that stands for a missing counter is no count and no reading.
* BindingLife: `Parked` stands for the four states other than `Active`; none of them is
  `Expired` (`hos.rs:60`), so `StateExpired` is kept in the ladder and never given.
  An executor that was cut off is not enrolled again under the same
  binding, and a lease is not extended in the time modelled. The first is what makes
  `ExtensionDisabled` terminal in `is_terminal`.
* BindingLife: a wallet build that the deployment does not list answers the membership view from its
  extension set; code that is no wallet has no such view, and its answer reads false. The code is
  judged first, so no fault rests on either unless the views are of two blocks.
* PolicyFlow: windows turn with the clock; a request is counted after it is
  signed, as the comment at 1474-1480 describes. All refusals of the extension door are
  one, and so are those of the velocity windows: their wording is not modelled. Letter case and
  surrounding blanks of chain and account names are data; the folds that decide
  something, two spellings of an EVM address and of `near`, are modelled. That the keystore
  signs no gate-only call is its own refusal, told at 105-108. The branch of the chain
  decisions for a wallet without a policy is not reached: every wallet here has one.
* PolicyLock: the contract stores the version after the current one, from the account the message
  names; its code is not in this repository. What an owner had his own key sign raw before the lock
  was stored is outside. A delete of the policy, which waits for the same votes (942-945),
  is the keystore's alone: the library has no operation for it.
* TeeAuth: a node may refuse a query in a result of the old form, with an error of its own and no
  permission; the crate asks a result for its permission alone, so the query counts as a key not
  registered, is asked again like any other, and if it is the last one refuses the worker by that name.
* Decoding is data: arguments read or do not, a request decodes or does not, an amount
  parses or is `Unreadable`. Gas and the number of actions, which no rule here reads, are left out.
* Not modelled: canonical JSON and the auth messages (text whose only property is that both
  sides write the same, which `tests/vectors.json` pins by digests);
  `is_evm_chain`, `is_solana_chain`, `is_valid_sub_path`, `is_implicit_account` and
  `secrets_ref.rs` (predicates over the characters of one string, whose tests enumerate the
  boundaries); `condition_bounds` (one recursive count over a JSON tree, with no caller here).
  None of them has a state, an order or a second party.

## 6. Where the code and its words part

Each is a run that TLC refutes, quoted in PROJECT.json.

* `signer_key_race`: without a common block, an implicit account made between the
  two reads has its own key answered `Absent`, though that key spoke for it at every
  block. The text (99-101) has the account's own answer tell the two cases apart.
* `grant_mirror_meter`: the native budget is carried from promise to promise, a
  token's is not. Two transfers that fit one by one pass the pre-flight and panic on chain.
* `binding_reshaped`: a status without its fields, or with a lease that is not a number, is
  a terminal fault, so one bad response ends a binding whose next look would succeed;
  the dividing line drawn at `binding.rs:278-280` is whether the same request could.
* `policy_count`: a usage document whose transaction count does not read counts as zero,
  beside the sentence that an unknown count is not zero.
* `policy_lock_blank`: `lock_is_satisfiable` counts approvers by their trimmed ids and
  `approver_standing` compares ids as written, so a lock that needs an approver written with
  blanks is stored and can never be lifted.

One more is an observation, which no run refutes by itself: the two views of a personal account need not
name one block. Code read while the recognized build is there and membership read while it is not are the
terminal `ExtensionDisabled`, for an account whose owner has only to restore its code, or has. Asking for
the code first, which `binding.rs:519-523` says prevents this, does so for two facts of one block. It is
the second disjunct of `EndedOnAPartialLook`, without which `OnlyPartialLooksMislead` fails in run
`binding`. A caller that names one block in both queries, as `resolve_pair` does, is safe (`TerminalIsOver`).

## 7. What is left

Every module of section 2 is written, every safety property the runs check is a theorem except
`VectorsHold`. Of three findings a theorem says that what they show is the only way there
(`OnlyTheRace`, `OnlyPartialLooks`, `ToldButAtSpentBudgets`); of the other two, `policy_count` and
`policy_lock_blank`, the theorem names the assumption they break. What would come next:

1. **A grant that is renewed or raised**, and a balance that moves, within the cache window: how long a refusal
   may outlast its reason.
2. **A bound on the batch itself.** The library bounds it nowhere; a coordinator that limits the requests in
   flight would turn `OverCapByABatch` into a number.
3. **Larger instances** where time allows: `contract_vote` at three blocks also passes (1.2
   million states).
