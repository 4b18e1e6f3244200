----------------------------- MODULE PolicyFlow -----------------------------
(***************************************************************************)
(* The life of requests under a policy: the coordinator reads the wallet's *)
(* counters and evaluates, approvers vote, the keystore evaluates again on *)
(* its own, without the counters and under the policy then in force, and   *)
(* what was signed is counted. The evaluations are the engine's; the steps *)
(* around them are the callers', as wallet_policy.rs says of them: the     *)
(* trust split (8-23) and the note on concurrency (1092-1098).             *)
(***************************************************************************)
EXTENDS PolicyEngine, SigningGate

CONSTANTS
  Flights,      \* the requests
  Asks,         \* the operations each of them may ask for
  Policies,     \* the policies the owner may put in force
  Tokens,       \* the tokens a counter is kept for
  Builds,       \* the decoders each build of the keystore that may sign carries
  Failures,     \* how a read of the counters may fail: "query", "cell", "window", "count"
  Gaps,         \* the parts a usage document may be without at once
  FirstHour, LastHour   \* the hours that pass

ASSUME SchemaAssumption ==
  /\ Absent \notin Policies /\ \A p \in Policies : IsPolicy(p)
  /\ \A f \in Flights : \A op \in Asks[f] : IsOp(op)

\* What a reading of the counters comes to.
Usages ==
  [all_unreadable : BOOLEAN, unreadable : SUBSET (Windows \X Tokens),
   spent : [Windows -> UNION {[S -> 0..MaxU128] : S \in SUBSET Tokens}], hourly_tx_count : Nat]

ASSUME CountersAssumption ==
  /\ MaxU128 \in Nat \ {0} /\ FirstHour \in Nat /\ LastHour \in Nat /\ FirstHour <= LastHour
  /\ IsFiniteSet(Tokens) /\ Absent \notin Usages \cup Nat \cup [Tokens -> Nat \cup {Unreadable}]
  /\ \A gap \in Gaps : ~(Windows \subseteq gap)

VARIABLES
  policy,       \* the policy in force
  hour,         \* the time, in hours since the epoch
  flight,       \* what became of each request
  spent,        \* what was counted in the current windows
  requests,     \* how many requests were counted this hour
  count,        \* the transaction count they made
  quiet         \* no two requests have overlapped, and the policy has not changed

vars == <<policy, hour, flight, spent, requests, count, quiet>>

now_unix == hour * 3600

New == [stage |-> "new"]
Over == [stage |-> "over"]   \* refused, or counted

\* Requests past the coordinator and not yet counted.
InFlight == {f \in Flights : flight[f].stage \in {"admitted", "signed"}}

-----------------------------------------------------------------------------

\* A usage document may be without a window in which nothing was counted, and without
\* the count of nothing; a read that fails may be without more. It names one window.
MayLack(part) ==
  IF part = "hourly_tx_count" THEN count = 0 \/ "count" \in Failures
  ELSE (\A t \in Tokens : spent[part][t] = 0) \/ "window" \in Failures

\* What the coordinator's reader hands over: the counters, or what a failed
\* query or a damaged row leaves of them.
Stored == [w \in Windows \cup {"hourly_tx_count"} |-> IF w = "hourly_tx_count" THEN count ELSE spent[w]]
Documents ==
  {Stored}
  \cup (IF "query" \in Failures THEN {Absent} ELSE {})
  \cup (IF "cell" \in Failures
        THEN {[Stored EXCEPT ![w][t] = Unreadable] : w \in Windows, t \in Tokens} ELSE {})
  \cup {[part \in DOMAIN Stored |-> IF part \in gap /\ MayLack(part) THEN Absent ELSE Stored[part]] : gap \in Gaps}

Init ==
  /\ policy \in Policies
  /\ hour = FirstHour
  /\ flight = [f \in Flights |-> New]
  /\ spent = [w \in Windows |-> [t \in Tokens |-> 0]]
  /\ requests = 0 /\ count = 0 /\ quiet = TRUE

\* The coordinator's evaluation, with the counters as it read them.
Submit(f, op, document) ==
  /\ flight[f].stage = "new"
  /\ LET decision == judged(policy, op, from_current_usage(document), now_unix) IN
     flight' = [flight EXCEPT ![f] =
       IF intents_storage_deposit_amount(op) /\ decision.decision \in {"allow", "requires_approval"}
       THEN [stage |-> "admitted", op |-> op, decision |-> decision, votes |-> 0, policy |-> policy, hour |-> hour]
       ELSE Over]
  /\ quiet' = (quiet /\ InFlight = {})
  /\ UNCHANGED <<policy, hour, spent, requests, count>>

\* An approver's vote on a request that asked for them.
Vote(f) ==
  /\ flight[f].stage = "admitted" /\ flight[f].decision.decision = "requires_approval"
  /\ flight[f].votes < flight[f].decision.threshold
  /\ flight' = [flight EXCEPT ![f].votes = @ + 1]
  /\ UNCHANGED <<policy, hour, spent, requests, count, quiet>>

\* Asked about only: the keystore signs no such call (105-108).
GateOnly(op) == op.kind = "call" /\ op.to \in IntentsContracts /\ ~is_fenced_intents_call(op.to, op.detail.method)

\* The keystore's own refusals, of a build that carries these decoders.
signable(op, carried) ==
  /\ intents_storage_deposit_amount(op) /\ ~GateOnly(op)
  /\ signing_version_gate(carried, IsDoor(op), IF IsDoor(op) THEN op.detail.claim ELSE Claim(Unstated, Unstated))

\* The keystore's evaluation, without counters; the votes are held against the
\* threshold it comes to itself. Builds come and go: a job may be signed by one
\* older or newer than it was queued under.
Sign(f, carried) ==
  /\ flight[f].stage = "admitted"
  /\ flight[f].decision.decision = "requires_approval" => flight[f].votes >= flight[f].decision.threshold
  /\ LET decision == judged(policy, flight[f].op, Absent, now_unix)
         signs == /\ signable(flight[f].op, carried)
                  /\ \/ decision = Allow
                     \/ decision.decision = "requires_approval" /\ flight[f].votes >= decision.threshold
     IN  flight' = [flight EXCEPT ![f] = IF signs THEN [stage |-> "signed", op |-> flight[f].op, carried |-> carried] ELSE Over]
  /\ UNCHANGED <<policy, hour, spent, requests, count, quiet>>

-----------------------------------------------------------------------------
\* What an operation moves of a token, as the chain moves it.
Pulls(request, t) ==
  {p \in TokenCalls(request) : request[p[1]].receiver_id = t /\ ActionAt(request, p).method = "ft_transfer"}
Units(request, t) == SumFunction([p \in Pulls(request, t) |-> ActionAt(request, p).args.units])
Attached(request) == SumFunction([p \in Places(request) |-> ActionAt(request, p).amount])
Moves(op, t) ==
  IF IsDoor(op) THEN IF t = Native THEN Attached(op.detail.external) ELSE Units(op.detail.external, t)
  ELSE IF amount_of(op) # Absent /\ t = token_of(op) THEN amount_of(op) ELSE 0

\* The coordinator counts what reached the chain: every request once, and one that
\* moves two tokens twice (1474-1480). Proofs and messages are not sent there.
Record(f) ==
  /\ flight[f].stage = "signed" /\ flight[f].op.kind \in FundMovingKinds
  /\ LET moved == {t \in Tokens : Moves(flight[f].op, t) > 0} IN
     /\ spent' = [w \in Windows |-> [t \in Tokens |-> Capped(spent[w][t] + Moves(flight[f].op, t))]]
     /\ count' = count + (IF moved = {} THEN 1 ELSE Cardinality(moved))
  /\ requests' = requests + 1
  /\ flight' = [flight EXCEPT ![f] = Over]
  /\ UNCHANGED <<policy, hour, quiet>>

HandOver(f) ==
  /\ flight[f].stage = "signed" /\ flight[f].op.kind \notin FundMovingKinds
  /\ flight' = [flight EXCEPT ![f] = Over]
  /\ UNCHANGED <<policy, hour, spent, requests, count, quiet>>

StorePolicy(p) ==
  /\ p # policy
  /\ policy' = p /\ quiet' = FALSE
  /\ UNCHANGED <<hour, flight, spent, requests, count>>

NextHour ==
  /\ hour < LastHour
  /\ hour' = hour + 1
  /\ requests' = 0 /\ count' = 0
  /\ spent' = [spent EXCEPT !["hourly"] = [t \in Tokens |-> 0],
                            !["daily"] = IF (hour + 1) % 24 = 0 THEN [t \in Tokens |-> 0] ELSE @]
  /\ UNCHANGED <<policy, flight, quiet>>

Next ==
  \/ \E f \in Flights :
       \/ \E op \in Asks[f], document \in Documents : Submit(f, op, document)
       \/ Vote(f) \/ Record(f) \/ HandOver(f)
       \/ \E carried \in Builds : Sign(f, carried)
  \/ \E p \in Policies : StorePolicy(p)
  \/ NextHour

Spec == Init /\ [][Next]_vars

-----------------------------------------------------------------------------

\* Votes are asked for: a threshold of none is the number the owner wrote.
TypeOK ==
  /\ policy \in Policies /\ hour \in FirstHour..LastHour
  /\ spent \in [Windows -> [Tokens -> 0..MaxU128]]
  /\ requests \in Nat /\ count \in Nat /\ count >= requests
  /\ \A f \in Flights : flight[f].stage \in {"new", "admitted", "signed", "over"}
  /\ \A f \in InFlight : flight[f].op \in Asks[f]
  /\ \A f \in Flights : flight[f].stage = "admitted" /\ flight[f].decision # Allow =>
       LET threshold == flight[f].decision.threshold IN
       threshold \in Int /\ (threshold < 1 => flight[f].policy.approval.threshold = threshold)

\* Asked of the same operation under the same policy in the same hour, the
\* keystore comes to the coordinator's own decision whenever that one admits: it
\* "never false-denies an op the coordinator would have allowed" (11-15), and it
\* asks for the same votes (22-24).
KeystoreAgrees ==
  \A f \in Flights :
    flight[f].stage = "admitted" /\ flight[f].policy = policy /\ flight[f].hour = hour =>
      judged(policy, flight[f].op, Absent, now_unix) = flight[f].decision

\* Every account an operation pays, redirects a refund to or registers.
PayeesOf(promise) ==
  {promise.receiver_id, promise.refund_to}
  \cup {promise.actions[j].args.to : j \in {j \in DOMAIN promise.actions : promise.actions[j].action = "function_call"}}
Payees(op) ==
  ({destination(op)} \cup (IF IsDoor(op) THEN UNION {PayeesOf(op.detail.external[i]) : i \in DOMAIN op.detail.external}
                           ELSE {})) \ {NoAccount}

\* The largest u128 is no limit: a sum that saturates stops at it.
Fits(op, rules) ==
  /\ rules.addresses # Absent => \A a \in Payees(op) : Permitted(rules.addresses, a)
  /\ rules.limits # Absent => \A t \in Tokens : \A limit \in lookup_limit(rules.limits.per_transaction, t) :
       limit < MaxU128 => Moves(op, t) <= limit

\* The hours and the days a policy is open, read off a clock's face and a calendar
\* that starts on Thursday the first of January 1970.
FromTo(s, e) == {(s + i) % 24 : i \in 0..((e - s) % 24) - 1}
Calendar == <<4, 5, 6, 7, 1, 2, 3>>
OpenAt(tr, h) ==
  tr # Absent =>
    /\ tr.timezone \in {Absent, "UTC"}
    /\ tr.allowed_hours # Absent => h % 24 \in FromTo(tr.allowed_hours[1], tr.allowed_hours[2])
    /\ tr.allowed_days # Absent => Calendar[((h \div 24) % 7) + 1] \in tr.allowed_days

\* A request is signed only if the policy in force at that moment, not the one it
\* was admitted under, lets it: a frozen wallet signs nothing but the session
\* proof, nothing but an identity proof is signed outside its hours, and every account
\* and amount inside a request, however it is nested or split, is within the rules.
SignedUnderThePolicy ==
  [][\A f \in Flights : flight[f].stage = "admitted" /\ flight'[f].stage = "signed" =>
       /\ policy.frozen => survives_a_freeze(flight[f].op)
       /\ flight[f].op.kind # "auth" =>
            /\ OpenAt(policy.rules.time_restrictions, hour)
            /\ flight[f].op.kind \notin ChainKinds => Fits(flight[f].op, policy.rules)]_vars

\* The capabilities an operation needs written: those whose artifact the keystore
\* cannot check, and those that sign for more than the operation says.
OptIns(op) ==
  CASE op.kind \in ChainKinds       -> {op.kind}
    [] op.kind = "raw"              -> {"raw_sign"}
    [] op.kind = "limit_order"      -> {"limit_order"} \cup (IF op.detail = "confidential_intents" THEN {"confidential"} ELSE {})
    [] op.kind \notin ChainKinds \cup {"raw", "limit_order"} ->
         IF bind_mode(op) = "trusted" THEN {op.kind}
         ELSE IF op.kind = "call" /\ (op.to \in IntentsContracts \/ extension_reaches_intents(op)) THEN {"intents_call"}
         ELSE {}
WrittenIn(p, name) == name \in DOMAIN p.capabilities /\ p.capabilities[name].allowed = TRUE

\* An operation whose artifact the keystore takes on trust, one that reaches the
\* intents contract as the wallet, and one the ladder does not judge, is signed only
\* when the owner wrote its capability: "default-DENY regardless of
\* transaction_types" (1003-1011), whatever policy it was admitted under.
SignedByOptIn ==
  [][\A f \in Flights : flight[f].stage = "admitted" /\ flight'[f].stage = "signed" =>
       \A name \in OptIns(flight[f].op) : WrittenIn(policy, name)]_vars

\* Effects are judged by the schema they are made in: a nested request for a
\* leased account is signed only by a build that carries the decoder of the schema
\* the account speaks, whenever the job was queued and whatever it leaves unstated
\* (binding.rs:678-684).
ReadByItsSchema ==
  \A f \in Flights :
    flight[f].stage = "signed" /\ IsDoor(flight[f].op) /\ flight[f].op.detail.account.kind = "hos_lease" =>
      flight[f].op.detail.account.schema \in flight[f].carried

\* Requests made one at a time under one policy never take a window past its cap,
\* whatever queries failed and whatever cells did not read in between ("best-effort under
\* concurrency", 1092-1098: exact without it).
CapsHold ==
  quiet /\ policy.rules.limits # Absent =>
    \A w \in Windows, t \in Tokens : \A limit \in lookup_limit(policy.rules.limits[w], t) : spent[w][t] <= limit

\* Nor do they pass the hourly rate: "The count is a counter too, and an unknown
\* one is not zero" (1463). (A rate below zero admits nothing.)
RateHolds ==
  quiet /\ requests > 0 => \A max \in count_cap(policy.rules) : requests <= max
=============================================================================
