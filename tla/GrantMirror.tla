---------------------------- MODULE GrantMirror -----------------------------
(***************************************************************************)
(* The leased mode's pre-flight (hos.rs, binding.rs) against the contract  *)
(* it mirrors. admission, check_own_collection and check_reserve list      *)
(* every rule of the spend grant that the request breaks, and verdict puts *)
(* the list in the order of the contract's own pass: the owner is told the *)
(* first. The contract (external: the house-of-stake wallet, as the ladder *)
(* of binding.rs:405-417 and the golden vectors of hos_contract_vectors.rs *)
(* state it) reads the grant at the door, then charges promise after       *)
(* promise, writing the meters back, and panics once. The pre-flight's     *)
(* grant rides with evidence cached for a few seconds: other callers may   *)
(* spend from it before the request reaches the contract.                  *)
(***************************************************************************)
EXTENDS Effects, FiniteSets

CONSTANTS
  Cases,        \* the requests, each with the grant, balance and balance floor of its account
  NoGrant,      \* the executor was given no grant
  Now,          \* the time
  Collection,   \* the collection the account belongs to
  Levels        \* bound: what other callers' spends bring a meter to

\* The contract's floor is at least its fixed buffer; a floor of zero is a test
\* fixture's, for requests the balance covers. No balance is the largest u128, and
\* no meter is past its budget.
ASSUME CasesAssumption ==
  /\ MaxU128 \in Nat /\ Now \in Nat /\ Levels \subseteq Nat
  /\ \A c \in Cases :
       /\ c = [request |-> c.request, grant |-> c.grant, balance |-> c.balance, reserve |-> c.reserve]
       /\ IsRequest(c.request)
       /\ c.balance \in 0..(MaxU128 - 1) /\ c.reserve \in 0..MaxU128
       /\ c.reserve = 0 => NativeTotal(c.request) <= c.balance
       /\ c.grant # NoGrant =>
            /\ c.grant.budget \in 0..(MaxU128 - 1) /\ c.grant.spent \in 0..c.grant.budget
            /\ c.grant.expires_at \in Nat
            /\ \A t \in DOMAIN c.grant.tokens :
                 c.grant.tokens[t].budget \in 0..MaxU128 /\ c.grant.tokens[t].spent \in 0..c.grant.tokens[t].budget

VARIABLES
  request,      \* the request under pre-flight
  grant,        \* the grant on the account, its meters as the view answered them
  balance, reserve,
  seen,         \* what the views answered: a subset of {"grant", "collection", "balance"}
  pc,           \* "preflight", "door", "charging", "reserve" or "done"
  verdict,      \* the pre-flight's violations
  at,           \* the promise the contract charges next
  meters,       \* what the contract has charged: native, and per token
  elsewhere,    \* history: what other callers charged natively since the view
  panic         \* the contract's answer, NoPanic if it executes the request

vars == <<request, grant, balance, reserve, seen, pc, verdict, at, meters, elsewhere, panic>>

-----------------------------------------------------------------------------
(* The pre-flight.                                                         *)

Violation(i, stage, rung, class) ==
  [promise_index |-> i, stage |-> stage, rung |-> rung, class |-> class]

AtDoor(class) == Violation(0, "Door", 0, class)
OnRung(i, rung, class) == Violation(i, "Promise", rung, class)

\* The rung the contract checks each fact at, and its class.
FactRung == [RefundToSet |-> 1, CallNotStandalone |-> 2, CallDepositNotOneYocto |-> 3,
             TokenArgsUnknownField |-> 6, NftApprovalIdSet |-> 7]
FactClass == [RefundToSet |-> "refund_target_not_allowed",
              CallNotStandalone |-> "grant_call_must_stand_alone",
              CallDepositNotOneYocto |-> "grant_call_deposit",
              TokenArgsUnknownField |-> "grant_args_unreadable",
              NftApprovalIdSet |-> "grant_approval_not_allowed"]

form_violations(fx) ==
  {OnRung(f.promise_index, FactRung[f.fact], FactClass[f.fact]) : f \in fx.shape_facts}

\* A grant covers ft_transfer and nft_transfer with readable arguments, and
\* plain transfers: no other method, no registration, no state init.
method_violations(fx) ==
  {IF u.method \in {"ft_transfer", "nft_transfer"}
   THEN OnRung(u.promise_index, 6, "grant_args_unreadable")
   ELSE OnRung(u.promise_index, 5, "grant_method_not_allowed") : u \in fx.unknown_fund_moving}
  \cup {OnRung(s.promise_index, 5, "grant_method_not_allowed") : s \in fx.storage_registrations}
  \cup {OnRung(i, 3, "grant_action_not_allowed") : i \in fx.state_inits}

\* Mutant: a token call's yocto is charged too.
EveryPromise(fx) == DOMAIN fx.receivers

\* The native budget is charged by promises without a call, promise by promise;
\* the one that breaches it answers.
Charged(fx) == DOMAIN fx.receivers \ fx.call_promises

running(fx) ==
  saturating_totals([i \in DOMAIN fx.receivers |-> IF i \in Charged(fx) THEN fx.native_per_promise[i] ELSE 0])

\* Mutant: the breach is reported one promise late.
one_late(fx, g) ==
  LET over == {i \in Charged(fx) : running(fx)[i] > saturating_sub(g.budget, g.spent)} IN
  {OnRung(i + 1, 4, "grant_exhausted") : i \in {i \in over : \A k \in over : i <= k}}

native_violations(fx, g) ==
  LET over == {i \in Charged(fx) : running(fx)[i] > saturating_sub(g.budget, g.spent)} IN
  {OnRung(i, 4, "grant_exhausted") : i \in {i \in over : \A k \in over : i <= k}}

\* A plain promise is held against its own receiver, a token call against the
\* recipient in its arguments.
receiver_violations(fx, g) ==
  {OnRung(i, 2, "receiver_not_granted") : i \in {i \in Charged(fx) : fx.receivers[i] \notin g.receivers}}
  \cup {OnRung(m.promise_index, 8, "receiver_not_granted") :
          m \in {m \in fx.token_moves : m.recipient \notin g.receivers}}

\* Fungible tokens are metered, each move against what the view said remains;
\* items are fenced by identity.
move_violations(fx, g) ==
  LET ft == {m \in fx.token_moves : m.method = "ft_transfer"}
      nft == fx.token_moves \ ft
      Over(m) == m.units > saturating_sub(g.tokens[m.token].budget, g.tokens[m.token].spent)
  IN  {OnRung(m.promise_index, 9, "token_not_granted") : m \in {m \in ft : m.token \notin DOMAIN g.tokens}}
      \cup {OnRung(m.promise_index, 10, "token_budget_exceeded") :
              m \in {m \in ft : m.token \in DOMAIN g.tokens /\ Over(m)}}
      \cup {OnRung(m.promise_index, 9, "collection_not_granted") : m \in {m \in nft : m.token \notin DOMAIN g.items}}
      \cup {OnRung(m.promise_index, 10, "item_not_granted") :
              m \in {m \in nft : m.token \in DOMAIN g.items /\ m.item \notin g.items[m.token]}}

\* The door: the grant and its expiry, read once, before any promise.
door(g, readable, now) ==
  IF g = NoGrant THEN {AtDoor("grant_missing")}
  ELSE IF ~readable THEN {AtDoor("grant_unreadable")}
  ELSE IF g.expires_at <= now THEN {AtDoor("grant_expired")}
  ELSE {}

admission(fx, g, readable, now) ==
  IF door(g, readable, now) # {} THEN door(g, readable, now)
  ELSE form_violations(fx) \cup method_violations(fx) \cup native_violations(fx, g)
       \cup receiver_violations(fx, g) \cup move_violations(fx, g)

\* Mutant: the rule answers ahead of the shape of the call.
own_first(fx) ==
  {OnRung(i, 0, "own_collection_refused") : i \in {i \in fx.call_promises : fx.receivers[i] = Collection}}

check_own_collection(fx) ==
  {OnRung(i, 4, "own_collection_refused") : i \in {i \in fx.call_promises : fx.receivers[i] = Collection}}

check_reserve(fx, bal, floor) ==
  IF saturating_sub(bal, fx.native_total) < floor
  THEN {Violation(0, "Reserve", 0, "insufficient_vs_reserve")} ELSE {}

answers_alone(violations) == \E v \in violations : v.stage = "Door"

\* Mutant: the reserve carries no promise index, and sorts as none would.
none_sorts_first(v) ==
  CASE v.stage = "Door"    -> <<0, 0>>
    [] v.stage = "Promise" -> <<v.promise_index, v.rung>>
    [] OTHER               -> <<0, 255>>

\* The sort key: the door first, then promises in order and rungs within one,
\* the reserve last.
order_key(v) ==
  CASE v.stage = "Door"    -> <<0, 0>>
    [] v.stage = "Promise" -> <<v.promise_index, v.rung>>
    [] OTHER               -> <<Len(request) + 1, 255>>

Before(a, b) == a[1] < b[1] \/ (a[1] = b[1] /\ a[2] < b[2])

\* What the caller is told: the first of the sorted list. Rules on one rung of
\* one promise keep the order they were emitted in, so any of them may be it.
Firsts(violations) == {v \in violations : \A w \in violations : ~Before(order_key(w), order_key(v))}

whole_verdict(fx, admitted) ==
  IF answers_alone(admitted) THEN admitted
  ELSE admitted
       \cup (IF "collection" \in seen THEN check_own_collection(fx) ELSE {})
       \cup (IF "balance" \in seen THEN check_reserve(fx, balance, reserve) ELSE {})

-----------------------------------------------------------------------------
(* The contract (external).                                                *)

NoPanic == AtDoor("executed")

\* The grant and its expiry are read once, before any promise is charged.
charge_door ==
  IF grant = NoGrant THEN {AtDoor("grant_missing")}
  ELSE IF Now >= grant.expires_at THEN {AtDoor("grant_expired")} ELSE {}

\* The rule charge_transfer trips on, or none: the ladder of a promise without
\* a call, given what was charged before it.
charge_transfer(i) ==
  LET p == request[i] IN
  IF p.refund_to # NoAccount THEN {OnRung(i, 1, "refund_target_not_allowed")}
  ELSE IF p.receiver_id \notin grant.receivers THEN {OnRung(i, 2, "receiver_not_granted")}
  ELSE IF \E j \in DOMAIN p.actions : p.actions[j].action # "transfer"
       THEN {OnRung(i, 3, "grant_action_not_allowed")}
  ELSE IF meters.native + AttachedNative(p) > grant.budget THEN {OnRung(i, 4, "grant_exhausted")}
  ELSE {}

\* The rule a readable token call trips on: its recipient, then the token and
\* its budget, or the collection and its fence.
charge_move(i, c) ==
  LET token == request[i].receiver_id IN
  IF c.args.to \notin grant.receivers THEN {OnRung(i, 8, "receiver_not_granted")}
  ELSE IF c.method = "ft_transfer" THEN
    IF token \notin DOMAIN grant.tokens THEN {OnRung(i, 9, "token_not_granted")}
    ELSE IF meters.tokens[token] + c.args.units > grant.tokens[token].budget
         THEN {OnRung(i, 10, "token_budget_exceeded")} ELSE {}
  ELSE
    IF token \notin DOMAIN grant.items THEN {OnRung(i, 9, "collection_not_granted")}
    ELSE IF c.args.item \notin grant.items[token] THEN {OnRung(i, 10, "item_not_granted")} ELSE {}

\* The ladder of a promise that carries a call.
charge_token_call(i) ==
  LET p == request[i]
      c == p.actions[CHOOSE j \in DOMAIN p.actions : p.actions[j].action = "function_call"]
  IN
  IF p.refund_to # NoAccount THEN {OnRung(i, 1, "refund_target_not_allowed")}
  ELSE IF Len(p.actions) > 1 THEN {OnRung(i, 2, "grant_call_must_stand_alone")}
  ELSE IF c.amount # 1 THEN {OnRung(i, 3, "grant_call_deposit")}
  ELSE IF p.receiver_id = Collection THEN {OnRung(i, 4, "own_collection_refused")}
  ELSE IF c.method \notin {"ft_transfer", "nft_transfer"} THEN {OnRung(i, 5, "grant_method_not_allowed")}
  ELSE IF c.args.readable = "no" \/ (c.args.readable = "yes" /\ c.args.extra = "unknown field")
       THEN {OnRung(i, 6, "grant_args_unreadable")}
  ELSE IF c.method = "nft_transfer" /\ c.args.approval_id = "set"
       THEN {OnRung(i, 7, "grant_approval_not_allowed")}
  ELSE charge_move(i, c)

CarriesCall(i) == \E j \in DOMAIN request[i].actions : request[i].actions[j].action = "function_call"
charge_promise(i) == IF CarriesCall(i) THEN charge_token_call(i) ELSE charge_transfer(i)

\* The meters after promise i was charged: the yocto of a token call is no spend.
Charge(i) ==
  LET p == request[i] IN
  IF ~CarriesCall(i) THEN [meters EXCEPT !.native = @ + AttachedNative(p)]
  ELSE IF p.actions[1].method = "ft_transfer"
       THEN [meters EXCEPT !.tokens[p.receiver_id] = @ + p.actions[1].args.units]
  ELSE meters

-----------------------------------------------------------------------------

Init ==
  /\ \E c \in Cases :
       request = c.request /\ grant = c.grant /\ balance = c.balance /\ reserve = c.reserve
  /\ seen \in SUBSET {"grant", "collection", "balance"}
  /\ pc = "preflight" /\ verdict = {} /\ at = 1 /\ elsewhere = 0 /\ panic = NoPanic
  /\ meters = IF grant = NoGrant THEN [native |-> 0, tokens |-> <<>>]
              ELSE [native |-> grant.spent, tokens |-> [t \in DOMAIN grant.tokens |-> grant.tokens[t].spent]]

\* The pre-flight, and then the chain's answer to the same request, which is
\* what the pre-flight's is held against.
Preflight ==
  /\ pc = "preflight"
  /\ LET fx == effects(request) IN
     verdict' = whole_verdict(fx, admission(fx, grant, "grant" \in seen, Now))
  /\ pc' = "door"
  /\ UNCHANGED <<request, grant, balance, reserve, seen, at, meters, elsewhere, panic>>

\* Another caller's request goes first: the contract charges it to the same
\* grant, never past the budget, and the verdict above was of the old meters.
ChargeElsewhere ==
  /\ pc = "door" /\ charge_door = {}
  /\ \/ \E n \in Levels :
          /\ meters.native < n /\ n <= grant.budget
          /\ meters' = [meters EXCEPT !.native = n]
          /\ elsewhere' = n - grant.spent
     \/ \E t \in DOMAIN grant.tokens, n \in Levels :
          /\ meters.tokens[t] < n /\ n <= grant.tokens[t].budget
          /\ meters' = [meters EXCEPT !.tokens[t] = n]
          /\ UNCHANGED elsewhere
  /\ UNCHANGED <<request, grant, balance, reserve, seen, pc, verdict, at, panic>>

Panics(violations) ==
  /\ panic' \in violations
  /\ pc' = "done"
  /\ UNCHANGED <<at, meters>>

ChargeSpend ==
  /\ pc = "door"
  /\ \/ charge_door # {} /\ Panics(charge_door)
     \/ charge_door = {} /\ pc' = "charging" /\ UNCHANGED <<at, meters, panic>>
  /\ UNCHANGED <<request, grant, balance, reserve, seen, verdict, elsewhere>>

ChargePromise ==
  /\ pc = "charging" /\ at <= Len(request)
  /\ \/ charge_promise(at) # {} /\ Panics(charge_promise(at))
     \/ /\ charge_promise(at) = {}
        /\ meters' = Charge(at) /\ at' = at + 1
        /\ UNCHANGED <<pc, panic>>
  /\ UNCHANGED <<request, grant, balance, reserve, seen, verdict, elsewhere>>

\* What the promises attach, after each of them.
attached ==
  LET sum[i \in 0..Len(request)] == IF i = 0 THEN 0 ELSE sum[i - 1] + AttachedNative(request[i])
  IN  sum

\* The balance floor is asserted once every promise has been charged.
AssertWithinReserve ==
  /\ pc = "charging" /\ at > Len(request)
  /\ \/ /\ balance < attached[Len(request)] + reserve
        /\ Panics({Violation(0, "Reserve", 0, "insufficient_vs_reserve")})
     \/ /\ balance >= attached[Len(request)] + reserve
        /\ pc' = "done" /\ UNCHANGED <<at, meters, panic>>
  /\ UNCHANGED <<request, grant, balance, reserve, seen, verdict, elsewhere>>

Next == Preflight \/ ChargeElsewhere \/ ChargeSpend \/ ChargePromise \/ AssertWithinReserve

Spec == Init /\ [][Next]_vars

-----------------------------------------------------------------------------

\* Every view was read.
AllSeen == seen = {"grant", "collection", "balance"}

\* The budget the contract panics over was spent from after the view: a token's
\* by an earlier promise of the same request or by another caller, the native one
\* by another caller.
MeterCrossed ==
  \/ /\ panic.class = "token_budget_exceeded"
     /\ meters.tokens[request[at].receiver_id] # grant.tokens[request[at].receiver_id].spent
  \/ panic.class = "grant_exhausted" /\ elsewhere > 0

TypeOK ==
  /\ [request |-> request, grant |-> grant, balance |-> balance, reserve |-> reserve] \in Cases
  /\ seen \subseteq {"grant", "collection", "balance"}
  /\ pc \in {"preflight", "door", "charging", "done"}
  /\ at \in 1..(Len(request) + 1)
  /\ elsewhere \in 0..MaxU128
  /\ meters.native \in 0..MaxU128 /\ \A t \in DOMAIN meters.tokens : meters.tokens[t] \in 0..MaxU128
  /\ \A v \in verdict : v.promise_index \in 0..Len(request)

\* A request the contract executes is not refused, whichever of the collection
\* and the balance could not be read and whatever others spent since the view: "a
\* mirror that refuses too much stops requests the chain accepts"
\* (hos_contract_vectors.rs:260-261).
NoFalseRefusal ==
  pc = "done" /\ panic = NoPanic /\ "grant" \in seen => verdict = {}

\* When the contract panics and every view was read, what the caller is told is
\* the panic: its class, and the promise it is about. A refusal at the door is
\* told alone. (A budget spent from after the view is another matter.)
ToldThePanic ==
  pc = "done" /\ panic # NoPanic /\ AllSeen /\ ~MeterCrossed =>
    /\ verdict # {}
    /\ \A v \in Firsts(verdict) : v.class = panic.class /\ v.promise_index = panic.promise_index
    /\ panic.stage = "Door" => verdict = {panic}

\* A panic is never told as another rule's, nor passed over: the vectors' "where they should_panic, the class we
\* REPORT must be the one the panic maps to" (hos_contract_vectors.rs:18-20),
\* for a token's spend, which "accumulates across calls" (420).
ToldEveryPanic ==
  pc = "done" /\ panic # NoPanic /\ AllSeen =>
    \E v \in Firsts(verdict) : v.class = panic.class
=============================================================================
