---------------------------- MODULE PolicyEngine ----------------------------
(***************************************************************************)
(* The wallet policy engine (wallet_policy.rs): what a policy says of an   *)
(* operation. The coordinator evaluates it with the spend counters it read *)
(* and the keystore without them; the rules are the same ones, asked in    *)
(* the same order, and the first that has something to say decides.        *)
(*                                                                         *)
(* A rule is an operator that returns the set of what it says: nothing, or *)
(* one decision. The wording of a refusal is its rule's name.              *)
(***************************************************************************)
EXTENDS Effects, FiniteSetsExt

CONSTANTS
  Absent,       \* an optional field of a policy, or of an operation, that is not there
  Unreadable,   \* an amount, a limit or a word that does not parse
  Native,       \* the token "native"
  Wnear,        \* INTENTS_WNEAR_TOKEN
  AnyToken,          \* the wildcard "*"
  IntentsContracts,  \* INTENTS_CONTRACTS
  Evm,          \* the twenty bytes of each account spelled as an EVM address
  DepositMax    \* INTENTS_STORAGE_DEPOSIT_MAX

ASSUME TokensAssumption == Native # AnyToken /\ Wnear # Native /\ NoAccount \notin DOMAIN Evm

Windows == {"daily", "hourly", "monthly"}

Allow == [decision |-> "allow"]
Frozen == [decision |-> "frozen"]
Deny(rule) == [decision |-> "deny", rule |-> rule]
RequiresApproval(threshold) == [decision |-> "requires_approval", threshold |-> threshold]

-----------------------------------------------------------------------------
(* Operations.                                                             *)

\* Every kind has the fields that apply to it: to, token, amount, and what its
\* capability reads in detail (a chain, a purpose, a method and its arguments).
Op(kind, to, token, amount, detail) ==
  [kind |-> kind, to |-> to, token |-> token, amount |-> amount, detail |-> detail]

\* The arguments of a w_execute_extension call; beside them, the bound account's
\* kind and the schema it speaks, and what the job claims of it.
Door(decodes, internal, external, account, claim) ==
  [method |-> "w_execute_extension", decodes |-> decodes, internal |-> internal, external |-> external,
   account |-> account, claim |-> claim]
Method(method) == [method |-> method]

NearKinds == {"transfer", "call", "delete"}
TokenKinds == {"withdraw", "intents_transfer", "confidential", "cross_chain_withdraw", "limit_order",
               "payment_check", "swap"}
\* A signature by the wallet's key of another chain.
ChainKinds == {"evm_sign", "solana_sign"}
UnpricedKinds == {"delete", "raw", "sign_message", "auth", "policy_update"}
UndirectedKinds == {"swap", "raw", "sign_message", "auth", "payment_check", "policy_update"}
\* The kinds the approval threshold asks about.
FundMovingKinds == NearKinds \cup TokenKinds \cup {"intents_storage_deposit"}

type_aliases(op) ==
  CASE op.kind = "withdraw" -> {"withdraw", "intents_withdraw"}
    [] op.kind = "swap"     -> {"swap", "intents_swap"}
    [] OTHER                -> {op.kind}

token_of(op) ==
  CASE op.kind \in TokenKinds                  -> op.token
    [] op.kind = "intents_storage_deposit"     -> Wnear
    [] OTHER                                   -> Native

amount_of(op) == IF op.kind \in UnpricedKinds THEN Absent ELSE op.amount
destination(op) == IF op.kind \in UndirectedKinds THEN NoAccount ELSE op.to

IsDoor(op) == op.kind = "call" /\ op.detail.method = "w_execute_extension"

\* How the keystore comes to what it signs: built from the operation, matched with
\* a hash in it, or taken from whoever made it.
bind_mode(op) ==
  CASE op.kind \in NearKinds \cup {"withdraw", "intents_transfer", "intents_storage_deposit", "auth"} -> "built"
    [] op.kind \in {"raw", "sign_message"}                                       -> "hash_pinned"
    [] op.kind \in TokenKinds \ {"withdraw", "intents_transfer"}                 -> "trusted"
    [] op.kind = "policy_update"                                                 -> "policy_update"

\* What an intents storage deposit may pay; both sides ask it beside the policy.
intents_storage_deposit_amount(op) ==
  op.kind = "intents_storage_deposit" => op.amount # Unreadable /\ op.amount \in 1..DepositMax

\* What kind of place a limit order pays out to.
RecipientTypes == {"intents", "confidential_intents", "destination_chain"}

survives_a_freeze(op) == op.kind = "auth" /\ op.detail = "jwt"

-----------------------------------------------------------------------------
(* The schema of a policy. A field that is not written is Absent, a map that *)
(* is not written is empty, rules that are not written are NoRules.        *)

IsAmount(a) == a = Unreadable \/ a \in 0..MaxU128
IsCount(c) == c = Absent \/ c \in Int

IsAddresses(a) ==
  /\ DOMAIN a = {"mode", "list"}
  /\ a.mode \in {Absent, "whitelist", "blacklist", "none", Unreadable} /\ NoAccount \notin a.list

IsLimits(l) ==
  /\ DOMAIN l = Windows \cup {"per_transaction", "hourly_tx_count"}
  /\ \A w \in Windows \cup {"per_transaction"} : \A t \in DOMAIN l[w] : IsAmount(l[w][t])
  /\ IsCount(l.hourly_tx_count)

\* Hours are a pair of u32 read as they come, days are numbered from Monday.
IsTimeRestrictions(tr) ==
  /\ DOMAIN tr = {"timezone", "allowed_hours", "allowed_days"}
  /\ tr.timezone = Absent \/ tr.timezone \in STRING
  /\ tr.allowed_hours = Absent \/ tr.allowed_hours \in Seq(Nat)
  /\ tr.allowed_days = Absent \/ tr.allowed_days \subseteq Nat

\* The rate limit is its one field, max_per_hour.
IsRules(r) ==
  /\ DOMAIN r = {"transaction_types", "allowed_tokens", "addresses", "limits", "max_per_hour", "time_restrictions"}
  /\ r.transaction_types = Absent \/ r.transaction_types \subseteq STRING
  /\ r.addresses = Absent \/ IsAddresses(r.addresses)
  /\ r.limits = Absent \/ IsLimits(r.limits)
  /\ IsCount(r.max_per_hour)
  /\ r.time_restrictions = Absent \/ IsTimeRestrictions(r.time_restrictions)

NoRules == [transaction_types |-> Absent, allowed_tokens |-> Absent, addresses |-> Absent, limits |-> Absent,
            max_per_hour |-> Absent, time_restrictions |-> Absent]

IsApprover(e) == DOMAIN e = {"id", "pubkey"}

IsApproval(a) ==
  /\ DOMAIN a = {"threshold", "approvers", "locked", "excluded_types"}
  /\ a.threshold \in {Absent, Unreadable} \/ a.threshold \in Int
  /\ a.approvers = Absent \/ \A e \in a.approvers : IsApprover(e)
  /\ a.locked \in BOOLEAN /\ a.excluded_types \subseteq STRING

CapabilityNames == {"raw_sign", "confidential", "sign_message", "payment_check", "swap", "cross_chain_withdraw",
                    "limit_order", "evm_sign", "solana_sign", "intents_call"}

Capability(allowed, requires_approval, chains, raw_tx) ==
  [allowed |-> allowed, requires_approval |-> requires_approval, chains |-> chains, raw_tx |-> raw_tx]

IsCapability(c) ==
  /\ DOMAIN c = {"allowed", "requires_approval", "chains", "raw_tx"}
  /\ c.allowed \in {TRUE, FALSE, Absent} /\ c.requires_approval \in BOOLEAN /\ c.raw_tx \in BOOLEAN
  /\ c.chains = Absent \/ c.chains \subseteq STRING

IsPolicy(p) ==
  /\ DOMAIN p = {"frozen", "rules", "approval", "capabilities"}
  /\ p.frozen \in BOOLEAN /\ IsRules(p.rules)
  /\ p.approval = Absent \/ IsApproval(p.approval)
  /\ DOMAIN p.capabilities \subseteq CapabilityNames
  /\ \A name \in DOMAIN p.capabilities : IsCapability(p.capabilities[name])

IsOp(op) ==
  /\ DOMAIN op = {"kind", "to", "token", "amount", "detail"}
  /\ op.kind \in FundMovingKinds \cup UnpricedKinds \cup ChainKinds
  /\ op.amount = Absent \/ IsAmount(op.amount)
  /\ op.kind = "limit_order" => op.detail \in RecipientTypes
  /\ op.kind \in ChainKinds => op.detail \in {"message", "raw_tx"}
  /\ IsDoor(op) => IsRequest(op.detail.external)

-----------------------------------------------------------------------------
(* Reading the rules.                                                      *)

\* Two spellings of an EVM address are one address; nothing else is folded.
same_address(listed, dest) ==
  IF {listed, dest} \subseteq DOMAIN Evm THEN Evm[listed] = Evm[dest] ELSE listed = dest

Listed(addresses, dest) == \E a \in addresses.list : same_address(a, dest)

address_mode(addresses) == IF addresses.mode = Absent THEN "whitelist" ELSE addresses.mode

Permitted(addresses, dest) ==
  CASE address_mode(addresses) = "whitelist" -> Listed(addresses, dest)
    [] address_mode(addresses) = "blacklist" -> ~Listed(addresses, dest)
    [] OTHER                                 -> TRUE

\* The deposit family of older policies is one type.
normalize_policy_type(t) ==
  IF t \in {"intents_deposit", "storage_deposit", "cross_chain_deposit"} THEN "call" ELSE t

\* A token's own limit, or the wildcard's, if it parses.
lookup_limit(limits, token) ==
  LET key == IF token \in DOMAIN limits THEN token ELSE AnyToken IN
  IF key \in DOMAIN limits /\ limits[key] # Unreadable THEN {limits[key]} ELSE {}

\* Mutant: a threshold that names no number asks for no vote.
no_default(threshold) == IF threshold = Unreadable THEN 0 ELSE threshold

\* The approvals a threshold asks for, two when it names no number.
required(threshold) == IF threshold = Unreadable THEN 2 ELSE threshold

-----------------------------------------------------------------------------
(* The counters.                                                           *)

\* A window that is left out, or is no object, reads as one with no cells.
parse_map(document, w) == IF document[w] = Absent THEN <<>> ELSE document[w]

\* Usage read from what the coordinator stored (from_current_usage): a cell
\* that does not parse is recorded as unreadable, and a value that names no
\* window is no usage document at all.
from_current_usage(document) ==
  IF document = Absent
  THEN [all_unreadable |-> TRUE, unreadable |-> {}, spent |-> [w \in Windows |-> <<>>], hourly_tx_count |-> 0]
  ELSE LET cells(w) == parse_map(document, w)
           unread(w) == {t \in DOMAIN cells(w) : cells(w)[t] = Unreadable}
       IN
       [all_unreadable |-> FALSE,
        unreadable |-> UNION {{w} \X unread(w) : w \in Windows},
        spent |-> [w \in Windows |-> [t \in DOMAIN cells(w) \ unread(w) |-> cells(w)[t]]],
        hourly_tx_count |-> IF document.hourly_tx_count = Absent THEN 0 ELSE document.hourly_tx_count]

Spent(usage, w, token) == IF token \in DOMAIN usage.spent[w] THEN usage.spent[w][token] ELSE 0

\* Mutant: a counter that could not be read is one nothing was spent on.
NothingSpent(usage, w, token) == FALSE

counter_unreadable(usage, w, token) == usage.all_unreadable \/ <<w, token>> \in usage.unreadable

\* A window's cap on what the operation moves of a token, if the policy sets
\* one, refuses a spend that crosses it and a counter it cannot be held to.
Velocity(limits, usage, token, amount) ==
  {Deny("velocity") : w \in {w \in Windows : \E limit \in lookup_limit(limits[w], token) :
     \/ counter_unreadable(usage, w, token)
     \/ saturating_add(Spent(usage, w, token), amount) > limit}}

-----------------------------------------------------------------------------
(* The extension door.                                                     *)

\* What the decoded request moves of a token, over all its promises.
token_total(fx, token) ==
  LET moves == {m \in fx.token_moves : m.token = token /\ m.method = "ft_transfer"}
  IN  Capped(SumFunction([m \in moves |-> m.units]))

MovedTokens(fx) == {m.token : m \in {m \in fx.token_moves : m.method = "ft_transfer"}}

\* Mutant: a refund destination is not a destination.
ReceiversOnly(fx) == {fx.receivers[i] : i \in DOMAIN fx.receivers}

\* Every account the request touches.
touched(fx) ==
  {fx.receivers[i] : i \in DOMAIN fx.receivers} \cup fx.refund_tos
  \cup {m.recipient : m \in fx.token_moves}
  \cup ({s.account : s \in fx.storage_registrations} \ {NoAccount})

\* The decoded effects held against the rules.
effects_refused(rules, fx, usage) ==
  LET addresses == rules.addresses  tokens == rules.allowed_tokens  limits == rules.limits
      Over(token, total) ==
        \/ \E limit \in lookup_limit(limits.per_transaction, token) : total > limit
        \/ usage # Absent /\ Velocity(limits, usage, token, total) # {}
  IN
  \/ fx.unknown_fund_moving # {}
  \/ /\ addresses # Absent
     /\ \/ address_mode(addresses) = Unreadable
        \/ \E dest \in touched(fx) : ~Permitted(addresses, dest)
  \/ /\ tokens # Absent /\ AnyToken \notin tokens
     /\ \E m \in fx.token_moves : m.token \notin tokens
  \/ /\ limits # Absent
     /\ \/ fx.native_total > 0 /\ Over(Native, fx.native_total)
        \/ \E t \in MovedTokens(fx) : Over(t, token_total(fx, t))

\* Account control and what cannot be decoded are refused whatever the rules.
evaluate_extension_call(rules, op, usage) ==
  IF ~IsDoor(op) THEN {}
  ELSE IF ~op.detail.decodes \/ op.detail.internal THEN {Deny("extension")}
  ELSE IF effects_refused(rules, effects(op.detail.external), usage) THEN {Deny("extension")}
  ELSE {}

extension_reaches_intents(op) ==
  /\ IsDoor(op) /\ op.detail.decodes
  /\ \E i \in DOMAIN op.detail.external : op.detail.external[i].receiver_id \in IntentsContracts

-----------------------------------------------------------------------------
(* The rules, in the order evaluate_section asks them.                     *)

Locked(policy) == policy.approval # Absent /\ policy.approval.locked

\* The spellings that compare equal to near when case is folded, and those that
\* do when they are trimmed as well.
FoldsToNear == {"near", "NEAR"}
TrimsToNear == FoldsToNear \cup {" near"}

\* A policy update is voted on, never signed; under a lock no raw signature by
\* the NEAR key.
never_signed(policy, op) ==
  IF op.kind = "policy_update" \/ (Locked(policy) /\ op.kind = "raw" /\ op.detail \in FoldsToNear)
  THEN {Deny("never_signed")} ELSE {}

freeze(policy, op) ==
  IF ~policy.frozen THEN {} ELSE IF survives_a_freeze(op) THEN {Allow} ELSE {Frozen}

identity(op) == IF op.kind = "auth" THEN {Allow} ELSE {}

\* One limit anywhere that does not parse refuses every operation with an amount.
unreadable_limit(rules, op) ==
  IF /\ amount_of(op) # Absent /\ rules.limits # Absent
     /\ \E w \in Windows \cup {"per_transaction"} : \E t \in DOMAIN rules.limits[w] :
          rules.limits[w][t] = Unreadable
  THEN {Deny("unreadable_limit")} ELSE {}

transaction_types(rules, op) ==
  IF /\ rules.transaction_types # Absent /\ op.kind # "sign_message"
     /\ \A t \in rules.transaction_types : normalize_policy_type(t) \notin type_aliases(op)
  THEN {Deny("transaction_types")} ELSE {}

allowed_tokens(rules, op) ==
  IF /\ rules.allowed_tokens # Absent /\ op.kind # "sign_message"
     /\ {AnyToken, token_of(op)} \cap rules.allowed_tokens = {}
  THEN {Deny("allowed_tokens")} ELSE {}

addresses_rule(rules, op) ==
  IF /\ rules.addresses # Absent /\ destination(op) # NoAccount
     /\ address_mode(rules.addresses) = Unreadable \/ ~Permitted(rules.addresses, destination(op))
  THEN {Deny("addresses")} ELSE {}

invalid_amount(op) == IF amount_of(op) = Unreadable THEN {Deny("amount")} ELSE {}

per_transaction(rules, op) ==
  IF /\ rules.limits # Absent /\ amount_of(op) \notin {Absent, Unreadable}
     /\ \E limit \in lookup_limit(rules.limits.per_transaction, token_of(op)) : amount_of(op) > limit
  THEN {Deny("per_transaction")} ELSE {}

\* The stateful rules, asked only of a caller that read the counters.
velocity(rules, op, usage) ==
  IF usage = Absent \/ rules.limits = Absent \/ amount_of(op) \in {Absent, Unreadable} THEN {}
  ELSE Velocity(rules.limits, usage, token_of(op), amount_of(op))

\* The stricter of the two places the cap may be written at.
count_cap(rules) ==
  ({rules.max_per_hour} \cup (IF rules.limits = Absent THEN {} ELSE {rules.limits.hourly_tx_count})) \ {Absent}

\* Mutant: the rate limit is asked of a caller that has no counters.
rate_of_nobody(rules, usage) ==
  IF /\ count_cap(rules) # {}
     /\ usage = Absent \/ usage.all_unreadable \/ usage.hourly_tx_count >= Min(count_cap(rules))
  THEN {Deny("hourly_tx_count")} ELSE {}

\* Mutant: the request that reaches the cap is let through.
one_more(rules, usage) ==
  IF /\ usage # Absent /\ count_cap(rules) # {}
     /\ usage.all_unreadable \/ usage.hourly_tx_count > Min(count_cap(rules))
  THEN {Deny("hourly_tx_count")} ELSE {}

hourly_tx_count(rules, usage) ==
  IF /\ usage # Absent /\ count_cap(rules) # {}
     /\ usage.all_unreadable \/ usage.hourly_tx_count >= Min(count_cap(rules))
  THEN {Deny("hourly_tx_count")} ELSE {}

\* Days are numbered from Monday; the epoch fell on a Thursday.
check_time_restrictions(tr, now_unix) ==
  LET hour == (now_unix % 86400) \div 3600
      weekday == (((now_unix \div 86400) + 3) % 7) + 1
      in_range(s, e) == IF s <= e THEN hour >= s /\ hour < e ELSE hour >= s \/ hour < e
  IN
  IF tr = Absent THEN {}
  ELSE IF \/ tr.timezone \notin {Absent, "UTC"}
          \/ /\ tr.allowed_hours # Absent
             /\ \/ Len(tr.allowed_hours) # 2 \/ \E i \in DOMAIN tr.allowed_hours : tr.allowed_hours[i] >= 24
                \/ ~in_range(tr.allowed_hours[1], tr.allowed_hours[2])
          \/ tr.allowed_days # Absent /\ weekday \notin tr.allowed_days
  THEN {Deny("time_restrictions")} ELSE {}

-----------------------------------------------------------------------------
(* Capabilities.                                                           *)

\* The capability of a policy, with what an unwritten one allows.
CapabilityOf(policy, name, default) ==
  LET written == name \in DOMAIN policy.capabilities
      cap == policy.capabilities[name]
  IN  IF ~written THEN Capability(default, FALSE, Absent, FALSE)
      ELSE [cap EXCEPT !.allowed = IF @ = Absent THEN default ELSE @]

approval_demand(policy) ==
  IF policy.approval = Absent \/ policy.approval.threshold = Absent THEN Deny("approval")
  ELSE RequiresApproval(required(policy.approval.threshold))

\* A capability by its name: refused unless allowed, then its own demand.
Gate(policy, name, default) ==
  LET cap == CapabilityOf(policy, name, default) IN
  IF ~cap.allowed THEN {Deny("capabilities")}
  ELSE IF cap.requires_approval THEN {approval_demand(policy)} ELSE {}

\* Raw signing on near only when near is named; elsewhere an absent list is open.
raw_chain_refused(policy, chain) ==
  LET chains == CapabilityOf(policy, "raw_sign", FALSE).chains IN
  IF chains = Absent THEN chain \in TrimsToNear ELSE chain \notin chains

\* A limit order that pays out onto the confidential shard answers to that
\* capability first: its refusal stands, and so does its demand unless the
\* order's own capability refuses or demands.
limit_order_gate(policy, op) ==
  LET shard == IF op.detail = "confidential_intents" THEN Gate(policy, "confidential", FALSE) ELSE {}
      own == Gate(policy, "limit_order", FALSE)
  IN  IF \E d \in shard : d.decision = "deny" THEN shard
      ELSE IF own # {} THEN own ELSE shard

\* Calls to the intents contract, but for what is only ever asked about.
is_fenced_intents_call(to, method) == to \in IntentsContracts /\ method # "cross_chain_deposit"

\* Mutant: a swap answers to the transaction types alone.
swap_by_type(policy, op) ==
  CASE op.kind = "raw" ->
         IF /\ CapabilityOf(policy, "raw_sign", FALSE).allowed
            /\ raw_chain_refused(policy, op.detail)
         THEN {Deny("capabilities")} ELSE Gate(policy, "raw_sign", FALSE)
    [] op.kind \in {"confidential", "payment_check", "cross_chain_withdraw"} -> Gate(policy, op.kind, FALSE)
    [] OTHER -> {}

check_capabilities(policy, op) ==
  CASE op.kind = "raw" ->
         IF /\ CapabilityOf(policy, "raw_sign", FALSE).allowed
            /\ raw_chain_refused(policy, op.detail)
         THEN {Deny("capabilities")} ELSE Gate(policy, "raw_sign", FALSE)
    [] op.kind \in {"confidential", "payment_check", "swap", "cross_chain_withdraw"} ->
         Gate(policy, op.kind, FALSE)
    [] op.kind = "sign_message" -> Gate(policy, "sign_message", TRUE)
    [] op.kind = "limit_order" -> limit_order_gate(policy, op)
    [] \/ op.kind = "call" /\ is_fenced_intents_call(op.to, op.detail.method)
       \/ extension_reaches_intents(op) -> Gate(policy, "intents_call", FALSE)
    [] OTHER -> {}

generic_approval(policy, op) ==
  IF /\ op.kind \in FundMovingKinds
     /\ policy.approval # Absent /\ policy.approval.threshold # Absent
     /\ policy.approval.excluded_types \cap type_aliases(op) = {}
  THEN {RequiresApproval(required(policy.approval.threshold))} ELSE {}

evaluate_section(policy, op, usage, now_unix) ==
  <<never_signed(policy, op), freeze(policy, op), identity(op), unreadable_limit(policy.rules, op),
    evaluate_extension_call(policy.rules, op, usage), transaction_types(policy.rules, op),
    allowed_tokens(policy.rules, op), addresses_rule(policy.rules, op), invalid_amount(op),
    per_transaction(policy.rules, op), velocity(policy.rules, op, usage),
    hourly_tx_count(policy.rules, usage), check_time_restrictions(policy.rules.time_restrictions, now_unix),
    check_capabilities(policy, op), generic_approval(policy, op)>>

\* The first rule with something to say decides; when none has, the operation is
\* allowed.
evaluate(policy, op, usage, now_unix) ==
  LET said == evaluate_section(policy, op, usage, now_unix)
      speaks == {i \in DOMAIN said : said[i] # {}}
  IN  IF speaks = {} THEN Allow ELSE CHOOSE d \in said[Min(speaks)] : TRUE

\* Signing for another chain, message or raw transaction: no rule of the ladder
\* but the freeze and the clock, then a capability that has to be written, never
\* with an approval demand. A wallet without a policy is unrestricted.
chain_sign_decision(policy, cap_name, want_raw_tx, now_unix) ==
  LET cap == CapabilityOf(policy, cap_name, FALSE) IN
  IF policy = Absent THEN Allow
  ELSE IF policy.frozen THEN Frozen
  ELSE IF check_time_restrictions(policy.rules.time_restrictions, now_unix) # {} THEN Deny("time_restrictions")
  ELSE IF ~cap.allowed \/ cap.requires_approval \/ (want_raw_tx /\ ~cap.raw_tx) THEN Deny("capabilities")
  ELSE Allow

\* What either side says of a request: chain signatures never reach the ladder.
judged(policy, op, usage, now_unix) ==
  IF op.kind \in ChainKinds THEN chain_sign_decision(policy, op.kind, op.detail = "raw_tx", now_unix)
  ELSE evaluate(policy, op, usage, now_unix)
=============================================================================
