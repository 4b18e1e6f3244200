---------------------------- MODULE MCPolicyFlow ----------------------------
EXTENDS PolicyBatch, TLC

CONSTANTS f1, f2, bob, Bob, stranger, self, usdc, intents, i1

MCEvm == bob :> 1 @@ Bob :> 1
MCTokens == {Native, usdc}

Ft(to, units) ==
  Promise(usdc, NoAccount, <<FunctionCall("ft_transfer", 1, Args(to, units, i1, "none", "none"))>>)
Nft(to) == Promise(usdc, NoAccount, <<FunctionCall("nft_transfer", 1, Args(to, 0, i1, "none", "none"))>>)
Register(account) ==
  Promise(usdc, NoAccount, <<FunctionCall("storage_deposit", 1, Args(account, 0, i1, "none", "none"))>>)
Pay(to, refund_to, amounts) == Promise(to, refund_to, amounts)
Account(kind, schema) == [kind |-> kind, schema |-> schema]
Leased == Account("hos_lease", 1)
Bound(account, claim, external) == Op("call", self, Absent, 1, Door(TRUE, FALSE, external, account, claim))
Extension(external) == Bound(Leased, Claim("hos_lease", 1), external)
Pays == <<Pay(bob, NoAccount, <<Transfer(1)>>)>>

Scalars == {
  Op("transfer", bob, Absent, 3, Absent),
  Op("transfer", Bob, Absent, 2, Absent),
  Op("transfer", stranger, Absent, 1, Absent),
  Op("transfer", bob, Absent, Unreadable, Absent),
  Op("withdraw", bob, usdc, 3, Absent),
  Op("intents_transfer", bob, usdc, 1, Absent),
  Op("swap", NoAccount, usdc, 1, Absent),
  Op("confidential", bob, usdc, 1, Absent),
  Op("cross_chain_withdraw", bob, usdc, 1, Absent),
  Op("payment_check", NoAccount, usdc, 2, Absent),
  Op("intents_storage_deposit", usdc, Absent, 1, Absent),
  Op("intents_storage_deposit", usdc, Absent, 2, Absent),
  Op("delete", stranger, Absent, Absent, Absent),
  Op("call", intents, Absent, 1, Method("ft_withdraw")),
  Op("call", intents, Absent, 1, Method("cross_chain_deposit")),
  Op("call", bob, Absent, 0, Method("ping")),
  Op("limit_order", bob, usdc, 1, "confidential_intents"),
  Op("limit_order", bob, usdc, 1, "intents"),
  Op("raw", NoAccount, Absent, Absent, "near"),
  Op("raw", NoAccount, Absent, Absent, "solana"),
  Op("sign_message", NoAccount, Absent, Absent, Absent),
  Op("evm_sign", NoAccount, Absent, Absent, "message"),
  Op("evm_sign", NoAccount, Absent, Absent, "raw_tx"),
  Op("solana_sign", NoAccount, Absent, Absent, "raw_tx"),
  Op("policy_update", NoAccount, Absent, Absent, Absent),
  Op("auth", NoAccount, Absent, Absent, "jwt"),
  Op("auth", NoAccount, Absent, Absent, "register") }

Doors == {
  Extension(<<Pay(bob, NoAccount, <<Transfer(2), Transfer(1)>>)>>),
  Extension(<<Pay(bob, NoAccount, <<Transfer(2)>>), Pay(bob, NoAccount, <<Transfer(2)>>)>>),
  Extension(<<Pay(bob, stranger, <<Transfer(1)>>)>>),
  Extension(<<Ft(bob, 2), Ft(bob, 2)>>),
  Extension(<<Ft(bob, 2), Pay(bob, NoAccount, <<Transfer(1)>>)>>),
  Extension(<<Ft(stranger, 1)>>),
  Extension(<<Nft(stranger)>>),
  Extension(<<Register(stranger)>>),
  Extension(<<Register(NoAccount)>>),
  Extension(<<Promise(usdc, NoAccount, <<FunctionCall("ft_transfer", 1, Garbled)>>)>>),
  Extension(<<Pay(intents, NoAccount, <<Transfer(1)>>)>>),
  Extension(<<>>),
  Op("call", self, Absent, 1, Door(TRUE, TRUE, <<>>, Leased, Claim("hos_lease", 1))),
  Op("call", self, Absent, 1, Door(FALSE, FALSE, <<>>, Leased, Claim("hos_lease", 1))) }

\* Jobs for an account that has moved on to another schema, queued before the
\* fields existed, or under a kind of another mode or of none.
Jobs == {
  Bound(Account("hos_lease", 2), Claim("hos_lease", 2), Pays),
  Bound(Account("hos_lease", 2), Claim(Unstated, 2), Pays),
  Bound(Account("hos_lease", 2), Claim(Unstated, Unstated), Pays),
  Bound(Account("personal_account", 1), Claim("personal_account", Unstated), Pays),
  Bound(Leased, Claim("delegation", 1), Pays) }
MCOps == Scalars \cup Doors \cup Jobs

Limits(per_tx, daily, hourly, hourly_tx) ==
  [per_transaction |-> per_tx, daily |-> daily, hourly |-> hourly, monthly |-> <<>>,
   hourly_tx_count |-> hourly_tx]
Policy(frozen, rules, capabilities, approval) ==
  [frozen |-> frozen, rules |-> rules, capabilities |-> capabilities, approval |-> approval]
Approval(threshold, locked, excluded_types) ==
  [threshold |-> threshold, approvers |-> Absent, locked |-> locked, excluded_types |-> excluded_types]

Metered == [NoRules EXCEPT
  !.limits = Limits(Native :> 4, Native :> 5 @@ usdc :> 6, AnyToken :> 5, Absent), !.max_per_hour = 2]
Strict == [NoRules EXCEPT
  !.transaction_types = {"transfer", "storage_deposit", "raw", "intents_withdraw"},
  !.allowed_tokens = {Native, usdc},
  !.addresses = [mode |-> Absent, list |-> {bob, self, usdc}],
  !.limits = Limits(AnyToken :> 3, <<>>, <<>>, 1)]

\* One policy per rule that the others do not exercise.
Open == Policy(FALSE, Metered, "raw_sign" :> Capability(TRUE, FALSE, Absent, FALSE) @@ "payment_check" :> Capability(TRUE, FALSE, Absent, FALSE)
                               @@ "intents_call" :> Capability(TRUE, FALSE, Absent, FALSE), Absent)
Stopped == Policy(TRUE, Metered, <<>>, Absent)
Guarded == Policy(FALSE, Strict, "sign_message" :> Capability(Absent, TRUE, Absent, FALSE)
                                 @@ "raw_sign" :> Capability(TRUE, FALSE, {"near", "solana"}, FALSE)
                                 @@ "swap" :> Capability(Absent, TRUE, Absent, FALSE),
                  Approval(Unreadable, TRUE, {"withdraw"}))
Ordering == Policy(FALSE, [NoRules EXCEPT !.addresses = [mode |-> "blacklist", list |-> {Bob}],
                     !.time_restrictions = [timezone |-> "UTC", allowed_hours |-> Absent, allowed_days |-> {4}]],
                   "limit_order" :> Capability(TRUE, FALSE, Absent, FALSE) @@ "confidential" :> Capability(TRUE, TRUE, Absent, FALSE),
                   Approval(1, FALSE, {"limit_order", "call"}))
Typo == Policy(FALSE, [NoRules EXCEPT !.addresses = [mode |-> Unreadable, list |-> {bob}]], <<>>, Absent)
Nights == Policy(FALSE, [NoRules EXCEPT !.time_restrictions =
                   [timezone |-> Absent, allowed_hours |-> <<22, 0>>, allowed_days |-> {4, 5}],
                   !.limits = Limits(<<>>, usdc :> 3, <<>>, 1), !.max_per_hour = 5],
                 "evm_sign" :> Capability(TRUE, FALSE, Absent, FALSE) @@ "solana_sign" :> Capability(TRUE, FALSE, Absent, TRUE)
                 @@ "swap" :> Capability(TRUE, FALSE, Absent, FALSE), Absent)
Decimal == Policy(FALSE, [NoRules EXCEPT !.limits = Limits(Native :> Unreadable, <<>>, <<>>, Absent)],
                  "sign_message" :> Capability(FALSE, FALSE, Absent, FALSE)
                  @@ "evm_sign" :> Capability(TRUE, TRUE, Absent, TRUE), Absent)

\* The second request spends, so that the two overlap or follow on each other
\* under the caps: amounts whole, split and nested.
MCSpends == {
  Op("transfer", bob, Absent, 3, Absent), Op("payment_check", NoAccount, usdc, 2, Absent),
  Extension(<<Pay(bob, NoAccount, <<Transfer(2)>>), Pay(bob, NoAccount, <<Transfer(1)>>)>>),
  Extension(<<Ft(bob, 2), Ft(bob, 2)>>) }
MCAsks == f1 :> MCOps @@ f2 :> MCSpends
MCPolicies == {Open, Stopped, Guarded, Ordering, Typo, Nights, Decimal}
=============================================================================
