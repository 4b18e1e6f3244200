--------------------------- MODULE GoldenVectors ----------------------------
(***************************************************************************)
(* The golden vectors (hos_contract_vectors.rs): cases of the house-of-    *)
(* stake wallet's own test suite, each with the class its panic maps to.   *)
(* They are the contract's word, where GrantMirror's charge is a reading   *)
(* of it: every vector is a case of the run, and both the pre-flight and   *)
(* the modelled contract must answer it as the vector does.                *)
(*                                                                         *)
(* Amounts keep the fixtures' proportions: a yoctoNEAR is 1, a millinear   *)
(* 10. A vector that breaks one rule has one class, its subcode if it has  *)
(* one.                                                                    *)
(***************************************************************************)
EXTENDS GrantMirror, TLC

CONSTANTS
  carol, attacker, stranger,       \* the granted receiver, and two that are not
  usdc, usdt, art, other,          \* tokens and item collections
  item_1041, item_1055, item_9000, a_name

Milli == 10
NEAR == 1000 * Milli
RENTER_BUFFER == 5 * Milli

-----------------------------------------------------------------------------
(* The fixtures.                                                           *)

ft_args(to, amount) == Args(to, amount, a_name, "none", "none")
nft_args(to, item) == Args(to, 0, item, "none", "none")
call(receiver, method, deposit, args) ==
  Promise(receiver, NoAccount, <<FunctionCall(method, deposit, args)>>)

ft_transfer(token, to, amount) == call(token, "ft_transfer", 1, ft_args(to, amount))
nft_transfer(collection, to, item) == call(collection, "nft_transfer", 1, nft_args(to, item))
send(to, yocto) == Promise(to, NoAccount, <<Transfer(yocto)>>)
redirected(to, refund_to, yocto) == Promise(to, refund_to, <<Transfer(yocto)>>)

\* A grant to carol that covers nothing, and those the tests build from it.
Default == [receivers |-> {carol}, budget |-> 0, spent |-> 0, tokens |-> <<>>, items |-> <<>>,
            expires_at |-> Now + 1]
Budget(yocto) == [Default EXCEPT !.budget = yocto]
Token(token, budget, spent) == [Default EXCEPT !.tokens = token :> [budget |-> budget, spent |-> spent]]
Items(collection, items) == [Default EXCEPT !.items = collection :> items]

\* What the account's views answer in a fixture: ten NEAR, and no floor unless
\* the test is about it.
Holding(g, held, floor) == [grant |-> g, balance |-> held, reserve |-> floor]
Case(promises, account) ==
  [request |-> promises, grant |-> account.grant, balance |-> account.balance, reserve |-> account.reserve]

\* A vector: the case, the classes the caller may be told (none if the request is
\* accepted), the promise the refusal must name (0 if the test does not say) and
\* classes the verdict must list besides.
Vector(promises, account, told, about, listed) ==
  [case |-> Case(promises, account), told |-> told, about |-> about, listed |-> listed]
Of(g) == Holding(g, 10 * NEAR, 0)
accepted(promises, g) == Vector(promises, Of(g), {}, 0, {})
refused_as(promises, g, class) == Vector(promises, Of(g), {class}, 0, {})

-----------------------------------------------------------------------------
(* The vectors, by the sections of the suite.                              *)

GrantVectors == {
  refused_as(<<send(carol, Milli)>>, NoGrant, "grant_missing"),
  refused_as(<<nft_transfer(Collection, carol, a_name)>>, NoGrant, "grant_missing"),
  accepted(<<send(carol, Milli)>>, Budget(10 * Milli)),
  refused_as(<<send(attacker, Milli)>>, Budget(10 * Milli), "receiver_not_granted"),
  refused_as(<<redirected(carol, attacker, Milli)>>, Budget(10 * Milli), "refund_target_not_allowed"),
  refused_as(<<send(carol, 2 * Milli)>>, Budget(Milli), "grant_exhausted"),
  refused_as(<<send(carol, Milli)>>, [Budget(10 * Milli) EXCEPT !.expires_at = Now - 1], "grant_expired") }

TokenVectors ==
  LET capped == Token(usdc, 100, 0)  raised == Token(usdc, 200, 60) IN {
  refused_as(<<ft_transfer(usdt, carol, 1)>>, [capped EXCEPT !.budget = Milli], "token_not_granted"),
  accepted(<<ft_transfer(usdc, carol, 40)>>, capped),
  refused_as(<<ft_transfer(usdc, carol, 101)>>, capped, "token_budget_exceeded"),
  accepted(<<ft_transfer(usdc, carol, 60)>>, capped),
  refused_as(<<ft_transfer(usdc, carol, 60)>>, Token(usdc, 100, 60), "token_budget_exceeded"),
  accepted(<<ft_transfer(usdc, carol, 140)>>, raised),
  refused_as(<<ft_transfer(usdc, carol, 150)>>, raised, "token_budget_exceeded"),
  accepted(<<ft_transfer(usdc, carol, 100)>>, capped),
  refused_as(<<ft_transfer(usdc, attacker, 1)>>, capped, "receiver_not_granted") }

FormVectors ==
  LET capped == Token(usdc, 100, 0)  fenced == Items(art, {item_1041}) IN {
  refused_as(<<call(usdc, "ft_transfer_call", 1, ft_args(carol, 1))>>, capped, "grant_method_not_allowed"),
  refused_as(<<call(art, "nft_transfer_call", 1, nft_args(carol, item_1041))>>, fenced, "grant_method_not_allowed"),
  refused_as(<<call(art, "nft_approve", 1, nft_args(attacker, item_1041))>>, fenced, "grant_method_not_allowed"),
  refused_as(<<call(usdc, "ft_transfer", 1, [ft_args(carol, 1) EXCEPT !.extra = "unknown field"])>>, capped,
             "grant_args_unreadable"),
  refused_as(<<call(usdc, "ft_transfer", NEAR, ft_args(carol, 1))>>, capped, "grant_call_deposit"),
  refused_as(<<Promise(usdc, NoAccount, <<FunctionCall("ft_transfer", 1, ft_args(carol, 1)), Transfer(NEAR)>>)>>,
             capped, "grant_call_must_stand_alone"),
  refused_as(<<Promise(carol, NoAccount, <<StateInit(Milli)>>)>>, Budget(NEAR), "grant_action_not_allowed") }

ItemVectors ==
  LET fenced == Items(art, {item_1041}) IN {
  accepted(<<nft_transfer(art, carol, item_1041)>>, Items(art, {item_1041, item_1055})),
  accepted(<<nft_transfer(art, carol, item_1041)>>, fenced),
  refused_as(<<nft_transfer(art, carol, item_9000)>>, fenced, "item_not_granted"),
  refused_as(<<nft_transfer(other, carol, item_1041)>>, fenced, "collection_not_granted"),
  refused_as(<<call(art, "nft_transfer", 1, [nft_args(carol, item_1041) EXCEPT !.approval_id = "set"])>>, fenced,
             "grant_approval_not_allowed"),
  refused_as(<<nft_transfer(art, attacker, item_1041)>>, fenced, "receiver_not_granted") }

NameVectors == {
  refused_as(<<ft_transfer(Collection, carol, 1)>>, Token(usdc, 1000, 0), "own_collection_refused"),
  refused_as(<<nft_transfer(Collection, carol, a_name)>>, Items(art, {item_1041}), "own_collection_refused") }

\* The contract lets the owner do it; the executor is never the owner.
RefundVectors == {
  refused_as(<<redirected(carol, carol, Milli)>>, Budget(10 * Milli), "refund_target_not_allowed") }

ReserveVectors == {
  Vector(<<send(carol, NEAR)>>, Holding(Budget(NEAR), 10 * NEAR, RENTER_BUFFER), {}, 0, {}),
  Vector(<<send(carol, 10 * NEAR)>>, Holding(Budget(10 * NEAR), 10 * NEAR, RENTER_BUFFER),
         {"insufficient_vs_reserve"}, 0, {}) }

\* Requests that break more than one rule.
OrderVectors == {
  refused_as(<<send(stranger, 5 * NEAR)>>, Budget(NEAR), "receiver_not_granted"),
  refused_as(<<Promise(Collection, NoAccount,
                       <<FunctionCall("nft_transfer", 1, nft_args(carol, item_1041)), Transfer(1)>>)>>,
             Items(Collection, {item_1041}), "grant_call_must_stand_alone"),
  Vector(<<send(stranger, 1), redirected(carol, attacker, 1)>>, Of(Budget(NEAR)), {"receiver_not_granted"}, 1, {}),
  Vector(<<send(carol, 6 * NEAR), send(carol, 6 * NEAR)>>, Holding(Budget(10 * NEAR), 100 * NEAR, 0),
         {"grant_exhausted"}, 2, {}),
  Vector(<<send(stranger, 10 * NEAR)>>, Holding(Budget(10 * NEAR), 10 * NEAR, RENTER_BUFFER),
         {"receiver_not_granted"}, 0, {"insufficient_vs_reserve"}) }

Vectors == GrantVectors \cup TokenVectors \cup FormVectors \cup ItemVectors \cup NameVectors
           \cup RefundVectors \cup ReserveVectors \cup OrderVectors

-----------------------------------------------------------------------------

classes(violations) == {v.class : v \in violations}
reported_class(violations) == classes(Firsts(violations))

\* Every vector of the contract's own suite is answered as the suite says: "the
\* class we REPORT - the first violation, the only one the caller sees - must be
\* the one the panic maps to", and "where their test passes, we must produce NO
\* violation" (hos_contract_vectors.rs:18-28). The contract, as modelled, panics
\* as the suite says too. (The suite's accounts have one caller.)
VectorsHold ==
  pc = "done" /\ AllSeen /\ ~MeterCrossed =>
    \A v \in Vectors :
      v.case = [request |-> request, grant |-> grant, balance |-> balance, reserve |-> reserve] =>
        /\ reported_class(verdict) = v.told
        /\ (IF panic = NoPanic THEN {} ELSE {panic.class}) = v.told
        /\ v.about # 0 => \A w \in Firsts(verdict) : w.promise_index = v.about
        /\ v.told \subseteq {"grant_missing", "grant_expired"} => classes(verdict) = v.told
        /\ v.listed \subseteq classes(verdict)
=============================================================================
