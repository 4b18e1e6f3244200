------------------------------ MODULE Effects -------------------------------
(***************************************************************************)
(* What a w_execute_extension request does (wallet_request_decode.rs): a   *)
(* decoded request is a sequence of promises, each with the actions it     *)
(* carries, and effects folds it into one EffectsSet, the object every     *)
(* rule of the policy and of the binding profiles reads. Facts that only   *)
(* some mode forbids are shape facts: none of them is a refusal here.      *)
(*                                                                         *)
(* Promises are numbered from 1. What the code pushes on a vector while it *)
(* walks the actions is the set of what they push.                         *)
(***************************************************************************)
EXTENDS Integers, Sequences

CONSTANTS
  NoAccount,    \* an optional account that is absent
  MaxU128       \* the largest u128

\* What a sum of u128s that saturates comes to.
Capped(a) == IF a > MaxU128 THEN MaxU128 ELSE a
saturating_add(a, b) == Capped(a + b)
saturating_sub(a, b) == IF a < b THEN 0 ELSE a - b

-----------------------------------------------------------------------------
(* The decoded request (decoder_v1).                                       *)

Transfer(amount) == [action |-> "transfer", amount |-> amount]
StateInit(deposit) == [action |-> "deterministic_state_init", amount |-> deposit]
FunctionCall(method, deposit, args) ==
  [action |-> "function_call", amount |-> deposit, method |-> method, args |-> args]

\* Arguments of a call: whether they are base64 of JSON the decoder reads, the
\* account they name, the units or the item, and what else they carry.
Args(to, units, item, approval_id, extra) ==
  [readable |-> "yes", to |-> to, units |-> units, item |-> item,
   approval_id |-> approval_id, extra |-> extra]
Garbled == [readable |-> "no"]

Promise(receiver_id, refund_to, actions) ==
  [receiver_id |-> receiver_id, refund_to |-> refund_to, actions |-> actions]

\* What the decoder hands over: amounts are u128, a call's arguments read or not.
IsAction(a) ==
  /\ a.action \in {"transfer", "deterministic_state_init", "function_call"} /\ a.amount \in 0..MaxU128
  /\ a.action = "function_call" =>
       a.args.readable \in {"yes", "no"} /\ (a.args.readable = "yes" => a.args.units \in 0..MaxU128)
IsSequence(s) == s \in Seq({s[i] : i \in DOMAIN s})
IsRequest(request) ==
  /\ IsSequence(request)
  /\ \A i \in DOMAIN request :
       /\ IsSequence(request[i].actions)
       /\ \A j \in DOMAIN request[i].actions : IsAction(request[i].actions[j])

-----------------------------------------------------------------------------
(* The effects.                                                            *)

\* An action of a request, by the place it stands at.
Places(request) == UNION {{i} \X DOMAIN request[i].actions : i \in DOMAIN request}
ActionAt(request, p) == request[p[1]].actions[p[2]]
Calls(request) == {p \in Places(request) : ActionAt(request, p).action = "function_call"}

\* The transfers and calls the decoder states the meaning of.
Reads(c, method) == c.method = method /\ c.args.readable = "yes"
TokenCalls(request) ==
  {p \in Calls(request) : \E m \in {"ft_transfer", "nft_transfer"} : Reads(ActionAt(request, p), m)}

\* What a sequence of amounts comes to after each of them.
saturating_totals(amounts) ==
  LET sum[i \in 0..Len(amounts)] == IF i = 0 THEN 0 ELSE saturating_add(sum[i - 1], amounts[i])
  IN  sum

\* The amounts attached to the actions of one promise, added up; and those of all.
AttachedNative(promise) ==
  saturating_totals([j \in 1..Len(promise.actions) |-> promise.actions[j].amount])[Len(promise.actions)]
NativeTotal(request) ==
  saturating_totals([i \in 1..Len(request) |-> AttachedNative(request[i])])[Len(request)]

TokenMove(request, p) ==
  LET c == ActionAt(request, p) IN
  [promise_index |-> p[1], action |-> p[2], token |-> request[p[1]].receiver_id, recipient |-> c.args.to,
   method |-> c.method, units |-> c.args.units, item |-> c.args.item]

Fact(name, i) == [fact |-> name, promise_index |-> i]

shape_facts(request) ==
  LET calls == Calls(request)  tokens == TokenCalls(request) IN
  {Fact("RefundToSet", i) : i \in {i \in DOMAIN request : request[i].refund_to # NoAccount}}
  \cup {Fact("CallNotStandalone", p[1]) : p \in {p \in calls : Len(request[p[1]].actions) > 1}}
  \cup {Fact("CallDepositNotOneYocto", p[1]) : p \in {p \in calls : ActionAt(request, p).amount # 1}}
  \cup {Fact("NftApprovalIdSet", p[1]) : p \in {p \in tokens :
          ActionAt(request, p).method = "nft_transfer" /\ ActionAt(request, p).args.approval_id = "set"}}
  \cup {Fact("TokenArgsUnknownField", p[1]) : p \in {p \in tokens :
          ActionAt(request, p).args.extra = "unknown field"}}

\* A call without semantics, or with arguments that do not read, is never let
\* through silently. A storage_deposit without arguments registers the caller.
unknown_fund_moving(request) ==
  {[promise_index |-> p[1], method |-> ActionAt(request, p).method] :
     p \in {p \in Calls(request) \ TokenCalls(request) : ~Reads(ActionAt(request, p), "storage_deposit")}}

effects(request) ==
  [receivers |-> [i \in DOMAIN request |-> request[i].receiver_id],
   refund_tos |-> {request[i].refund_to : i \in DOMAIN request} \ {NoAccount},
   native_total |-> NativeTotal(request),
   native_per_promise |-> [i \in DOMAIN request |-> AttachedNative(request[i])],
   token_moves |-> {TokenMove(request, p) : p \in TokenCalls(request)},
   call_promises |-> {p[1] : p \in Calls(request)},
   storage_registrations |-> {[promise_index |-> p[1], account |-> ActionAt(request, p).args.to] :
      p \in {p \in Calls(request) : Reads(ActionAt(request, p), "storage_deposit")}},
   unknown_fund_moving |-> unknown_fund_moving(request),
   state_inits |-> {p[1] : p \in {p \in Places(request) :
      ActionAt(request, p).action = "deterministic_state_init"}},
   shape_facts |-> shape_facts(request)]
=============================================================================
