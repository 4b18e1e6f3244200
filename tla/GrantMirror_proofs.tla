-------------------------- MODULE GrantMirror_proofs --------------------------
(***************************************************************************)
(* The mirror against the contract, for every request, grant, balance and  *)
(* floor. What the pre-flight lists is first cut up by promise: Rule(v, i) *)
(* says v is listed of promise i. PlainPromise and CallPromise then hold   *)
(* the rules of one promise against the contract's ladder for it, and the  *)
(* invariant carries the result along the contract's pass: nothing is      *)
(* listed of a promise that was charged (Cleared), so the first thing      *)
(* listed is about the promise that is charged next.                       *)
(***************************************************************************)
EXTENDS GrantMirror, Effects_proofs

\* The calls of the request, by promise and place.
LEMMA CallsAre ==
  ASSUME NEW p \in Calls(request)
  PROVE  /\ p = <<p[1], p[2]>>
         /\ p[1] \in DOMAIN request /\ p[2] \in DOMAIN request[p[1]].actions
         /\ ActionAt(request, p) = request[p[1]].actions[p[2]]
         /\ ActionAt(request, p).action = "function_call"
  BY DEF Calls, Places, ActionAt

LEMMA PlaceOfCall ==
  ASSUME NEW i \in DOMAIN request, NEW j \in DOMAIN request[i].actions,
         request[i].actions[j].action = "function_call"
  PROVE  \E p \in Calls(request) : p[1] = i /\ p[2] = j /\ ActionAt(request, p) = request[i].actions[j]
<1>1. <<i, j>> \in Calls(request)
  BY DEF Calls, Places, ActionAt
<1> QED
  BY <1>1 DEF ActionAt

\* Where the contract's ladder would stop for the shape of promise i.
FormRule(v, i) ==
  \/ v = OnRung(i, 1, "refund_target_not_allowed") /\ request[i].refund_to # NoAccount
  \/ \E p \in Calls(request) :
       /\ p[1] = i
       /\ \/ v = OnRung(i, 2, "grant_call_must_stand_alone") /\ Len(request[i].actions) > 1
          \/ v = OnRung(i, 3, "grant_call_deposit") /\ ActionAt(request, p).amount # 1
  \/ \E p \in TokenCalls(request) :
       /\ p[1] = i
       /\ \/ v = OnRung(i, 6, "grant_args_unreadable") /\ ActionAt(request, p).args.extra = "unknown field"
          \/ /\ v = OnRung(i, 7, "grant_approval_not_allowed")
             /\ ActionAt(request, p).method = "nft_transfer" /\ ActionAt(request, p).args.approval_id = "set"

Told(f) == OnRung(f.promise_index, FactRung[f.fact], FactClass[f.fact])

LEMMA FactsTold ==
  ASSUME NEW i
  PROVE  /\ Told(Fact("RefundToSet", i)) = OnRung(i, 1, "refund_target_not_allowed")
         /\ Told(Fact("CallNotStandalone", i)) = OnRung(i, 2, "grant_call_must_stand_alone")
         /\ Told(Fact("CallDepositNotOneYocto", i)) = OnRung(i, 3, "grant_call_deposit")
         /\ Told(Fact("TokenArgsUnknownField", i)) = OnRung(i, 6, "grant_args_unreadable")
         /\ Told(Fact("NftApprovalIdSet", i)) = OnRung(i, 7, "grant_approval_not_allowed")
  BY DEF Told, Fact, FactRung, FactClass

LEMMA TokenCallsAre == TokenCalls(request) \subseteq Calls(request)
  BY DEF TokenCalls

LEMMA ShapeFacts ==
  /\ \A i \in DOMAIN request : request[i].refund_to # NoAccount => Fact("RefundToSet", i) \in shape_facts(request)
  /\ \A p \in Calls(request) :
       /\ Len(request[p[1]].actions) > 1 => Fact("CallNotStandalone", p[1]) \in shape_facts(request)
       /\ ActionAt(request, p).amount # 1 => Fact("CallDepositNotOneYocto", p[1]) \in shape_facts(request)
  /\ \A p \in TokenCalls(request) :
       /\ ActionAt(request, p).args.extra = "unknown field" =>
            Fact("TokenArgsUnknownField", p[1]) \in shape_facts(request)
       /\ ActionAt(request, p).method = "nft_transfer" /\ ActionAt(request, p).args.approval_id = "set" =>
            Fact("NftApprovalIdSet", p[1]) \in shape_facts(request)
  BY DEF shape_facts

LEMMA ShapeFactsOnly ==
  ASSUME NEW f \in shape_facts(request)
  PROVE  \/ \E i \in DOMAIN request : f = Fact("RefundToSet", i) /\ request[i].refund_to # NoAccount
         \/ \E p \in Calls(request) :
              \/ f = Fact("CallNotStandalone", p[1]) /\ Len(request[p[1]].actions) > 1
              \/ f = Fact("CallDepositNotOneYocto", p[1]) /\ ActionAt(request, p).amount # 1
         \/ \E p \in TokenCalls(request) :
              \/ f = Fact("TokenArgsUnknownField", p[1]) /\ ActionAt(request, p).args.extra = "unknown field"
              \/ f = Fact("NftApprovalIdSet", p[1]) /\ ActionAt(request, p).method = "nft_transfer"
                 /\ ActionAt(request, p).args.approval_id = "set"
  BY DEF shape_facts

LEMMA FormViolations ==
  ASSUME NEW v
  PROVE  v \in form_violations(effects(request)) <=> \E i \in DOMAIN request : FormRule(v, i)
<1>1. v \in form_violations(effects(request)) <=> \E f \in shape_facts(request) : v = Told(f)
  BY DEF form_violations, effects, Told
<1>2. ASSUME NEW f \in shape_facts(request), v = Told(f)
      PROVE  \E i \in DOMAIN request : FormRule(v, i)
  BY ZenonT(40), <1>2, ShapeFactsOnly, FactsTold, CallsAre, TokenCallsAre DEF FormRule
<1>3. ASSUME NEW i \in DOMAIN request, FormRule(v, i)
      PROVE  \E f \in shape_facts(request) : v = Told(f)
  BY <1>3, ShapeFacts, FactsTold DEF FormRule
<1> QED
  BY <1>1, <1>2, <1>3

\* For the methods it calls and the code it brings.
MethodRule(v, i) ==
  \/ \E p \in Calls(request) \ TokenCalls(request) :
       /\ p[1] = i /\ ~Reads(ActionAt(request, p), "storage_deposit")
       /\ \/ ActionAt(request, p).method \in {"ft_transfer", "nft_transfer"} /\ v = OnRung(i, 6, "grant_args_unreadable")
          \/ ActionAt(request, p).method \notin {"ft_transfer", "nft_transfer"} /\ v = OnRung(i, 5, "grant_method_not_allowed")
  \/ \E p \in Calls(request) :
       p[1] = i /\ Reads(ActionAt(request, p), "storage_deposit") /\ v = OnRung(i, 5, "grant_method_not_allowed")
  \/ \E p \in Places(request) :
       /\ p[1] = i /\ ActionAt(request, p).action = "deterministic_state_init"
       /\ v = OnRung(i, 3, "grant_action_not_allowed")

LEMMA PlacesAre ==
  ASSUME NEW p \in Places(request)
  PROVE  p[1] \in DOMAIN request /\ p[2] \in DOMAIN request[p[1]].actions
  BY DEF Places

LEMMA MethodViolations ==
  ASSUME NEW v
  PROVE  v \in method_violations(effects(request)) <=> \E i \in DOMAIN request : MethodRule(v, i)
<1> DEFINE Unknown == {p \in Calls(request) \ TokenCalls(request) : ~Reads(ActionAt(request, p), "storage_deposit")}
           Registers == {p \in Calls(request) : Reads(ActionAt(request, p), "storage_deposit")}
           Inits == {p \in Places(request) : ActionAt(request, p).action = "deterministic_state_init"}
<1>1. v \in method_violations(effects(request)) <=>
        \/ \E u \in effects(request).unknown_fund_moving :
             v = IF u.method \in {"ft_transfer", "nft_transfer"}
                 THEN OnRung(u.promise_index, 6, "grant_args_unreadable")
                 ELSE OnRung(u.promise_index, 5, "grant_method_not_allowed")
        \/ \E s \in effects(request).storage_registrations : v = OnRung(s.promise_index, 5, "grant_method_not_allowed")
        \/ \E i \in effects(request).state_inits : v = OnRung(i, 3, "grant_action_not_allowed")
  BY DEF method_violations
<1>2. effects(request).unknown_fund_moving =
        {[promise_index |-> p[1], method |-> ActionAt(request, p).method] : p \in Unknown}
  BY DEF effects, unknown_fund_moving
<1>3. effects(request).storage_registrations =
        {[promise_index |-> p[1], account |-> ActionAt(request, p).args.to] : p \in Registers}
  BY DEF effects
<1>4. effects(request).state_inits = {p[1] : p \in Inits}
  BY DEF effects
<1>5. v \in method_violations(effects(request)) <=>
        \/ \E p \in Unknown :
             v = IF ActionAt(request, p).method \in {"ft_transfer", "nft_transfer"}
                 THEN OnRung(p[1], 6, "grant_args_unreadable")
                 ELSE OnRung(p[1], 5, "grant_method_not_allowed")
        \/ \E p \in Registers : v = OnRung(p[1], 5, "grant_method_not_allowed")
        \/ \E p \in Inits : v = OnRung(p[1], 3, "grant_action_not_allowed")
  <2> HIDE DEF Unknown, Registers, Inits
  <2>1. ASSUME NEW p \in Unknown
        PROVE  \E u \in effects(request).unknown_fund_moving :
                 u.promise_index = p[1] /\ u.method = ActionAt(request, p).method
    <3>1. [promise_index |-> p[1], method |-> ActionAt(request, p).method] \in effects(request).unknown_fund_moving
      BY <1>2
    <3> QED
      BY <3>1
  <2>2. ASSUME NEW u \in effects(request).unknown_fund_moving
        PROVE  \E p \in Unknown : u.promise_index = p[1] /\ u.method = ActionAt(request, p).method
    BY <1>2
  <2>3. ASSUME NEW p \in Registers
        PROVE  \E s \in effects(request).storage_registrations : s.promise_index = p[1]
    <3>1. [promise_index |-> p[1], account |-> ActionAt(request, p).args.to] \in effects(request).storage_registrations
      BY <1>3
    <3> QED
      BY <3>1
  <2>4. \A s \in effects(request).storage_registrations : \E p \in Registers : s.promise_index = p[1]
    BY <1>3
  <2> QED
    BY <1>1, <2>1, <2>2, <2>3, <2>4, <1>4
<1> QED
  BY <1>5, CallsAre, PlacesAre DEF MethodRule

\* What the request has attached without a call once promise i is charged, and
\* what the grant leaves for it.
Total(i) == running(effects(request))[i]
Left == saturating_sub(grant.budget, grant.spent)
Breaches(i) == i \in DOMAIN request /\ ~CarriesCall(i) /\ Total(i) > Left

LEMMA CallPromises ==
  /\ effects(request).call_promises = {i \in DOMAIN request : CarriesCall(i)}
  /\ effects(request).receivers = [i \in DOMAIN request |-> request[i].receiver_id]
  /\ Charged(effects(request)) = {i \in DOMAIN request : ~CarriesCall(i)}
<1>1. effects(request).call_promises = {p[1] : p \in Calls(request)}
  BY DEF effects
<1>2. ASSUME NEW i
      PROVE  (\E p \in Calls(request) : i = p[1]) <=> i \in DOMAIN request /\ CarriesCall(i)
  BY CallsAre, PlaceOfCall DEF CarriesCall
<1>3. effects(request).call_promises = {i \in DOMAIN request : CarriesCall(i)}
  BY <1>1, <1>2
<1>4. effects(request).receivers = [i \in DOMAIN request |-> request[i].receiver_id]
  BY DEF effects
<1> QED
  BY <1>3, <1>4 DEF Charged

LEMMA NativeViolations ==
  ASSUME NEW v
  PROVE  v \in native_violations(effects(request), grant) <=>
           \E i : /\ v = OnRung(i, 4, "grant_exhausted")
                 /\ Breaches(i) /\ \A k : Breaches(k) => i <= k
<1> DEFINE over == {i \in Charged(effects(request)) : running(effects(request))[i] > Left}
<1>1. native_violations(effects(request), grant) =
        {OnRung(i, 4, "grant_exhausted") : i \in {i \in over : \A k \in over : i <= k}}
  BY DEF native_violations, Left
<1>2. \A i : i \in over <=> Breaches(i)
  BY CallPromises DEF Breaches, Total
<1> HIDE DEF over
<1> QED
  BY <1>1, <1>2

\* For who it pays.
ReceiverRule(v, i) ==
  \/ ~CarriesCall(i) /\ request[i].receiver_id \notin grant.receivers /\ v = OnRung(i, 2, "receiver_not_granted")
  \/ \E p \in TokenCalls(request) :
       p[1] = i /\ ActionAt(request, p).args.to \notin grant.receivers /\ v = OnRung(i, 8, "receiver_not_granted")

\* For what it moves.
MoveRule(v, i) ==
  \E p \in TokenCalls(request) :
    LET c == ActionAt(request, p)  token == request[i].receiver_id IN
    /\ p[1] = i
    /\ \/ /\ c.method = "ft_transfer"
          /\ \/ token \notin DOMAIN grant.tokens /\ v = OnRung(i, 9, "token_not_granted")
             \/ /\ token \in DOMAIN grant.tokens
                /\ c.args.units > saturating_sub(grant.tokens[token].budget, grant.tokens[token].spent)
                /\ v = OnRung(i, 10, "token_budget_exceeded")
       \/ /\ c.method # "ft_transfer"
          /\ \/ token \notin DOMAIN grant.items /\ v = OnRung(i, 9, "collection_not_granted")
             \/ /\ token \in DOMAIN grant.items /\ c.args.item \notin grant.items[token]
                /\ v = OnRung(i, 10, "item_not_granted")

LEMMA ReceiverViolations ==
  ASSUME NEW v
  PROVE  v \in receiver_violations(effects(request), grant) <=> \E i \in DOMAIN request : ReceiverRule(v, i)
<1>1. effects(request).token_moves = {TokenMove(request, p) : p \in TokenCalls(request)}
  BY DEF effects
<1>2. \A p \in TokenCalls(request) :
        TokenMove(request, p).promise_index = p[1] /\ TokenMove(request, p).recipient = ActionAt(request, p).args.to
  BY DEF TokenMove
<1>3. v \in receiver_violations(effects(request), grant) <=>
        \/ \E i \in Charged(effects(request)) :
             effects(request).receivers[i] \notin grant.receivers /\ v = OnRung(i, 2, "receiver_not_granted")
        \/ \E m \in effects(request).token_moves :
             m.recipient \notin grant.receivers /\ v = OnRung(m.promise_index, 8, "receiver_not_granted")
  BY DEF receiver_violations
<1> QED
  BY <1>1, <1>2, <1>3, CallPromises, CallsAre, TokenCallsAre DEF ReceiverRule

LEMMA MoveViolations ==
  ASSUME NEW v
  PROVE  v \in move_violations(effects(request), grant) <=> \E i \in DOMAIN request : MoveRule(v, i)
<1>1. effects(request).token_moves = {TokenMove(request, p) : p \in TokenCalls(request)}
  BY DEF effects
<1>2. \A p \in TokenCalls(request) :
        LET c == ActionAt(request, p)  m == TokenMove(request, p) IN
        /\ m.promise_index = p[1] /\ m.method = c.method /\ m.units = c.args.units /\ m.item = c.args.item
        /\ m.token = request[p[1]].receiver_id
  BY DEF TokenMove
<1>3. v \in move_violations(effects(request), grant) <=>
        \E m \in effects(request).token_moves :
          \/ /\ m.method = "ft_transfer"
             /\ \/ m.token \notin DOMAIN grant.tokens /\ v = OnRung(m.promise_index, 9, "token_not_granted")
                \/ /\ m.token \in DOMAIN grant.tokens
                   /\ m.units > saturating_sub(grant.tokens[m.token].budget, grant.tokens[m.token].spent)
                   /\ v = OnRung(m.promise_index, 10, "token_budget_exceeded")
          \/ /\ m.method # "ft_transfer"
             /\ \/ m.token \notin DOMAIN grant.items /\ v = OnRung(m.promise_index, 9, "collection_not_granted")
                \/ /\ m.token \in DOMAIN grant.items /\ m.item \notin grant.items[m.token]
                   /\ v = OnRung(m.promise_index, 10, "item_not_granted")
  BY DEF move_violations
<1> QED
  BY <1>1, <1>2, <1>3, CallsAre, TokenCallsAre DEF MoveRule

OwnRule(v, i) ==
  CarriesCall(i) /\ request[i].receiver_id = Collection /\ v = OnRung(i, 4, "own_collection_refused")

LEMMA OwnViolations ==
  ASSUME NEW v
  PROVE  v \in check_own_collection(effects(request)) <=> \E i \in DOMAIN request : OwnRule(v, i)
  BY CallPromises DEF check_own_collection, OwnRule

-----------------------------------------------------------------------------
(* The totals.                                                             *)

LEMMA RunningTotals ==
  ASSUME MaxU128 \in Nat, IsRequest(request)
  PROVE  /\ Total(0) = 0
         /\ \A i \in 0..Len(request) : Total(i) \in 0..MaxU128
         /\ \A i \in DOMAIN request :
              Total(i) = IF CarriesCall(i) THEN Total(i - 1)
                         ELSE saturating_add(Total(i - 1), AttachedNative(request[i]))
<1> DEFINE n == Len(request)
           amounts == [i \in 1..n |-> IF CarriesCall(i) THEN 0 ELSE AttachedNative(request[i])]
<1>1. n \in Nat /\ DOMAIN request = 1..n /\ \A i \in 1..n : AttachedNative(request[i]) \in 0..MaxU128
  BY RequestShape, AttachedIsU128
<1>2. amounts \in [1..n -> Nat] /\ Len(amounts) = n
  BY <1>1
<1>3. effects(request).native_per_promise = [i \in DOMAIN request |-> AttachedNative(request[i])]
  BY DEF effects
<1>4. amounts = [i \in DOMAIN effects(request).receivers |->
                   IF i \in Charged(effects(request)) THEN effects(request).native_per_promise[i] ELSE 0]
  BY <1>1, <1>3, CallPromises
<1>5. \A i : Total(i) = saturating_totals(amounts)[i]
  BY <1>4 DEF Total, running
<1>6. \A i \in 1..n : amounts[i] = IF CarriesCall(i) THEN 0 ELSE AttachedNative(request[i])
  OBVIOUS
<1> HIDE DEF amounts, n
<1>7. /\ saturating_totals(amounts) \in [0..n -> 0..MaxU128] /\ saturating_totals(amounts)[0] = 0
      /\ \A i \in 1..n :
           saturating_totals(amounts)[i] = saturating_add(saturating_totals(amounts)[i - 1], amounts[i])
  BY <1>1, <1>2, SaturatingTotals
<1>8. \A i \in 0..n : Total(i) \in 0..MaxU128
  BY <1>5, <1>7
<1>9. ASSUME NEW i \in 1..n
      PROVE  Total(i) = IF CarriesCall(i) THEN Total(i - 1)
                        ELSE saturating_add(Total(i - 1), AttachedNative(request[i]))
  <2>1. saturating_totals(amounts)[i] = saturating_add(saturating_totals(amounts)[i - 1], amounts[i])
    BY <1>7
  <2>2. Total(i) = saturating_add(Total(i - 1), amounts[i])
    BY <1>5, <2>1
  <2>3. i - 1 \in 0..n
    BY <1>1
  <2>4. Total(i - 1) \in 0..MaxU128
    BY <1>8, <2>3
  <2> QED
    BY <1>6, <2>2, <2>4 DEF saturating_add, Capped
<1> QED
  BY <1>1, <1>5, <1>7, <1>8, <1>9 DEF n

\* What the promises attach, and the same capped at u128, which is what the
\* effects carry.
LEMMA AttachedTotals ==
  ASSUME MaxU128 \in Nat, IsRequest(request)
  PROVE  /\ attached[Len(request)] \in Nat
         /\ NativeTotal(request) = IF attached[Len(request)] > MaxU128 THEN MaxU128 ELSE attached[Len(request)]
<1> DEFINE n == Len(request)
           amounts == [i \in 1..n |-> AttachedNative(request[i])]
           Step == [x \in (1..n) \X Nat |-> x[2] + amounts[x[1]]]
           Equation(f) == f = [i \in 0..n |-> IF i = 0 THEN 0 ELSE f[i - 1] + AttachedNative(request[i])]
<1>1. n \in Nat /\ DOMAIN request = 1..n /\ \A i \in 1..n : AttachedNative(request[i]) \in 0..MaxU128
  BY RequestShape, AttachedIsU128
<1>2. amounts \in [1..n -> Nat] /\ Len(amounts) = n /\ \A i \in 1..n : amounts[i] = AttachedNative(request[i])
  BY <1>1
<1>3. NativeTotal(request) = saturating_totals(amounts)[n]
  BY DEF NativeTotal
<1>4. attached = CHOOSE f : Equation(f)
  BY DEF attached
<1> HIDE DEF amounts, n
<1>5. Step \in [(1..n) \X Nat -> Nat] /\ \A i \in 1..n, v \in Nat : Step[<<i, v>>] = v + amounts[i]
  BY <1>2
<1>6. PICK g \in [0..n -> Nat] : Follows(g, n, 0, Step)
  <2> HIDE DEF Step
  <2> QED
    BY <1>1, <1>5, RecursionTo
<1> HIDE DEF Step
<1>7. Equation(g)
  <2>1. ASSUME NEW i \in 1..n
        PROVE  g[i] = g[i - 1] + AttachedNative(request[i])
    <3>1. i - 1 \in 0..n
      BY <1>1
    <3>2. g[i - 1] \in Nat
      BY <3>1
    <3> QED
      BY ZenonT(40), <1>2, <1>5, <1>6, <3>2 DEF Follows
  <2>2. g[0] = 0
    BY <1>6 DEF Follows
  <2> QED
    BY <1>1, <2>1, <2>2
<1>8. Equation(attached)
  <2> HIDE DEF Equation
  <2> QED
    BY <1>4, <1>7
<1> DEFINE a == attached
           s == saturating_totals(amounts)
<1>9. /\ s \in [0..n -> 0..MaxU128] /\ s[0] = 0
      /\ \A i \in 1..n : s[i] = saturating_add(s[i - 1], amounts[i])
  BY <1>1, <1>2, SaturatingTotals
<1> HIDE DEF a, s
<1>10. a[0] = 0 /\ \A i \in 1..n : a[i] = a[i - 1] + amounts[i]
  BY <1>1, <1>2, <1>8 DEF a
<1> DEFINE S == {i \in 0..n : a[i] \in Nat /\ s[i] = IF a[i] > MaxU128 THEN MaxU128 ELSE a[i]}
<1>11. 0..n \subseteq S
  <2>1. 0 \in S
    BY <1>1, <1>9, <1>10
  <2>2. ASSUME NEW i \in 0..(n - 1), i \in S
        PROVE  i + 1 \in S
    <3>1. a[i + 1] = a[i] + amounts[i + 1] /\ s[i + 1] = saturating_add(s[i], amounts[i + 1])
      BY <1>1, <1>9, <1>10
    <3>2. amounts[i + 1] \in Nat /\ i + 1 \in 0..n
      BY <1>1, <1>2
    <3> QED
      BY <2>2, <3>1, <3>2 DEF saturating_add, Capped
  <2> HIDE DEF S
  <2> QED
    BY <1>1, <2>1, <2>2, InductionTo
<1>12. n \in S
  BY <1>1, <1>11
<1> QED
  BY <1>3, <1>12 DEF a, s, n

-----------------------------------------------------------------------------
(* One promise: what the pre-flight says of it and where the contract stops. *)

\* What the pre-flight lists of promise i.
Rule(v, i) ==
  \/ FormRule(v, i) \/ MethodRule(v, i) \/ ReceiverRule(v, i) \/ MoveRule(v, i) \/ OwnRule(v, i)
  \/ v = OnRung(i, 4, "grant_exhausted") /\ Breaches(i) /\ \A k : Breaches(k) => i <= k

\* The contract's stop s at promise i is the first thing the pre-flight lists of it.
FirstOf(s, i) ==
  /\ Rule(s, i) /\ s.promise_index = i /\ s.stage = "Promise"
  /\ \A v : Rule(v, i) => v.rung > s.rung \/ (v.rung = s.rung /\ v.class = s.class)

\* The grant is one an account carries; what was charged before promise i, here
\* and elsewhere, is in the meters, and none of it was over the budget.
GrantOK ==
  /\ grant.budget \in 0..(MaxU128 - 1) /\ grant.spent \in 0..grant.budget
  /\ \A t \in DOMAIN grant.tokens :
       grant.tokens[t].budget \in 0..MaxU128 /\ grant.tokens[t].spent \in 0..grant.tokens[t].budget
ChargedUpTo(i) ==
  /\ elsewhere \in 0..MaxU128
  /\ meters.native = grant.spent + elsewhere + Total(i - 1) /\ meters.native <= grant.budget
  /\ \A k \in 1..(i - 1) : ~Breaches(k)
  /\ meters \in [native : 0..MaxU128, tokens : [DOMAIN grant.tokens -> 0..MaxU128]]
  /\ \A t \in DOMAIN grant.tokens : meters.tokens[t] \in grant.tokens[t].spent..grant.tokens[t].budget

\* The fields of the violations of the ladder.
Says(v, i, rung, class) == v.promise_index = i /\ v.stage = "Promise" /\ v.rung = rung /\ v.class = class

LEMMA RungsSay ==
  ASSUME NEW i
  PROVE  /\ Says(OnRung(i, 1, "refund_target_not_allowed"), i, 1, "refund_target_not_allowed")
         /\ Says(OnRung(i, 2, "grant_call_must_stand_alone"), i, 2, "grant_call_must_stand_alone")
         /\ Says(OnRung(i, 2, "receiver_not_granted"), i, 2, "receiver_not_granted")
         /\ Says(OnRung(i, 3, "grant_call_deposit"), i, 3, "grant_call_deposit")
         /\ Says(OnRung(i, 3, "grant_action_not_allowed"), i, 3, "grant_action_not_allowed")
         /\ Says(OnRung(i, 4, "own_collection_refused"), i, 4, "own_collection_refused")
         /\ Says(OnRung(i, 4, "grant_exhausted"), i, 4, "grant_exhausted")
         /\ Says(OnRung(i, 5, "grant_method_not_allowed"), i, 5, "grant_method_not_allowed")
         /\ Says(OnRung(i, 6, "grant_args_unreadable"), i, 6, "grant_args_unreadable")
         /\ Says(OnRung(i, 7, "grant_approval_not_allowed"), i, 7, "grant_approval_not_allowed")
         /\ Says(OnRung(i, 8, "receiver_not_granted"), i, 8, "receiver_not_granted")
         /\ Says(OnRung(i, 9, "token_not_granted"), i, 9, "token_not_granted")
         /\ Says(OnRung(i, 9, "collection_not_granted"), i, 9, "collection_not_granted")
         /\ Says(OnRung(i, 10, "token_budget_exceeded"), i, 10, "token_budget_exceeded")
         /\ Says(OnRung(i, 10, "item_not_granted"), i, 10, "item_not_granted")
  BY DEF OnRung, Violation, Says

\* A promise without a call: the contract stops at the first rule listed of it,
\* unless it stops at a budget that another caller spent from.
LEMMA PlainPromise ==
  ASSUME MaxU128 \in Nat, IsRequest(request), GrantOK, NEW i \in DOMAIN request, ChargedUpTo(i), ~CarriesCall(i)
  PROVE  /\ charge_promise(i) = {} =>
               /\ \A v : ~Rule(v, i)
               /\ ~Breaches(i) /\ Total(i) = Total(i - 1) + AttachedNative(request[i])
               /\ meters.native + AttachedNative(request[i]) <= grant.budget
         /\ \A s \in charge_promise(i) :
               (s.class = "grant_exhausted" => elsewhere = 0) => FirstOf(s, i)
<1>1. /\ \A p \in Calls(request) : p[1] # i
      /\ \A p \in TokenCalls(request) : p[1] # i
  BY CallsAre, TokenCallsAre DEF CarriesCall
<1>2. /\ i \in Nat /\ i - 1 \in 0..Len(request) /\ i \in 0..Len(request)
      /\ AttachedNative(request[i]) \in 0..MaxU128 /\ Total(i - 1) \in 0..MaxU128 /\ Total(i) \in 0..MaxU128
      /\ Total(i) = saturating_add(Total(i - 1), AttachedNative(request[i]))
  BY RequestShape, AttachedIsU128, RunningTotals
<1>3. /\ meters.native = grant.spent + elsewhere + Total(i - 1) /\ meters.native <= grant.budget /\ elsewhere \in Nat
      /\ grant.budget \in 0..(MaxU128 - 1) /\ grant.spent \in 0..grant.budget
  BY DEF ChargedUpTo, GrantOK
<1> DEFINE Exceeds == meters.native + AttachedNative(request[i]) > grant.budget
<1>4. /\ Breaches(i) => Exceeds
      /\ Exceeds /\ elsewhere = 0 => Breaches(i)
      /\ ~Exceeds => meters.native + AttachedNative(request[i]) <= grant.budget
  <2> DEFINE a == AttachedNative(request[i])
             b == Total(i - 1)
             m == meters.native
  <2>1. /\ a \in Nat /\ b \in Nat /\ m \in Nat /\ m = grant.spent + elsewhere + b
        /\ grant.budget \in 0..(MaxU128 - 1) /\ grant.spent \in 0..grant.budget
    BY <1>2, <1>3
  <2>2. Left = grant.budget - grant.spent
    BY <2>1 DEF Left, saturating_sub
  <2>3. Total(i) = IF b + a > MaxU128 THEN MaxU128 ELSE b + a
    BY <1>2, <2>1 DEF saturating_add, Capped
  <2> HIDE DEF a, b, m
  <2>4. Total(i) > Left <=> grant.spent + b + a > grant.budget
    BY <1>3, <2>1, <2>2, <2>3
  <2>5. Breaches(i) <=> grant.spent + b + a > grant.budget
    BY <2>4 DEF Breaches
  <2>6. Exceeds <=> m + a > grant.budget
    BY DEF a, m
  <2> HIDE DEF Exceeds
  <2>7. ~Exceeds => m + a <= grant.budget
    BY <2>1, <2>6
  <2> QED
    BY <1>3, <2>1, <2>5, <2>6, <2>7 DEF a, m
<1>5. ~Breaches(i) => Total(i) = Total(i - 1) + AttachedNative(request[i])
  BY SMTT(30), <1>2, <1>3 DEF Breaches, Left, saturating_add, Capped, saturating_sub
<1>6. Breaches(i) => \A k : Breaches(k) => i <= k
  <2>1. \A k \in 1..(i - 1) : ~Breaches(k)
    BY DEF ChargedUpTo
  <2>2. \A k : Breaches(k) => k \in Nat /\ k >= 1
    BY RequestShape DEF Breaches
  <2>3. i \in Nat
    BY <1>2
  <2> QED
    BY <2>1, <2>2, <2>3
<1>7. (\E j \in DOMAIN request[i].actions : request[i].actions[j].action # "transfer")
        <=> \E p \in Places(request) : p[1] = i /\ ActionAt(request, p).action = "deterministic_state_init"
  <2>1. ASSUME NEW j \in DOMAIN request[i].actions, request[i].actions[j].action # "transfer"
        PROVE  \E p \in Places(request) : p[1] = i /\ ActionAt(request, p).action = "deterministic_state_init"
    <3>1. request[i].actions[j].action = "deterministic_state_init"
      BY <2>1, RequestShape DEF IsAction, CarriesCall
    <3>2. <<i, j>> \in Places(request) /\ ActionAt(request, <<i, j>>).action = "deterministic_state_init"
      BY <3>1 DEF Places, ActionAt
    <3> QED
      BY <3>2
  <2>2. ASSUME NEW p \in Places(request), p[1] = i, ActionAt(request, p).action = "deterministic_state_init"
        PROVE  \E j \in DOMAIN request[i].actions : request[i].actions[j].action # "transfer"
    BY <2>2, PlacesAre DEF ActionAt
  <2> QED
    BY <2>1, <2>2
<1> DEFINE Brings(v) == \E p \in Places(request) :
                         /\ p[1] = i /\ ActionAt(request, p).action = "deterministic_state_init"
                         /\ v = OnRung(i, 3, "grant_action_not_allowed")
<1>8. \A v : Rule(v, i) <=>
        \/ v = OnRung(i, 1, "refund_target_not_allowed") /\ request[i].refund_to # NoAccount
        \/ v = OnRung(i, 2, "receiver_not_granted") /\ request[i].receiver_id \notin grant.receivers
        \/ Brings(v)
        \/ v = OnRung(i, 4, "grant_exhausted") /\ Breaches(i)
  BY <1>1, <1>6 DEF Rule, FormRule, MethodRule, ReceiverRule, MoveRule, OwnRule
<1>9. \A v : Rule(v, i) <=>
        \/ v = OnRung(i, 1, "refund_target_not_allowed") /\ request[i].refund_to # NoAccount
        \/ v = OnRung(i, 2, "receiver_not_granted") /\ request[i].receiver_id \notin grant.receivers
        \/ /\ v = OnRung(i, 3, "grant_action_not_allowed")
           /\ \E j \in DOMAIN request[i].actions : request[i].actions[j].action # "transfer"
        \/ v = OnRung(i, 4, "grant_exhausted") /\ Breaches(i)
  BY <1>7, <1>8
<1>10. charge_promise(i) = charge_transfer(i)
  BY DEF charge_promise
<1> DEFINE Refund == request[i].refund_to # NoAccount
           Payee == request[i].receiver_id \in grant.receivers
           Plain == \A j \in DOMAIN request[i].actions : request[i].actions[j].action = "transfer"
<1>11. \A v : Rule(v, i) <=>
         \/ v = OnRung(i, 1, "refund_target_not_allowed") /\ Refund
         \/ v = OnRung(i, 2, "receiver_not_granted") /\ ~Payee
         \/ v = OnRung(i, 3, "grant_action_not_allowed") /\ ~Plain
         \/ v = OnRung(i, 4, "grant_exhausted") /\ Breaches(i)
  BY <1>9
<1>12. charge_promise(i) =
         IF Refund THEN {OnRung(i, 1, "refund_target_not_allowed")}
         ELSE IF ~Payee THEN {OnRung(i, 2, "receiver_not_granted")}
         ELSE IF ~Plain THEN {OnRung(i, 3, "grant_action_not_allowed")}
         ELSE IF Exceeds THEN {OnRung(i, 4, "grant_exhausted")}
         ELSE {}
  BY <1>10 DEF charge_transfer
<1> HIDE DEF Refund, Payee, Plain, Exceeds
<1>13. charge_promise(i) = {} => (\A v : ~Rule(v, i)) /\ ~Breaches(i) /\ ~Exceeds
  BY <1>4, <1>11, <1>12
<1>14. ASSUME NEW s \in charge_promise(i), s.class = "grant_exhausted" => elsewhere = 0
       PROVE  FirstOf(s, i)
  <2>0. \/ s = OnRung(i, 1, "refund_target_not_allowed") /\ Refund
        \/ s = OnRung(i, 2, "receiver_not_granted") /\ ~Payee /\ ~Refund
        \/ s = OnRung(i, 3, "grant_action_not_allowed") /\ ~Plain /\ Payee /\ ~Refund
        \/ s = OnRung(i, 4, "grant_exhausted") /\ Exceeds /\ Plain /\ Payee /\ ~Refund
    BY <1>12, <1>14
  <2>1. \/ s = OnRung(i, 1, "refund_target_not_allowed") /\ Refund
        \/ s = OnRung(i, 2, "receiver_not_granted") /\ ~Payee /\ ~Refund
        \/ s = OnRung(i, 3, "grant_action_not_allowed") /\ ~Plain /\ Payee /\ ~Refund
        \/ s = OnRung(i, 4, "grant_exhausted") /\ Breaches(i) /\ Plain /\ Payee /\ ~Refund
    BY <1>4, <1>14, <2>0, RungsSay DEF Says
  <2>2. Rule(s, i) /\ s.promise_index = i /\ s.stage = "Promise"
    BY <1>11, <2>1, RungsSay DEF Says
  <2>3. ASSUME NEW v, Rule(v, i)
        PROVE  v.rung > s.rung \/ (v.rung = s.rung /\ v.class = s.class)
    BY <1>11, <2>1, <2>3, RungsSay DEF Says
  <2> QED
    BY <2>2, <2>3 DEF FirstOf
<1> QED
  BY <1>4, <1>5, <1>13, <1>14

\* A promise that carries one action, a call.
LEMMA StandAlone ==
  ASSUME IsRequest(request), NEW i \in DOMAIN request, CarriesCall(i), ~(Len(request[i].actions) > 1)
  PROVE  LET c == request[i].actions[1] IN
         /\ IsAction(c) /\ c.action = "function_call"
         /\ \E p \in Calls(request) : p[1] = i /\ ActionAt(request, p) = c
         /\ \A p \in Places(request) : p[1] = i => ActionAt(request, p) = c
         /\ (CHOOSE j \in DOMAIN request[i].actions : request[i].actions[j].action = "function_call") = 1
<1>1. DOMAIN request[i].actions = {1}
  BY RequestShape DEF CarriesCall
<1>2. request[i].actions[1].action = "function_call"
  BY <1>1 DEF CarriesCall
<1>3. IsAction(request[i].actions[1])
  BY <1>1, RequestShape
<1>4. \E p \in Calls(request) : p[1] = i /\ ActionAt(request, p) = request[i].actions[1]
  BY <1>1, <1>2, PlaceOfCall
<1>5. \A p \in Places(request) : p[1] = i => ActionAt(request, p) = request[i].actions[1]
  BY <1>1, PlacesAre DEF ActionAt
<1>6. (CHOOSE j \in DOMAIN request[i].actions : request[i].actions[j].action = "function_call") = 1
  BY <1>1, <1>2
<1> QED
  BY <1>2, <1>3, <1>4, <1>5, <1>6

\* A call's units against what the grant said was left of the token.
OverBudget(i, c) ==
  LET token == request[i].receiver_id IN
  c.args.units > saturating_sub(grant.tokens[token].budget, grant.tokens[token].spent)

\* What the pre-flight lists of a call c that stands alone in promise i, rung by rung.
CallRule(v, i, c) ==
  LET token == request[i].receiver_id IN
  \/ v = OnRung(i, 1, "refund_target_not_allowed") /\ request[i].refund_to # NoAccount
  \/ v = OnRung(i, 3, "grant_call_deposit") /\ c.amount # 1
  \/ v = OnRung(i, 4, "own_collection_refused") /\ token = Collection
  \/ v = OnRung(i, 5, "grant_method_not_allowed") /\ c.method \notin {"ft_transfer", "nft_transfer"}
  \/ /\ c.method \in {"ft_transfer", "nft_transfer"}
     /\ \/ /\ v = OnRung(i, 6, "grant_args_unreadable")
           /\ c.args.readable = "no" \/ (c.args.readable = "yes" /\ c.args.extra = "unknown field")
        \/ /\ c.args.readable = "yes"
           /\ \/ /\ v = OnRung(i, 7, "grant_approval_not_allowed")
                 /\ c.method = "nft_transfer" /\ c.args.approval_id = "set"
              \/ v = OnRung(i, 8, "receiver_not_granted") /\ c.args.to \notin grant.receivers
              \/ /\ c.method = "ft_transfer"
                 /\ \/ v = OnRung(i, 9, "token_not_granted") /\ token \notin DOMAIN grant.tokens
                    \/ v = OnRung(i, 10, "token_budget_exceeded") /\ token \in DOMAIN grant.tokens /\ OverBudget(i, c)
              \/ /\ c.method = "nft_transfer"
                 /\ \/ v = OnRung(i, 9, "collection_not_granted") /\ token \notin DOMAIN grant.items
                    \/ /\ v = OnRung(i, 10, "item_not_granted") /\ token \in DOMAIN grant.items
                       /\ c.args.item \notin grant.items[token]

LEMMA RulesOfStandAlone ==
  ASSUME IsRequest(request), NEW i \in DOMAIN request, CarriesCall(i), ~(Len(request[i].actions) > 1), NEW v
  PROVE  Rule(v, i) <=> CallRule(v, i, request[i].actions[1])
<1> DEFINE c == request[i].actions[1]
<1>1. /\ c.action = "function_call" /\ c.args.readable \in {"yes", "no"}
      /\ \E p \in Calls(request) : p[1] = i /\ ActionAt(request, p) = c
      /\ \A p \in Calls(request) : p[1] = i => ActionAt(request, p) = c
      /\ \A p \in Places(request) : p[1] = i => ActionAt(request, p) = c
  BY StandAlone DEF IsAction, Calls
<1>2. \A p \in Calls(request) :
        p[1] = i => (p \in TokenCalls(request) <=> c.method \in {"ft_transfer", "nft_transfer"} /\ c.args.readable = "yes")
  BY <1>1 DEF TokenCalls, Reads
<1> HIDE DEF c
<1>3. FormRule(v, i) <=>
        \/ v = OnRung(i, 1, "refund_target_not_allowed") /\ request[i].refund_to # NoAccount
        \/ v = OnRung(i, 3, "grant_call_deposit") /\ c.amount # 1
        \/ /\ c.method \in {"ft_transfer", "nft_transfer"} /\ c.args.readable = "yes"
           /\ \/ v = OnRung(i, 6, "grant_args_unreadable") /\ c.args.extra = "unknown field"
              \/ v = OnRung(i, 7, "grant_approval_not_allowed") /\ c.method = "nft_transfer" /\ c.args.approval_id = "set"
  BY <1>1, <1>2, TokenCallsAre DEF FormRule
<1>4. MethodRule(v, i) <=>
        \/ v = OnRung(i, 5, "grant_method_not_allowed") /\ c.method \notin {"ft_transfer", "nft_transfer"}
        \/ /\ v = OnRung(i, 6, "grant_args_unreadable") /\ c.method \in {"ft_transfer", "nft_transfer"}
           /\ c.args.readable = "no"
  BY <1>1, <1>2, TokenCallsAre DEF MethodRule, Reads
<1>5. ReceiverRule(v, i) <=>
        /\ c.method \in {"ft_transfer", "nft_transfer"} /\ c.args.readable = "yes"
        /\ v = OnRung(i, 8, "receiver_not_granted") /\ c.args.to \notin grant.receivers
  BY <1>1, <1>2, TokenCallsAre DEF ReceiverRule
<1>6. MoveRule(v, i) <=>
        /\ c.method \in {"ft_transfer", "nft_transfer"} /\ c.args.readable = "yes"
        /\ LET token == request[i].receiver_id IN
           \/ /\ c.method = "ft_transfer"
              /\ \/ v = OnRung(i, 9, "token_not_granted") /\ token \notin DOMAIN grant.tokens
                 \/ v = OnRung(i, 10, "token_budget_exceeded") /\ token \in DOMAIN grant.tokens /\ OverBudget(i, c)
           \/ /\ c.method = "nft_transfer"
              /\ \/ v = OnRung(i, 9, "collection_not_granted") /\ token \notin DOMAIN grant.items
                 \/ /\ v = OnRung(i, 10, "item_not_granted") /\ token \in DOMAIN grant.items
                    /\ c.args.item \notin grant.items[token]
  BY <1>1, <1>2, TokenCallsAre DEF MoveRule, OverBudget
<1>7. OwnRule(v, i) <=> v = OnRung(i, 4, "own_collection_refused") /\ request[i].receiver_id = Collection
  BY DEF OwnRule
<1>8. ~Breaches(i)
  BY DEF Breaches
<1> QED
  BY <1>3, <1>4, <1>5, <1>6, <1>7, <1>8 DEF Rule, CallRule, c

\* A token's budget is crossed at promise i only because of what was charged before.
Crossed(i) ==
  /\ request[i].receiver_id \in DOMAIN grant.tokens
  /\ meters.tokens[request[i].receiver_id] # grant.tokens[request[i].receiver_id].spent

\* A promise that carries a call: the same, but for a token budget that this very
\* request has used up; and a move that is charged is within the budget.
LEMMA CallPromise ==
  ASSUME MaxU128 \in Nat, IsRequest(request), GrantOK, NEW i \in DOMAIN request, ChargedUpTo(i), CarriesCall(i)
  PROVE  /\ charge_promise(i) = {} =>
               /\ \A v : ~Rule(v, i)
               /\ LET c == request[i].actions[1] IN
                  c.method = "ft_transfer" =>
                    /\ request[i].receiver_id \in DOMAIN grant.tokens /\ c.args.units \in 0..MaxU128
                    /\ meters.tokens[request[i].receiver_id] + c.args.units <= grant.tokens[request[i].receiver_id].budget
         /\ \A s \in charge_promise(i) :
               (s.class = "token_budget_exceeded" => ~Crossed(i)) => FirstOf(s, i)
<1> DEFINE c == request[i].actions[1]
<1>1. charge_promise(i) = charge_token_call(i)
  BY DEF charge_promise
<1>2. CASE Len(request[i].actions) > 1
  <2>1. PICK p \in Calls(request) : p[1] = i
    BY SMTT(30), PlaceOfCall DEF CarriesCall
  <2> DEFINE refund == OnRung(i, 1, "refund_target_not_allowed")
             alone == OnRung(i, 2, "grant_call_must_stand_alone")
  <2>2. charge_promise(i) = IF request[i].refund_to # NoAccount THEN {refund} ELSE {alone}
    BY <1>1, <1>2 DEF charge_token_call
  <2>3. Rule(alone, i) /\ (request[i].refund_to # NoAccount => Rule(refund, i))
    BY <1>2, <2>1 DEF Rule, FormRule
  <2>4. ASSUME NEW v, Rule(v, i)
        PROVE  \/ v = refund /\ request[i].refund_to # NoAccount
               \/ v = alone \/ v.rung \in 3..10
    <3>1. FormRule(v, i) =>
            \/ v = refund /\ request[i].refund_to # NoAccount
            \/ v \in {alone, OnRung(i, 3, "grant_call_deposit"), OnRung(i, 6, "grant_args_unreadable"),
                     OnRung(i, 7, "grant_approval_not_allowed")}
      BY DEF FormRule
    <3>2. MethodRule(v, i) =>
            v \in {OnRung(i, 3, "grant_action_not_allowed"), OnRung(i, 5, "grant_method_not_allowed"),
                  OnRung(i, 6, "grant_args_unreadable")}
      BY DEF MethodRule
    <3>3. ReceiverRule(v, i) \/ OwnRule(v, i) =>
            v \in {OnRung(i, 4, "own_collection_refused"), OnRung(i, 8, "receiver_not_granted")}
      BY DEF ReceiverRule, OwnRule
    <3>4. MoveRule(v, i) =>
            v \in {OnRung(i, 9, "token_not_granted"), OnRung(i, 10, "token_budget_exceeded"),
                  OnRung(i, 9, "collection_not_granted"), OnRung(i, 10, "item_not_granted")}
      BY DEF MoveRule
    <3>5. \/ v = refund /\ request[i].refund_to # NoAccount
          \/ v \in {alone, OnRung(i, 3, "grant_call_deposit"), OnRung(i, 6, "grant_args_unreadable"),
                   OnRung(i, 7, "grant_approval_not_allowed"),
                   OnRung(i, 3, "grant_action_not_allowed"), OnRung(i, 5, "grant_method_not_allowed"),
                   OnRung(i, 4, "own_collection_refused"), OnRung(i, 8, "receiver_not_granted"),
                   OnRung(i, 9, "token_not_granted"), OnRung(i, 10, "token_budget_exceeded"),
                   OnRung(i, 9, "collection_not_granted"), OnRung(i, 10, "item_not_granted")}
      BY <2>4, <3>1, <3>2, <3>3, <3>4 DEF Rule, Breaches
    <3> QED
      BY <3>5, RungsSay DEF Says
  <2>5. charge_promise(i) # {}
    BY <2>2
  <2>6. ASSUME NEW s \in charge_promise(i)
        PROVE  FirstOf(s, i)
    <3>1. s = IF request[i].refund_to # NoAccount THEN refund ELSE alone
      BY <2>2
    <3>2. Rule(s, i) /\ s.promise_index = i /\ s.stage = "Promise"
      BY <2>3, <3>1, RungsSay DEF Says
    <3>3. refund.rung = 1 /\ alone.rung = 2
      BY RungsSay DEF Says
    <3>4. ASSUME NEW v, Rule(v, i)
          PROVE  v.rung > s.rung \/ (v.rung = s.rung /\ v.class = s.class)
      <4> HIDE DEF refund, alone
      <4>1. v = refund \/ v = alone \/ v.rung \in 3..10
        BY <2>4, <3>4
      <4>2. v = refund => s = refund
        BY <2>4, <3>1, <3>3, <3>4
      <4>3. s = refund \/ s = alone
        BY <3>1
      <4>4. CASE v = refund
        BY <4>2, <4>4
      <4>5. CASE v = alone
        BY <3>3, <4>3, <4>5
      <4>6. CASE v.rung \in 3..10
        BY <3>3, <4>3, <4>6
      <4> QED
        BY <4>1, <4>4, <4>5, <4>6
    <3> QED
      BY <3>2, <3>4 DEF FirstOf
  <2> QED
    BY <2>5, <2>6
<1>3. CASE ~(Len(request[i].actions) > 1)
  <2>1. /\ IsAction(c) /\ c.action = "function_call"
        /\ c = request[i].actions[CHOOSE j \in DOMAIN request[i].actions : request[i].actions[j].action = "function_call"]
    BY <1>3, StandAlone
  <2>2. \A v : Rule(v, i) <=> CallRule(v, i, c)
    BY <1>3, RulesOfStandAlone
  <2> HIDE DEF c
  <2>3. charge_promise(i) =
          IF request[i].refund_to # NoAccount THEN {OnRung(i, 1, "refund_target_not_allowed")}
          ELSE IF c.amount # 1 THEN {OnRung(i, 3, "grant_call_deposit")}
          ELSE IF request[i].receiver_id = Collection THEN {OnRung(i, 4, "own_collection_refused")}
          ELSE IF c.method \notin {"ft_transfer", "nft_transfer"} THEN {OnRung(i, 5, "grant_method_not_allowed")}
          ELSE IF c.args.readable = "no" \/ (c.args.readable = "yes" /\ c.args.extra = "unknown field")
               THEN {OnRung(i, 6, "grant_args_unreadable")}
          ELSE IF c.method = "nft_transfer" /\ c.args.approval_id = "set"
               THEN {OnRung(i, 7, "grant_approval_not_allowed")}
          ELSE charge_move(i, c)
    BY <1>1, <1>3, <2>1 DEF charge_token_call
  <2>4. c.args.readable \in {"yes", "no"} /\ (c.args.readable = "yes" => c.args.units \in 0..MaxU128)
    BY <2>1 DEF IsAction
  <2> DEFINE token == request[i].receiver_id
             Crosses == meters.tokens[token] + c.args.units > grant.tokens[token].budget
  <2>5. c.args.readable = "yes" /\ token \in DOMAIN grant.tokens =>
          /\ ~Crosses => ~OverBudget(i, c)
          /\ ~Crossed(i) => (Crosses <=> OverBudget(i, c))
          /\ ~Crosses => meters.tokens[token] + c.args.units <= grant.tokens[token].budget
    BY <2>4 DEF ChargedUpTo, GrantOK, Crossed, saturating_sub, OverBudget
  <2> HIDE DEF Crosses, token
  <2>6. charge_move(i, c) =
          IF c.args.to \notin grant.receivers THEN {OnRung(i, 8, "receiver_not_granted")}
          ELSE IF c.method = "ft_transfer" THEN
            IF token \notin DOMAIN grant.tokens THEN {OnRung(i, 9, "token_not_granted")}
            ELSE IF Crosses THEN {OnRung(i, 10, "token_budget_exceeded")} ELSE {}
          ELSE IF token \notin DOMAIN grant.items THEN {OnRung(i, 9, "collection_not_granted")}
          ELSE IF c.args.item \notin grant.items[token] THEN {OnRung(i, 10, "item_not_granted")} ELSE {}
    BY DEF charge_move, Crosses, token
  <2>7. ASSUME charge_promise(i) = {}
        PROVE  /\ \A v : ~CallRule(v, i, c)
               /\ c.method = "ft_transfer" =>
                    token \in DOMAIN grant.tokens /\ c.args.readable = "yes" /\ ~Crosses
    <3>1. /\ request[i].refund_to = NoAccount /\ c.amount = 1 /\ token # Collection
          /\ c.method \in {"ft_transfer", "nft_transfer"}
          /\ c.args.readable = "yes" /\ c.args.extra # "unknown field"
          /\ ~(c.method = "nft_transfer" /\ c.args.approval_id = "set")
          /\ charge_move(i, c) = {}
      BY <2>3, <2>4, <2>7 DEF token
    <3>2. /\ c.args.to \in grant.receivers
          /\ c.method = "ft_transfer" => token \in DOMAIN grant.tokens /\ ~Crosses
          /\ c.method = "nft_transfer" => token \in DOMAIN grant.items /\ c.args.item \in grant.items[token]
      BY <2>6, <3>1
    <3> QED
      BY <2>5, <3>1, <3>2 DEF CallRule, token
  <2>8. ASSUME NEW s \in charge_promise(i), s.class = "token_budget_exceeded" => ~Crossed(i)
        PROVE  /\ CallRule(s, i, c) /\ s.promise_index = i /\ s.stage = "Promise"
               /\ \A v : CallRule(v, i, c) => v.rung > s.rung \/ (v.rung = s.rung /\ v.class = s.class)
    <3> DEFINE Refund == request[i].refund_to # NoAccount
               Deposit == c.amount # 1
               Own == token = Collection
               Other == c.method \notin {"ft_transfer", "nft_transfer"}
               Ft == c.method = "ft_transfer"
               Nft == c.method = "nft_transfer"
               Unread == c.args.readable = "no" \/ (c.args.readable = "yes" /\ c.args.extra = "unknown field")
               Reads_ == c.args.readable = "yes"
               Approval == c.args.approval_id = "set"
               Payee == c.args.to \in grant.receivers
               HasToken == token \in DOMAIN grant.tokens
               HasItems == token \in DOMAIN grant.items
               Fenced == c.args.item \in grant.items[token]
               Over == OverBudget(i, c)
    <3>1. ASSUME NEW v
          PROVE  CallRule(v, i, c) <=>
                   \/ v = OnRung(i, 1, "refund_target_not_allowed") /\ Refund
                   \/ v = OnRung(i, 3, "grant_call_deposit") /\ Deposit
                   \/ v = OnRung(i, 4, "own_collection_refused") /\ Own
                   \/ v = OnRung(i, 5, "grant_method_not_allowed") /\ Other
                   \/ v = OnRung(i, 6, "grant_args_unreadable") /\ ~Other /\ Unread
                   \/ v = OnRung(i, 7, "grant_approval_not_allowed") /\ Reads_ /\ Nft /\ Approval
                   \/ v = OnRung(i, 8, "receiver_not_granted") /\ ~Other /\ Reads_ /\ ~Payee
                   \/ v = OnRung(i, 9, "token_not_granted") /\ Reads_ /\ Ft /\ ~HasToken
                   \/ v = OnRung(i, 10, "token_budget_exceeded") /\ Reads_ /\ Ft /\ HasToken /\ Over
                   \/ v = OnRung(i, 9, "collection_not_granted") /\ Reads_ /\ Nft /\ ~HasItems
                   \/ v = OnRung(i, 10, "item_not_granted") /\ Reads_ /\ Nft /\ HasItems /\ ~Fenced
      BY DEF CallRule, token
    <3>2. /\ Ft => ~Nft /\ ~Other
          /\ Nft => ~Ft /\ ~Other
          /\ ~Other => Ft \/ Nft
          /\ ~Unread => Reads_
      BY <2>4
    <3>3. Reads_ /\ HasToken => (~Crosses => ~Over) /\ (~Crossed(i) => (Crosses <=> Over))
      BY <2>5
    <3>4. \/ s = OnRung(i, 1, "refund_target_not_allowed") /\ Refund
          \/ s = OnRung(i, 3, "grant_call_deposit") /\ Deposit /\ ~Refund
          \/ s = OnRung(i, 4, "own_collection_refused") /\ Own /\ ~Deposit /\ ~Refund
          \/ s = OnRung(i, 5, "grant_method_not_allowed") /\ Other /\ ~Own /\ ~Deposit /\ ~Refund
          \/ /\ ~Other /\ ~Own /\ ~Deposit /\ ~Refund
             /\ \/ s = OnRung(i, 6, "grant_args_unreadable") /\ Unread
                \/ /\ ~Unread
                   /\ \/ s = OnRung(i, 7, "grant_approval_not_allowed") /\ Nft /\ Approval
                      \/ /\ ~(Nft /\ Approval)
                         /\ \/ s = OnRung(i, 8, "receiver_not_granted") /\ ~Payee
                            \/ s = OnRung(i, 9, "token_not_granted") /\ Ft /\ ~HasToken /\ Payee
                            \/ s = OnRung(i, 10, "token_budget_exceeded") /\ Ft /\ HasToken /\ Crosses /\ Payee
                            \/ s = OnRung(i, 9, "collection_not_granted") /\ ~Ft /\ ~HasItems /\ Payee
                            \/ s = OnRung(i, 10, "item_not_granted") /\ ~Ft /\ HasItems /\ ~Fenced /\ Payee
      BY <2>3, <2>6 DEF token
    <3> HIDE DEF Refund, Deposit, Own, Other, Ft, Nft, Unread, Reads_, Approval, Payee, HasToken, HasItems, Fenced, Over
    <3>5. CallRule(s, i, c)
      BY <2>8, <3>1, <3>2, <3>3, <3>4, RungsSay DEF Says
    <3>6. s.promise_index = i /\ s.stage = "Promise"
      BY <3>4, RungsSay DEF Says
    <3>7. ASSUME NEW v, CallRule(v, i, c)
          PROVE  v.rung > s.rung \/ (v.rung = s.rung /\ v.class = s.class)
      BY <3>1, <3>2, <3>4, <3>7, RungsSay DEF Says
    <3> QED
      BY <3>5, <3>6, <3>7
  <2>9. ASSUME NEW s \in charge_promise(i), s.class = "token_budget_exceeded" => ~Crossed(i)
        PROVE  FirstOf(s, i)
    BY <2>2, <2>8, <2>9 DEF FirstOf
  <2>10. charge_promise(i) = {} =>
           /\ \A v : ~Rule(v, i)
           /\ c.method = "ft_transfer" =>
                /\ token \in DOMAIN grant.tokens /\ c.args.units \in 0..MaxU128
                /\ meters.tokens[token] + c.args.units <= grant.tokens[token].budget
    BY <2>2, <2>4, <2>5, <2>7
  <2> QED
    BY <2>9, <2>10 DEF c, token
<1> QED
  BY <1>2, <1>3

-----------------------------------------------------------------------------
(* The invariant.                                                          *)

\* What the pre-flight lists of the promises, every view read.
Listed ==
  LET fx == effects(request) IN
  form_violations(fx) \cup method_violations(fx) \cup native_violations(fx, grant)
  \cup receiver_violations(fx, grant) \cup move_violations(fx, grant) \cup check_own_collection(fx)

\* The verdict is the one of the views that were read.
Judged ==
  pc # "preflight" =>
    verdict = whole_verdict(effects(request), admission(effects(request), grant, "grant" \in seen, Now))

\* Nothing is listed of a promise that was charged, and the meters hold what was.
Cleared ==
  grant # NoGrant =>
    /\ ChargedUpTo(at)
    /\ \A v \in Listed : v.promise_index >= at

\* How the contract's pass ended.
Short == balance < attached[Len(request)] + reserve
Outcome ==
  \/ panic \in charge_door
  \/ /\ charge_door = {}
     /\ \/ at \in DOMAIN request /\ panic \in charge_promise(at)
        \/ at = Len(request) + 1 /\ Short /\ panic = Violation(0, "Reserve", 0, "insufficient_vs_reserve")
        \/ at = Len(request) + 1 /\ ~Short /\ panic = NoPanic

Phases ==
  /\ pc = "preflight" => verdict = {}
  /\ pc \in {"preflight", "door"} => at = 1
  /\ pc = "charging" => charge_door = {}
  /\ pc # "done" => panic = NoPanic
  /\ pc = "done" => Outcome

IInv == TypeOK /\ Judged /\ Cleared /\ Phases

LEMMA CaseFacts ==
  ASSUME TypeOK
  PROVE  /\ MaxU128 \in Nat /\ Now \in Nat /\ IsRequest(request)
         /\ balance \in 0..(MaxU128 - 1) /\ reserve \in 0..MaxU128
         /\ reserve = 0 => NativeTotal(request) <= balance
         /\ grant # NoGrant => GrantOK /\ grant.expires_at \in Nat
         /\ Len(request) \in Nat /\ DOMAIN request = 1..Len(request)
<1> DEFINE c == [request |-> request, grant |-> grant, balance |-> balance, reserve |-> reserve]
<1>1. c \in Cases
  BY DEF TypeOK
<1>2. c.request = request /\ c.grant = grant /\ c.balance = balance /\ c.reserve = reserve
  OBVIOUS
<1> HIDE DEF c
<1>3. /\ MaxU128 \in Nat /\ Now \in Nat /\ IsRequest(request)
      /\ balance \in 0..(MaxU128 - 1) /\ reserve \in 0..MaxU128
      /\ reserve = 0 => NativeTotal(request) <= balance
      /\ grant # NoGrant =>
           /\ grant.budget \in 0..(MaxU128 - 1) /\ grant.spent \in 0..grant.budget
           /\ grant.expires_at \in Nat
           /\ \A t \in DOMAIN grant.tokens :
                grant.tokens[t].budget \in 0..MaxU128 /\ grant.tokens[t].spent \in 0..grant.tokens[t].budget
  BY <1>1, <1>2, CasesAssumption
<1> QED
  BY <1>3, RequestShape DEF GrantOK

\* Every rule is about the promise it names.
LEMMA RuleIsAbout ==
  ASSUME NEW i, NEW v, Rule(v, i)
  PROVE  v.promise_index = i /\ v.stage = "Promise" /\ v.rung \in 1..10
<1>1. FormRule(v, i) \/ MethodRule(v, i) \/ ReceiverRule(v, i) \/ OwnRule(v, i) =>
        v \in {OnRung(i, 1, "refund_target_not_allowed"), OnRung(i, 2, "grant_call_must_stand_alone"),
              OnRung(i, 2, "receiver_not_granted"), OnRung(i, 3, "grant_call_deposit"),
              OnRung(i, 3, "grant_action_not_allowed"), OnRung(i, 4, "own_collection_refused"),
              OnRung(i, 5, "grant_method_not_allowed"), OnRung(i, 6, "grant_args_unreadable"),
              OnRung(i, 7, "grant_approval_not_allowed"), OnRung(i, 8, "receiver_not_granted")}
  BY DEF FormRule, MethodRule, ReceiverRule, OwnRule
<1>2. MoveRule(v, i) =>
        v \in {OnRung(i, 9, "token_not_granted"), OnRung(i, 10, "token_budget_exceeded"),
              OnRung(i, 9, "collection_not_granted"), OnRung(i, 10, "item_not_granted")}
  BY DEF MoveRule
<1>3. v \in {OnRung(i, 1, "refund_target_not_allowed"), OnRung(i, 2, "grant_call_must_stand_alone"),
            OnRung(i, 2, "receiver_not_granted"), OnRung(i, 3, "grant_call_deposit"),
            OnRung(i, 3, "grant_action_not_allowed"), OnRung(i, 4, "own_collection_refused"),
            OnRung(i, 5, "grant_method_not_allowed"), OnRung(i, 6, "grant_args_unreadable"),
            OnRung(i, 7, "grant_approval_not_allowed"), OnRung(i, 8, "receiver_not_granted"),
            OnRung(i, 9, "token_not_granted"), OnRung(i, 10, "token_budget_exceeded"),
            OnRung(i, 9, "collection_not_granted"), OnRung(i, 10, "item_not_granted"),
            OnRung(i, 4, "grant_exhausted")}
  BY <1>1, <1>2 DEF Rule
<1> QED
  BY <1>3, RungsSay DEF Says

LEMMA ListedAre ==
  ASSUME NEW v
  PROVE  v \in Listed <=> \E i \in DOMAIN request : Rule(v, i)
<1>1. v \in native_violations(effects(request), grant) <=>
        \E i \in DOMAIN request :
          v = OnRung(i, 4, "grant_exhausted") /\ Breaches(i) /\ \A k : Breaches(k) => i <= k
  BY NativeViolations DEF Breaches
<1> QED
  BY <1>1, FormViolations, MethodViolations, ReceiverViolations, MoveViolations, OwnViolations DEF Listed, Rule

LEMMA ListedAbout ==
  ASSUME NEW v \in Listed
  PROVE  v.promise_index \in DOMAIN request /\ v.stage = "Promise" /\ Rule(v, v.promise_index)
  BY ListedAre, RuleIsAbout

\* A stop of the contract at promise i names it.
LEMMA StopIsAbout ==
  ASSUME NEW i, NEW s \in charge_promise(i)
  PROVE  s.promise_index = i /\ s.stage = "Promise"
<1>1. charge_transfer(i) \subseteq
        {OnRung(i, 1, "refund_target_not_allowed"), OnRung(i, 2, "receiver_not_granted"),
         OnRung(i, 3, "grant_action_not_allowed"), OnRung(i, 4, "grant_exhausted")}
  BY DEF charge_transfer
<1>2. \A c : charge_move(i, c) \subseteq
        {OnRung(i, 8, "receiver_not_granted"), OnRung(i, 9, "token_not_granted"), OnRung(i, 10, "token_budget_exceeded"),
         OnRung(i, 9, "collection_not_granted"), OnRung(i, 10, "item_not_granted")}
  BY SMTT(30) DEF charge_move
<1>3. charge_token_call(i) \subseteq
        {OnRung(i, 1, "refund_target_not_allowed"), OnRung(i, 2, "grant_call_must_stand_alone"),
         OnRung(i, 3, "grant_call_deposit"), OnRung(i, 4, "own_collection_refused"),
         OnRung(i, 5, "grant_method_not_allowed"), OnRung(i, 6, "grant_args_unreadable"),
         OnRung(i, 7, "grant_approval_not_allowed"),
         OnRung(i, 8, "receiver_not_granted"), OnRung(i, 9, "token_not_granted"), OnRung(i, 10, "token_budget_exceeded"),
         OnRung(i, 9, "collection_not_granted"), OnRung(i, 10, "item_not_granted")}
  BY <1>2 DEF charge_token_call
<1>4. s \in {OnRung(i, 1, "refund_target_not_allowed"), OnRung(i, 2, "grant_call_must_stand_alone"),
            OnRung(i, 2, "receiver_not_granted"), OnRung(i, 3, "grant_call_deposit"),
            OnRung(i, 3, "grant_action_not_allowed"), OnRung(i, 4, "own_collection_refused"),
            OnRung(i, 4, "grant_exhausted"),
            OnRung(i, 5, "grant_method_not_allowed"), OnRung(i, 6, "grant_args_unreadable"),
            OnRung(i, 7, "grant_approval_not_allowed"),
            OnRung(i, 8, "receiver_not_granted"), OnRung(i, 9, "token_not_granted"), OnRung(i, 10, "token_budget_exceeded"),
            OnRung(i, 9, "collection_not_granted"), OnRung(i, 10, "item_not_granted")}
  BY <1>1, <1>3 DEF charge_promise
<1> QED
  BY <1>4, RungsSay DEF Says

\* The verdict of a request no rule of the door stops.
LEMMA VerdictAre ==
  ASSUME NEW v,
         v \in whole_verdict(effects(request), admission(effects(request), grant, "grant" \in seen, Now))
  PROVE  \/ v \in door(grant, "grant" \in seen, Now)
         \/ v \in Listed
         \/ v = Violation(0, "Reserve", 0, "insufficient_vs_reserve")
  BY DEF whole_verdict, admission, Listed, check_reserve

LEMMA DoorAlone ==
  /\ \A v \in door(grant, "grant" \in seen, Now) : v.stage = "Door" /\ v.promise_index = 0
  /\ \A v \in charge_door : v.stage = "Door" /\ v.class # "executed"
  BY DEF door, charge_door, AtDoor, Violation

-----------------------------------------------------------------------------
(* The invariant is inductive.                                             *)

\* The meters after a promise the contract charges hold it, within the budgets.
LEMMA ChargedOn ==
  ASSUME MaxU128 \in Nat, IsRequest(request), GrantOK, NEW i \in DOMAIN request, ChargedUpTo(i), charge_promise(i) = {}
  PROVE  /\ ~Breaches(i) /\ \A v : ~Rule(v, i)
         /\ Charge(i).native = grant.spent + elsewhere + Total(i) /\ Charge(i).native <= grant.budget
         /\ Charge(i) \in [native : 0..MaxU128, tokens : [DOMAIN grant.tokens -> 0..MaxU128]]
         /\ \A t \in DOMAIN grant.tokens : Charge(i).tokens[t] \in grant.tokens[t].spent..grant.tokens[t].budget
<1>1. /\ meters.native = grant.spent + elsewhere + Total(i - 1) /\ meters.native <= grant.budget
      /\ elsewhere \in Nat
      /\ meters \in [native : 0..MaxU128, tokens : [DOMAIN grant.tokens -> 0..MaxU128]]
      /\ \A t \in DOMAIN grant.tokens : meters.tokens[t] \in grant.tokens[t].spent..grant.tokens[t].budget
  BY DEF ChargedUpTo
<1>2. /\ grant.budget \in 0..(MaxU128 - 1) /\ grant.spent \in 0..grant.budget
      /\ \A t \in DOMAIN grant.tokens :
           grant.tokens[t].budget \in 0..MaxU128 /\ grant.tokens[t].spent \in 0..grant.tokens[t].budget
  BY DEF GrantOK
<1>3. /\ Total(i - 1) \in 0..MaxU128 /\ Total(i) \in 0..MaxU128 /\ AttachedNative(request[i]) \in 0..MaxU128
      /\ CarriesCall(i) => Total(i) = Total(i - 1)
  BY RequestShape, RunningTotals, AttachedIsU128
<1>4. CASE ~CarriesCall(i)
  <2>1. /\ \A v : ~Rule(v, i)
        /\ ~Breaches(i) /\ Total(i) = Total(i - 1) + AttachedNative(request[i])
        /\ meters.native + AttachedNative(request[i]) <= grant.budget
    BY <1>4, PlainPromise
  <2>2. Charge(i) = [meters EXCEPT !.native = @ + AttachedNative(request[i])]
    BY <1>4 DEF Charge
  <2>3. Charge(i).native = meters.native + AttachedNative(request[i]) /\ Charge(i).tokens = meters.tokens
    BY <1>1, <2>2
  <2>4. Charge(i).native = grant.spent + elsewhere + Total(i) /\ Charge(i).native <= grant.budget
    BY <1>1, <1>2, <1>3, <2>1, <2>3
  <2>5. Charge(i) \in [native : 0..MaxU128, tokens : [DOMAIN grant.tokens -> 0..MaxU128]]
    BY <1>1, <1>2, <1>3, <2>1, <2>2
  <2> QED
    BY <1>1, <2>1, <2>3, <2>4, <2>5
<1>5. CASE CarriesCall(i)
  <2> DEFINE c == request[i].actions[1]
             t == request[i].receiver_id
  <2>1. /\ \A v : ~Rule(v, i)
        /\ c.method = "ft_transfer" =>
             /\ t \in DOMAIN grant.tokens /\ c.args.units \in 0..MaxU128
             /\ meters.tokens[t] + c.args.units <= grant.tokens[t].budget
    BY <1>5, CallPromise
  <2>2. ~Breaches(i)
    BY <1>5 DEF Breaches
  <2>3. Charge(i) = IF c.method = "ft_transfer" THEN [meters EXCEPT !.tokens[t] = @ + c.args.units] ELSE meters
    BY <1>5 DEF Charge
  <2> HIDE DEF c, t
  <2>4. CASE c.method = "ft_transfer"
    <3>1. Charge(i) = [meters EXCEPT !.tokens[t] = @ + c.args.units]
      BY <2>3, <2>4
    <3>2. meters.tokens[t] + c.args.units \in grant.tokens[t].spent..grant.tokens[t].budget
      BY <1>1, <1>2, <2>1, <2>4
    <3>3. meters.tokens[t] + c.args.units \in 0..MaxU128
      BY <1>2, <2>1, <2>4, <3>2
    <3>4. /\ Charge(i).native = meters.native
          /\ Charge(i).tokens = [meters.tokens EXCEPT ![t] = @ + c.args.units]
      BY <1>1, <3>1
    <3>5. Charge(i) \in [native : 0..MaxU128, tokens : [DOMAIN grant.tokens -> 0..MaxU128]]
      BY <1>1, <3>1, <3>3
    <3>6. \A u \in DOMAIN grant.tokens : Charge(i).tokens[u] \in grant.tokens[u].spent..grant.tokens[u].budget
      BY <1>1, <3>2, <3>4
    <3> QED
      BY <1>1, <1>3, <1>5, <2>1, <2>2, <3>4, <3>5, <3>6
  <2>5. CASE c.method # "ft_transfer"
    BY <1>1, <1>3, <1>5, <2>1, <2>2, <2>3, <2>5
  <2> QED
    BY <2>4, <2>5
<1> QED
  BY <1>4, <1>5

\* The verdict names promises of the request.
LEMMA VerdictNames ==
  ASSUME IsRequest(request),
         NEW v \in whole_verdict(effects(request), admission(effects(request), grant, "grant" \in seen, Now))
  PROVE  v.promise_index \in 0..Len(request)
<1>1. CASE v \in door(grant, "grant" \in seen, Now)
  BY <1>1, DoorAlone, RequestShape
<1>2. CASE v \in Listed
  BY <1>2, ListedAbout, RequestShape
<1>3. CASE v = Violation(0, "Reserve", 0, "insufficient_vs_reserve")
  BY <1>3, RequestShape DEF Violation
<1> QED
  BY <1>1, <1>2, <1>3, VerdictAre

\* The request and its account stay as they are throughout the pass.
Given == <<request, grant, balance, reserve, seen>>

LEMMA GivenStays ==
  ASSUME Given' = Given
  PROVE  /\ Listed' = Listed /\ charge_door' = charge_door /\ Short' = Short
         /\ whole_verdict(effects(request), admission(effects(request), grant, "grant" \in seen, Now))'
              = whole_verdict(effects(request), admission(effects(request), grant, "grant" \in seen, Now))
         /\ \A i : Breaches(i)' <=> Breaches(i)
         /\ \A i : Total(i)' = Total(i)
<1>1. request' = request /\ grant' = grant /\ balance' = balance /\ reserve' = reserve /\ seen' = seen
  BY DEF Given
<1>2. \A i : Total(i)' = Total(i)
  BY <1>1 DEF Total
<1>3. \A i : Breaches(i)' <=> Breaches(i)
  BY <1>1, <1>2 DEF Breaches, Left, CarriesCall
<1>4. Listed' = Listed
  BY <1>1 DEF Listed
<1>5. charge_door' = charge_door
  BY <1>1 DEF charge_door
<1>6. Short' = Short
  BY <1>1 DEF Short, attached
<1>7. whole_verdict(effects(request), admission(effects(request), grant, "grant" \in seen, Now))'
        = whole_verdict(effects(request), admission(effects(request), grant, "grant" \in seen, Now))
  BY <1>1 DEF whole_verdict, check_reserve
<1> QED
  BY <1>2, <1>3, <1>4, <1>5, <1>6, <1>7

LEMMA InitInvariant == Init => IInv
<1> SUFFICES ASSUME Init
             PROVE  IInv
  OBVIOUS
<1>1. PICK c \in Cases : request = c.request /\ grant = c.grant /\ balance = c.balance /\ reserve = c.reserve
  BY DEF Init
<1>2. /\ seen \subseteq {"grant", "collection", "balance"} /\ pc = "preflight" /\ verdict = {} /\ at = 1
      /\ elsewhere = 0 /\ panic = NoPanic
      /\ meters = IF grant = NoGrant THEN [native |-> 0, tokens |-> <<>>]
                  ELSE [native |-> grant.spent, tokens |-> [t \in DOMAIN grant.tokens |-> grant.tokens[t].spent]]
  BY DEF Init
<1>3. /\ [request |-> request, grant |-> grant, balance |-> balance, reserve |-> reserve] \in Cases
      /\ MaxU128 \in Nat /\ IsRequest(request) /\ (grant # NoGrant => GrantOK)
  BY <1>1, CasesAssumption DEF GrantOK
<1>4. Len(request) \in Nat /\ DOMAIN request = 1..Len(request) /\ Total(0) = 0
  BY <1>3, RequestShape, RunningTotals
<1>5. meters.native \in 0..MaxU128 /\ \A t \in DOMAIN meters.tokens : meters.tokens[t] \in 0..MaxU128
  <2>1. CASE grant = NoGrant
    BY <1>2, <1>3, <2>1
  <2>2. CASE grant # NoGrant
    BY <1>2, <1>3, <2>2 DEF GrantOK
  <2> QED
    BY <2>1, <2>2
<1>6. TypeOK
  BY <1>2, <1>3, <1>4, <1>5 DEF TypeOK
<1>7. Judged /\ Phases
  BY <1>2 DEF Judged, Phases
<1>8. ASSUME grant # NoGrant
      PROVE  ChargedUpTo(at) /\ \A v \in Listed : v.promise_index >= at
  <2>1. meters = [native |-> grant.spent, tokens |-> [t \in DOMAIN grant.tokens |-> grant.tokens[t].spent]]
    BY <1>2, <1>8
  <2>2. /\ grant.budget \in 0..(MaxU128 - 1) /\ grant.spent \in 0..grant.budget
        /\ \A t \in DOMAIN grant.tokens :
             grant.tokens[t].budget \in 0..MaxU128 /\ grant.tokens[t].spent \in 0..grant.tokens[t].budget
    BY <1>3, <1>8 DEF GrantOK
  <2>3. ChargedUpTo(1)
    BY <1>2, <1>3, <1>4, <2>1, <2>2 DEF ChargedUpTo
  <2>4. \A v \in Listed : v.promise_index >= 1
    BY <1>4, ListedAbout
  <2> QED
    BY <1>2, <2>3, <2>4
<1> QED
  BY <1>6, <1>7, <1>8 DEF IInv, Cleared

\* The type invariant of the next state, from the rest of the invariant there.
LEMMA TypeStays ==
  ASSUME TypeOK, Given' = Given, Judged', Phases', Cleared',
         pc' \in {"preflight", "door", "charging", "done"}, at' \in 1..(Len(request) + 1),
         grant = NoGrant => meters' = meters /\ elsewhere' = elsewhere
  PROVE  TypeOK'
<1>1. request' = request /\ grant' = grant /\ balance' = balance /\ reserve' = reserve /\ seen' = seen
  BY DEF Given
<1>2. \A v \in verdict' : v.promise_index \in 0..Len(request)
  <2>1. CASE pc' = "preflight"
    BY <2>1 DEF Phases
  <2>2. CASE pc' # "preflight"
    BY <2>2, CaseFacts, VerdictNames, GivenStays DEF Judged
  <2> QED
    BY <2>1, <2>2
<1>3. /\ elsewhere' \in 0..MaxU128
      /\ meters'.native \in 0..MaxU128 /\ \A t \in DOMAIN meters'.tokens : meters'.tokens[t] \in 0..MaxU128
  <2>1. CASE grant = NoGrant
    BY <2>1 DEF TypeOK
  <2>2. CASE grant # NoGrant
    <3>1. /\ elsewhere' \in 0..MaxU128
          /\ meters' \in [native : 0..MaxU128, tokens : [DOMAIN grant.tokens -> 0..MaxU128]]
      BY <1>1, <2>2 DEF Cleared, ChargedUpTo
    <3> QED
      BY <3>1
  <2> QED
    BY <2>1, <2>2
<1> QED
  BY <1>1, <1>2, <1>3 DEF TypeOK

\* Nothing was charged: what is cleared stays cleared.
LEMMA ClearedStays ==
  ASSUME Cleared, Given' = Given, at' = at, meters' = meters, elsewhere' = elsewhere
  PROVE  Cleared'
<1>1. grant' = grant
  BY DEF Given
<1>2. grant # NoGrant => ChargedUpTo(at)'
  BY <1>1, GivenStays DEF Cleared, ChargedUpTo
<1> QED
  BY <1>1, <1>2, GivenStays DEF Cleared

LEMMA PreflightKeeps == IInv /\ Preflight => IInv'
<1> SUFFICES ASSUME IInv, Preflight
             PROVE  IInv'
  OBVIOUS
<1>1. Given' = Given /\ at' = at /\ meters' = meters /\ elsewhere' = elsewhere /\ panic' = panic /\ pc = "preflight" /\ pc' = "door"
  BY DEF Preflight, Given
<1>2. Judged'
  BY <1>1, GivenStays DEF Preflight, Judged
<1>3. Cleared'
  BY <1>1, ClearedStays DEF IInv
<1>4. Phases'
  BY <1>1 DEF IInv, Phases
<1> QED
  BY <1>1, <1>2, <1>3, <1>4, TypeStays DEF IInv, TypeOK

\* A panic ends the pass, and so does the floor when it holds.
LEMMA EndKeeps ==
  ASSUME IInv, Given' = Given, verdict' = verdict, at' = at, meters' = meters, elsewhere' = elsewhere,
         pc \in {"door", "charging"}, pc' = "done", Outcome'
  PROVE  IInv'
<1>1. Judged'
  BY GivenStays DEF IInv, Judged
<1>2. Cleared'
  BY ClearedStays DEF IInv
<1>3. Phases'
  BY DEF Phases
<1> QED
  BY <1>1, <1>2, <1>3, TypeStays DEF IInv, TypeOK

\* Another caller's spend reaches the meters within the budgets, before any
\* promise of this request is charged.
LEMMA ChargeElsewhereKeeps == IInv /\ ChargeElsewhere => IInv'
<1> SUFFICES ASSUME IInv, ChargeElsewhere
             PROVE  IInv'
  OBVIOUS
<1>1. /\ Given' = Given /\ verdict' = verdict /\ at' = at /\ panic' = panic
      /\ pc = "door" /\ pc' = "door" /\ charge_door = {}
  BY DEF ChargeElsewhere, Given
<1>2. at = 1 /\ grant # NoGrant
  BY <1>1 DEF IInv, Phases, charge_door
<1>3. MaxU128 \in Nat /\ IsRequest(request) /\ GrantOK /\ ChargedUpTo(1) /\ grant' = grant
  BY <1>1, <1>2, CaseFacts DEF IInv, Cleared, Given
<1>4. /\ elsewhere \in 0..MaxU128 /\ meters.native = grant.spent + elsewhere /\ meters.native <= grant.budget
      /\ meters \in [native : 0..MaxU128, tokens : [DOMAIN grant.tokens -> 0..MaxU128]]
      /\ \A t \in DOMAIN grant.tokens : meters.tokens[t] \in grant.tokens[t].spent..grant.tokens[t].budget
  <2>1. Total(1 - 1) = 0
    BY <1>3, RunningTotals
  <2> QED
    BY <1>3, <2>1 DEF ChargedUpTo, GrantOK
<1>5. /\ grant.budget \in 0..(MaxU128 - 1) /\ grant.spent \in 0..grant.budget
      /\ \A t \in DOMAIN grant.tokens :
           grant.tokens[t].budget \in 0..MaxU128 /\ grant.tokens[t].spent \in 0..grant.tokens[t].budget
  BY <1>3 DEF GrantOK
<1>6. /\ elsewhere' \in 0..MaxU128 /\ meters'.native = grant.spent + elsewhere' /\ meters'.native <= grant.budget
      /\ meters' \in [native : 0..MaxU128, tokens : [DOMAIN grant.tokens -> 0..MaxU128]]
      /\ \A t \in DOMAIN grant.tokens : meters'.tokens[t] \in grant.tokens[t].spent..grant.tokens[t].budget
  <2>1. CASE \E n \in Levels :
               /\ meters.native < n /\ n <= grant.budget
               /\ meters' = [meters EXCEPT !.native = n] /\ elsewhere' = n - grant.spent
    <3>1. PICK n \in Nat :
            /\ meters.native < n /\ n <= grant.budget
            /\ meters' = [meters EXCEPT !.native = n] /\ elsewhere' = n - grant.spent
      BY <2>1, CasesAssumption
    <3>2. n \in 0..MaxU128 /\ meters'.native = n /\ meters'.tokens = meters.tokens
      BY <1>3, <1>4, <1>5, <3>1
    <3>3. elsewhere' \in 0..MaxU128 /\ n = grant.spent + elsewhere'
      BY <1>3, <1>4, <1>5, <3>1
    <3> QED
      BY <1>4, <3>1, <3>2, <3>3
  <2>2. CASE \E t \in DOMAIN grant.tokens, n \in Levels :
               /\ meters.tokens[t] < n /\ n <= grant.tokens[t].budget
               /\ meters' = [meters EXCEPT !.tokens[t] = n] /\ elsewhere' = elsewhere
    <3>1. PICK t \in DOMAIN grant.tokens, n \in Nat :
            /\ meters.tokens[t] < n /\ n <= grant.tokens[t].budget
            /\ meters' = [meters EXCEPT !.tokens[t] = n] /\ elsewhere' = elsewhere
      BY <2>2, CasesAssumption
    <3>2. n \in grant.tokens[t].spent..grant.tokens[t].budget /\ n \in 0..MaxU128
      BY <1>3, <1>4, <1>5, <3>1
    <3>3. meters'.native = meters.native /\ meters'.tokens = [meters.tokens EXCEPT ![t] = n]
      BY <1>4, <3>1
    <3>4. meters' \in [native : 0..MaxU128, tokens : [DOMAIN grant.tokens -> 0..MaxU128]]
      BY <1>4, <3>1, <3>2
    <3>5. \A u \in DOMAIN grant.tokens : meters'.tokens[u] \in grant.tokens[u].spent..grant.tokens[u].budget
      BY <1>4, <3>2, <3>3
    <3> QED
      BY <1>4, <3>1, <3>3, <3>4, <3>5
  <2> QED
    BY <2>1, <2>2 DEF ChargeElsewhere
<1>7. ChargedUpTo(at)'
  <2>1. at' = 1 /\ Total(1 - 1)' = 0
    <3>1. request' = request /\ Total(0) = 0
      BY <1>1, <1>3, RunningTotals DEF Given
    <3> QED
      BY <1>1, <1>2, <3>1 DEF Total
  <2> HIDE DEF Total
  <2>2. grant.spent + elsewhere' + 0 = grant.spent + elsewhere'
    BY <1>5, <1>6
  <2> QED
    BY <1>3, <1>6, <2>1, <2>2 DEF ChargedUpTo
<1>8. Cleared'
  BY <1>1, <1>2, <1>7, GivenStays DEF IInv, Cleared
<1>9. Judged' /\ Phases'
  BY <1>1, GivenStays DEF IInv, Judged, Phases
<1> QED
  BY <1>1, <1>2, <1>8, <1>9, TypeStays DEF IInv, TypeOK

LEMMA ChargeSpendKeeps == IInv /\ ChargeSpend => IInv'
<1> SUFFICES ASSUME IInv, ChargeSpend
             PROVE  IInv'
  OBVIOUS
<1>1. Given' = Given /\ verdict' = verdict /\ pc = "door" /\ at' = at /\ meters' = meters /\ elsewhere' = elsewhere
  BY DEF ChargeSpend, Given, Panics
<1>2. CASE charge_door # {} /\ Panics(charge_door)
  <2>1. panic' \in charge_door' /\ pc' = "done"
    BY <1>1, <1>2, GivenStays DEF Panics
  <2> QED
    BY <1>1, <2>1, EndKeeps DEF Outcome
<1>3. CASE charge_door = {} /\ pc' = "charging" /\ panic' = panic
  <2>1. Judged'
    BY <1>1, GivenStays DEF IInv, Judged
  <2>2. Cleared'
    BY <1>1, ClearedStays DEF IInv
  <2>3. Phases'
    BY <1>1, <1>3, GivenStays DEF IInv, Phases
  <2> QED
    BY <1>1, <1>3, <2>1, <2>2, <2>3, TypeStays DEF IInv, TypeOK
<1> QED
  BY <1>2, <1>3 DEF ChargeSpend

LEMMA ChargePromiseKeeps == IInv /\ ChargePromise => IInv'
<1> SUFFICES ASSUME IInv, ChargePromise
             PROVE  IInv'
  OBVIOUS
<1>1. Given' = Given /\ verdict' = verdict /\ elsewhere' = elsewhere /\ pc = "charging" /\ at <= Len(request)
  BY DEF ChargePromise, Given
<1>2. /\ MaxU128 \in Nat /\ IsRequest(request) /\ Len(request) \in Nat /\ DOMAIN request = 1..Len(request)
      /\ grant # NoGrant => GrantOK
  BY CaseFacts DEF IInv
<1>3. at \in DOMAIN request /\ charge_door = {} /\ grant # NoGrant /\ panic = NoPanic
  BY SMTT(30), <1>1, <1>2 DEF IInv, TypeOK, Phases, charge_door
<1>4. ChargedUpTo(at) /\ \A v \in Listed : v.promise_index >= at
  BY <1>3 DEF IInv, Cleared
<1>5. CASE charge_promise(at) # {} /\ Panics(charge_promise(at))
  <2>1. panic' \in charge_promise(at) /\ pc' = "done" /\ at' = at /\ meters' = meters /\ elsewhere' = elsewhere
    BY <1>1, <1>5 DEF Panics
  <2>2. request' = request /\ grant' = grant /\ charge_door' = {}
    BY <1>1, <1>3, GivenStays DEF Given
  <2>3. charge_promise(at)' = charge_promise(at)
    BY ZenonT(40), <2>1, <2>2 DEF charge_promise, charge_transfer, charge_token_call, charge_move, CarriesCall
  <2>4. Outcome'
    BY <1>3, <2>1, <2>2, <2>3 DEF Outcome
  <2> QED
    BY <1>1, <2>1, <2>4, EndKeeps
<1>6. CASE charge_promise(at) = {} /\ meters' = Charge(at) /\ at' = at + 1 /\ pc' = pc /\ panic' = panic
  <2>1. Judged'
    BY <1>1, <1>6, GivenStays DEF IInv, Judged
  <2>2. Phases'
    BY <1>1, <1>3, <1>6, GivenStays DEF IInv, Phases
  <2>3. grant' = grant
    BY <1>1 DEF Given
  <2>4. /\ ~Breaches(at) /\ \A v : ~Rule(v, at)
        /\ meters'.native = grant.spent + elsewhere + Total(at) /\ meters'.native <= grant.budget
        /\ meters' \in [native : 0..MaxU128, tokens : [DOMAIN grant.tokens -> 0..MaxU128]]
        /\ \A t \in DOMAIN grant.tokens : meters'.tokens[t] \in grant.tokens[t].spent..grant.tokens[t].budget
    BY <1>2, <1>3, <1>4, <1>6, ChargedOn
  <2>5. at' - 1 = at /\ at \in 1..Len(request)
    BY <1>2, <1>3, <1>6
  <2>6. Total(at - 1)' = Total(at)
    <3>1. request' = request
      BY <1>1 DEF Given
    <3> QED
      BY <2>5, <3>1 DEF Total
  <2>7. \A k \in 1..at : ~Breaches(k)
    BY <1>4, <2>4, <2>5 DEF ChargedUpTo
  <2>8. ChargedUpTo(at)'
    <3>1. elsewhere' \in 0..MaxU128
      BY <1>1, <1>4 DEF ChargedUpTo
    <3>2. meters'.native = grant'.spent + elsewhere' + Total(at - 1)'
      BY <1>1, <2>3, <2>4, <2>6
    <3>3. \A k \in 1..(at' - 1) : ~Breaches(k)'
      BY <1>1, <2>5, <2>7, GivenStays
    <3> QED
      BY <2>3, <2>4, <3>1, <3>2, <3>3 DEF ChargedUpTo
  <2>9. ASSUME NEW v \in Listed
        PROVE  v.promise_index >= at + 1
    BY <1>2, <1>3, <1>4, <2>4, <2>9, ListedAbout
  <2>10. Cleared'
    BY <1>1, <1>6, <2>8, <2>9, GivenStays DEF Cleared
  <2> QED
    BY <1>1, <1>3, <1>6, <2>1, <2>2, <2>5, <2>10, TypeStays DEF IInv
<1> QED
  BY <1>5, <1>6 DEF ChargePromise

LEMMA AssertWithinReserveKeeps == IInv /\ AssertWithinReserve => IInv'
<1> SUFFICES ASSUME IInv, AssertWithinReserve
             PROVE  IInv'
  OBVIOUS
<1>1. /\ Given' = Given /\ verdict' = verdict /\ pc = "charging" /\ at > Len(request)
      /\ pc' = "done" /\ at' = at /\ meters' = meters /\ elsewhere' = elsewhere
  BY DEF AssertWithinReserve, Given, Panics
<1>2. at = Len(request) + 1 /\ charge_door = {} /\ panic = NoPanic
  BY <1>1, CaseFacts DEF IInv, TypeOK, Phases
<1>3. /\ balance \in Nat /\ reserve \in Nat /\ attached[Len(request)] \in Nat
  BY CaseFacts, AttachedTotals DEF IInv
<1>4. \/ Short /\ panic' = Violation(0, "Reserve", 0, "insufficient_vs_reserve")
      \/ ~Short /\ panic' = NoPanic
  BY <1>2, <1>3 DEF AssertWithinReserve, Panics, Short
<1>5. request' = request
  BY <1>1 DEF Given
<1>6. Outcome'
  BY <1>1, <1>2, <1>4, <1>5, GivenStays DEF Outcome
<1> QED
  BY <1>1, <1>6, EndKeeps

LEMMA StutterKeeps == IInv /\ UNCHANGED vars => IInv'
<1> SUFFICES ASSUME IInv, UNCHANGED vars
             PROVE  IInv'
  OBVIOUS
<1>1. Given' = Given /\ pc' = pc /\ verdict' = verdict /\ at' = at /\ meters' = meters /\ elsewhere' = elsewhere
      /\ panic' = panic
  BY DEF vars, Given
<1>2. Judged'
  BY <1>1, GivenStays DEF IInv, Judged
<1>3. Cleared'
  BY <1>1, ClearedStays DEF IInv
<1>4. request' = request /\ grant' = grant
  BY <1>1 DEF Given
<1>5. charge_promise(at)' = charge_promise(at)
  BY <1>1, <1>4 DEF charge_promise, charge_transfer, charge_token_call, charge_move, CarriesCall
<1>6. Outcome => Outcome'
  BY <1>1, <1>4, <1>5, GivenStays DEF Outcome
<1>7. Phases'
  BY <1>1, <1>6, GivenStays DEF IInv, Phases
<1> QED
  BY <1>1, <1>2, <1>3, <1>7, TypeStays DEF IInv, TypeOK

LEMMA Inductive == Spec => []IInv
<1>1. IInv /\ [Next]_vars => IInv'
  BY PreflightKeeps, ChargeElsewhereKeeps, ChargeSpendKeeps, ChargePromiseKeeps, AssertWithinReserveKeeps, StutterKeeps DEF Next
<1> QED
  BY <1>1, InitInvariant, PTL DEF Spec

\* Every reachable state has the values the code would have.
THEOREM TypeCorrect == Spec => []TypeOK
<1>1. IInv => TypeOK
  BY DEF IInv
<1> QED
  BY <1>1, Inductive, PTL

-----------------------------------------------------------------------------
(* What the caller is told.                                                *)

\* The pre-flight's reading of the floor, in u128s that saturate, is the
\* contract's, where no balance is the largest u128.
LEMMA ReserveAlike ==
  ASSUME TypeOK
  PROVE  check_reserve(effects(request), balance, reserve) =
           IF Short THEN {Violation(0, "Reserve", 0, "insufficient_vs_reserve")} ELSE {}
<1>1. /\ MaxU128 \in Nat /\ balance \in 0..(MaxU128 - 1) /\ reserve \in 0..MaxU128
      /\ reserve = 0 => NativeTotal(request) <= balance
      /\ attached[Len(request)] \in Nat
      /\ NativeTotal(request) = IF attached[Len(request)] > MaxU128 THEN MaxU128 ELSE attached[Len(request)]
  BY CaseFacts, AttachedTotals
<1>2. saturating_sub(balance, NativeTotal(request)) < reserve <=> Short
  BY <1>1 DEF saturating_sub, Short
<1>3. effects(request).native_total = NativeTotal(request)
  BY DEF effects
<1> QED
  BY <1>2, <1>3 DEF check_reserve

\* With a grant the door lets in, the verdict is what is listed of the promises
\* and the floor, of the views that answered.
LEMMA BehindTheDoor ==
  ASSUME TypeOK, Judged, pc = "done", charge_door = {}, "grant" \in seen
  PROVE  /\ verdict \subseteq Listed \cup (IF Short THEN {Violation(0, "Reserve", 0, "insufficient_vs_reserve")} ELSE {})
         /\ AllSeen =>
              verdict = Listed \cup (IF Short THEN {Violation(0, "Reserve", 0, "insufficient_vs_reserve")} ELSE {})
<1>1. grant # NoGrant /\ ~(Now >= grant.expires_at)
  BY DEF charge_door
<1>2. door(grant, "grant" \in seen, Now) = {}
  BY <1>1, CaseFacts DEF door
<1> DEFINE admitted == admission(effects(request), grant, "grant" \in seen, Now)
           own == check_own_collection(effects(request))
           floor == check_reserve(effects(request), balance, reserve)
<1>3. Listed = admitted \cup own
  BY <1>2 DEF admission, Listed
<1>4. ~answers_alone(admitted)
  BY <1>3, ListedAbout DEF answers_alone
<1>5. verdict = admitted \cup (IF "collection" \in seen THEN own ELSE {}) \cup (IF "balance" \in seen THEN floor ELSE {})
  BY <1>4 DEF Judged, whole_verdict
<1>6. floor = IF Short THEN {Violation(0, "Reserve", 0, "insufficient_vs_reserve")} ELSE {}
  BY ReserveAlike
<1> HIDE DEF admitted, own, floor
<1> QED
  BY <1>3, <1>5, <1>6 DEF AllSeen

\* Nothing is listed once every promise has been charged.
LEMMA NothingListed ==
  ASSUME TypeOK, Cleared, charge_door = {}, at = Len(request) + 1
  PROVE  Listed = {}
<1>1. grant # NoGrant
  BY DEF charge_door
<1> QED
  BY <1>1, CaseFacts, ListedAbout DEF Cleared

\* A request the contract executes is not refused, whichever of the collection
\* and the balance could not be read.
THEOREM NoFalseRefusalHolds == Spec => []NoFalseRefusal
<1>1. IInv => NoFalseRefusal
  <2> SUFFICES ASSUME IInv, pc = "done", panic = NoPanic, "grant" \in seen
               PROVE  verdict = {}
    BY DEF NoFalseRefusal
  <2>1. NoPanic.stage = "Door" /\ NoPanic.class = "executed"
    BY DEF NoPanic, AtDoor, Violation
  <2>2. Violation(0, "Reserve", 0, "insufficient_vs_reserve").stage = "Reserve"
    BY DEF Violation
  <2>3. charge_door = {} /\ at = Len(request) + 1 /\ ~Short
    BY <2>1, <2>2, DoorAlone, StopIsAbout DEF IInv, Phases, Outcome
  <2> QED
    BY <2>3, BehindTheDoor, NothingListed DEF IInv
<1> QED
  BY <1>1, Inductive, PTL

\* The keys of the sort, for a violation of a promise and for the floor's.
LEMMA KeysAre ==
  /\ \A v : v.stage = "Promise" => order_key(v) = <<v.promise_index, v.rung>>
  /\ order_key(Violation(0, "Reserve", 0, "insufficient_vs_reserve")) = <<Len(request) + 1, 255>>
  BY DEF order_key, Violation

\* When every view was read, the panic is among the first listed, and whatever is
\* first has its class and its promise; at the door there is nothing else.
LEMMA PanicTold ==
  ASSUME IInv, pc = "done", panic # NoPanic, AllSeen, ~MeterCrossed
  PROVE  /\ panic \in Firsts(verdict)
         /\ \A v \in Firsts(verdict) : v.class = panic.class /\ v.promise_index = panic.promise_index
         /\ panic.stage = "Door" => verdict = {panic}
<1> DEFINE floor == Violation(0, "Reserve", 0, "insufficient_vs_reserve")
<1>1. "grant" \in seen
  BY DEF AllSeen
<1>2. floor.stage = "Reserve"
  BY DEF Violation
<1>3. Len(request) \in Nat /\ DOMAIN request = 1..Len(request)
  BY CaseFacts DEF IInv
<1>4. CASE panic \in charge_door
  <2>1. charge_door = door(grant, "grant" \in seen, Now) /\ charge_door = {panic}
    BY <1>1, <1>4, CaseFacts DEF IInv, charge_door, door
  <2>2. admission(effects(request), grant, "grant" \in seen, Now) = {panic}
    BY <2>1 DEF admission
  <2>3. verdict = {panic}
    BY <1>4, <2>2, DoorAlone DEF IInv, Judged, whole_verdict, answers_alone
  <2>4. panic \in Firsts(verdict)
    <3>1. order_key(panic) = <<0, 0>>
      BY <1>4, DoorAlone DEF order_key
    <3> QED
      BY <2>3, <3>1 DEF Firsts, Before
  <2> QED
    BY <2>3, <2>4 DEF Firsts
<1>5. CASE charge_door = {} /\ at \in DOMAIN request /\ panic \in charge_promise(at)
  <2>1. grant # NoGrant /\ MaxU128 \in Nat /\ IsRequest(request) /\ GrantOK
    BY <1>5, CaseFacts DEF IInv, charge_door
  <2>2. ChargedUpTo(at) /\ \A v \in Listed : v.promise_index >= at
    BY <2>1 DEF IInv, Cleared
  <2>3. /\ panic.class = "token_budget_exceeded" => ~Crossed(at)
        /\ panic.class = "grant_exhausted" => elsewhere = 0
    BY <2>2 DEF MeterCrossed, Crossed, ChargedUpTo
  <2>4. FirstOf(panic, at)
    BY <1>5, <2>1, <2>2, <2>3, PlainPromise, CallPromise
  <2>5. /\ Rule(panic, at) /\ panic.promise_index = at /\ panic.stage = "Promise"
        /\ \A v : Rule(v, at) => v.rung > panic.rung \/ (v.rung = panic.rung /\ v.class = panic.class)
    BY <2>4 DEF FirstOf
  <2>6. verdict = Listed \cup (IF Short THEN {floor} ELSE {})
    BY <1>1, <1>5, BehindTheDoor DEF IInv
  <2>7. panic \in verdict
    BY <1>5, <2>5, <2>6, ListedAre
  <2>8. order_key(panic) = <<at, panic.rung>> /\ at < Len(request) + 1
    BY <1>3, <1>5, <2>5, KeysAre
  <2>9. ASSUME NEW v \in Firsts(verdict)
        PROVE  v.class = panic.class /\ v.promise_index = panic.promise_index
    <3>1. v \in verdict /\ ~Before(order_key(panic), order_key(v))
      BY <2>7, <2>9 DEF Firsts
    <3>2. v # floor
      BY <2>8, <3>1, KeysAre DEF Before
    <3>3. v \in Listed
      BY <2>6, <3>1, <3>2
    <3>4. /\ v.promise_index \in DOMAIN request /\ v.promise_index >= at /\ Rule(v, v.promise_index)
          /\ order_key(v) = <<v.promise_index, v.rung>>
      BY <2>2, <3>3, ListedAbout, KeysAre
    <3>5. ~(at < v.promise_index) /\ ~(at = v.promise_index /\ panic.rung < v.rung)
      BY <2>8, <3>1, <3>4 DEF Before
    <3>6. v.promise_index = at
      BY <1>3, <1>5, <3>4, <3>5
    <3> QED
      BY <2>5, <3>4, <3>5, <3>6
  <2>10. ASSUME NEW w \in verdict
         PROVE  ~Before(order_key(w), order_key(panic))
    <3>1. CASE w = floor
      BY <1>3, <1>5, <2>8, <3>1, KeysAre DEF Before
    <3>2. CASE w \in Listed
      <4>1. /\ w.promise_index \in DOMAIN request /\ w.promise_index >= at /\ Rule(w, w.promise_index)
            /\ order_key(w) = <<w.promise_index, w.rung>>
        BY <2>2, <3>2, ListedAbout, KeysAre
      <4>2. w.promise_index = at => ~(w.rung < panic.rung)
        BY <2>5, <4>1, RuleIsAbout
      <4> QED
        BY <1>3, <1>5, <2>8, <4>1, <4>2 DEF Before
    <3> QED
      BY <2>6, <3>1, <3>2
  <2> QED
    BY <2>5, <2>7, <2>9, <2>10 DEF Firsts
<1>6. CASE charge_door = {} /\ at = Len(request) + 1 /\ Short /\ panic = floor
  <2>1. verdict = {floor}
    BY <1>1, <1>6, BehindTheDoor, NothingListed DEF IInv
  <2>2. panic \in Firsts(verdict)
    BY <1>3, <1>6, <2>1, KeysAre DEF Firsts, Before
  <2> QED
    BY <1>2, <1>6, <2>1, <2>2 DEF Firsts
<1> QED
  BY <1>4, <1>5, <1>6 DEF IInv, Phases, Outcome

\* When the contract panics and every view was read, what the caller is told is
\* the panic: its class and its promise; at the door, it and nothing else.
THEOREM ToldThePanicHolds == Spec => []ToldThePanic
<1>1. IInv => ToldThePanic
  BY PanicTold DEF ToldThePanic, Firsts
<1> QED
  BY <1>1, Inductive, PTL

\* A panic goes untold only over a budget that was spent from after the view: the
\* run that refutes ToldEveryPanic found the one way there is.
THEOREM ToldButAtSpentBudgets == Spec => [](ToldEveryPanic \/ MeterCrossed)
<1>1. IInv => ToldEveryPanic \/ MeterCrossed
  BY PanicTold DEF ToldEveryPanic
<1> QED
  BY <1>1, Inductive, PTL
====
