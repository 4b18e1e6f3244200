------------------------- MODULE PolicyFlow_proofs --------------------------
(***************************************************************************)
(* Proofs about PolicyFlow and PolicyBatch, for all policies, operations   *)
(* and counters.                                                           *)
(*                                                                         *)
(* An evaluation is the first rule that speaks, so one that admits has met *)
(* silence from every rule that can refuse (SilentWhenAdmitted). From that: *)
(* the keystore, which has no counters, comes to the coordinator's decision; *)
(* what is signed is opted into by capability, and is within the freeze, the *)
(* hours and the rules of the policy in force, the sums over the promises of *)
(* a nested request included; and requests made one at a time (Alone) leave *)
(* room under the hourly rate (Rated) and the caps (Room); and however they *)
(* overlap they pass them by a batch at most (RoomBesideABatch,             *)
(* RateBesideABatch).                                                       *)
(***************************************************************************)
EXTENDS PolicyBatch, Effects_proofs

(***************************************************************************)
(* The first rule that speaks.                                             *)
(***************************************************************************)

\* Some rule is the first of those that speak.
LEMMA FirstOfFifteen ==
  ASSUME NEW S \in SUBSET (1..15), S # {}
  PROVE  \E m \in S : \A i \in S : m <= i
  <1>1. ASSUME \A m \in S : \E i \in S : ~(m <= i)
        PROVE  \A i \in 1..15 : i \notin S
    <2>1. \A i \in S : i \in Int /\ 1 <= i /\ i <= 15
      OBVIOUS
    <2>2. 1 \notin S
      BY <1>1, <2>1
    <2>3. 2 \notin S
      BY <1>1, <2>1, <2>2
    <2>4. 3 \notin S
      BY <1>1, <2>1, <2>2, <2>3
    <2>5. 4 \notin S /\ 5 \notin S
      BY <1>1, <2>1, <2>2, <2>3, <2>4
    <2>6. 6 \notin S /\ 7 \notin S /\ 8 \notin S
      BY <1>1, <2>1, <2>2, <2>3, <2>4, <2>5
    <2>7. 9 \notin S /\ 10 \notin S /\ 11 \notin S
      BY <1>1, <2>1, <2>2, <2>3, <2>4, <2>5, <2>6
    <2>8. 12 \notin S /\ 13 \notin S /\ 14 \notin S /\ 15 \notin S
      BY <1>1, <2>1, <2>2, <2>3, <2>4, <2>5, <2>6, <2>7
    <2> QED BY <2>2, <2>3, <2>4, <2>5, <2>6, <2>7, <2>8
  <1> QED BY <1>1

\* The least of a set of rules is one of them, and no other comes before it.
LEMMA MinIsFirst ==
  ASSUME NEW S \in SUBSET (1..15), S # {}
  PROVE  Min(S) \in S /\ \A i \in S : Min(S) <= i
  BY FirstOfFifteen DEF Min

\* A rule that speaks with none before it is the one Min picks.
LEMMA FirstIsMin ==
  ASSUME NEW S \in SUBSET (1..15), NEW m \in S, \A i \in S : m <= i
  PROVE  Min(S) = m
  <1>1. Min(S) \in S /\ \A i \in S : Min(S) <= i
    BY MinIsFirst
  <1>2. Min(S) <= m /\ m <= Min(S)
    BY <1>1
  <1>3. \A i \in S : i \in Int
    OBVIOUS
  <1>4. Min(S) \in Int /\ m \in Int
    BY <1>1, <1>3
  <1> QED BY <1>2, <1>4

(***************************************************************************)
(* The rules with and without counters.                                    *)
(***************************************************************************)

\* Only three rules read the counters; without counters the windows and the
\* rate are silent, and the door refuses what it refuses with them.
LEMMA DoorRefusesAlike ==
  ASSUME NEW rules, NEW op, NEW usage, evaluate_extension_call(rules, op, Absent) # {}
  PROVE  evaluate_extension_call(rules, op, usage) # {}
  <1> DEFINE fx == effects(op.detail.external)
  <1>1. effects_refused(rules, fx, Absent) => effects_refused(rules, fx, usage)
    BY DEF effects_refused
  <1> QED BY <1>1 DEF evaluate_extension_call

\* What those three say is a refusal.
LEMMA CountersOnlyRefuse ==
  ASSUME NEW rules, NEW op, NEW usage
  PROVE  /\ \A d \in evaluate_extension_call(rules, op, usage) : d.decision = "deny"
         /\ \A d \in velocity(rules, op, usage) : d.decision = "deny"
         /\ \A d \in hourly_tx_count(rules, usage) : d.decision = "deny"
  <1>1. \A d \in evaluate_extension_call(rules, op, usage) : d = Deny("extension")
    BY DEF evaluate_extension_call
  <1>2. \A d \in velocity(rules, op, usage) : d = Deny("velocity")
    <2>1. \A limits, token, amount : \A d \in Velocity(limits, usage, token, amount) : d = Deny("velocity")
      BY DEF Velocity
    <2> QED BY <2>1 DEF velocity
  <1>3. \A d \in hourly_tx_count(rules, usage) : d = Deny("hourly_tx_count")
    BY DEF hourly_tx_count
  <1>4. \A rule : Deny(rule).decision = "deny"
    BY DEF Deny
  <1> QED BY <1>1, <1>2, <1>3, <1>4

LEMMA SilentWithoutCounters ==
  ASSUME NEW rules, NEW op
  PROVE  velocity(rules, op, Absent) = {} /\ hourly_tx_count(rules, Absent) = {}
  BY DEF velocity, hourly_tx_count

Counting == {5, 11, 12}   \* the places of the three in evaluate_section

\* Rule by rule, the two evaluations.
LEMMA RulesCompared ==
  ASSUME NEW p, NEW op, NEW usage, NEW now
  PROVE  LET with == evaluate_section(p, op, usage, now)
             without == evaluate_section(p, op, Absent, now)
         IN  /\ DOMAIN with = 1..15 /\ DOMAIN without = 1..15
             /\ \A i \in (1..15) \ Counting : without[i] = with[i]
             /\ \A i \in Counting : with[i] = {} => without[i] = {}
             /\ \A i \in Counting : \A d \in with[i] : d.decision = "deny"
  <1> DEFINE with == evaluate_section(p, op, usage, now)
             without == evaluate_section(p, op, Absent, now)
  <1>1. DOMAIN with = 1..15 /\ DOMAIN without = 1..15
    BY DEF evaluate_section
  <1>2. /\ without[1] = with[1] /\ without[2] = with[2] /\ without[3] = with[3] /\ without[4] = with[4]
        /\ without[6] = with[6] /\ without[7] = with[7] /\ without[8] = with[8] /\ without[9] = with[9]
        /\ without[10] = with[10] /\ without[13] = with[13] /\ without[14] = with[14] /\ without[15] = with[15]
    BY DEF evaluate_section
  <1>3. \A i \in (1..15) \ Counting : i \in {1, 2, 3, 4, 6, 7, 8, 9, 10, 13, 14, 15}
    BY DEF Counting
  <1>4. /\ with[5] = evaluate_extension_call(p.rules, op, usage)
        /\ with[11] = velocity(p.rules, op, usage)
        /\ with[12] = hourly_tx_count(p.rules, usage)
        /\ without[5] = evaluate_extension_call(p.rules, op, Absent)
        /\ without[11] = velocity(p.rules, op, Absent)
        /\ without[12] = hourly_tx_count(p.rules, Absent)
    BY DEF evaluate_section
  <1>5. \A i \in Counting : with[i] = {} => without[i] = {}
    BY <1>4, DoorRefusesAlike, SilentWithoutCounters DEF Counting
  <1>6. \A i \in Counting : \A d \in with[i] : d.decision = "deny"
    BY <1>4, CountersOnlyRefuse DEF Counting
  <1> HIDE DEF with, without
  <1>7. \A i \in (1..15) \ Counting : without[i] = with[i]
    BY <1>2, <1>3
  <1> QED BY <1>1, <1>5, <1>6, <1>7 DEF with, without

\* A decision that admits is the same without the counters.
LEMMA AdmittedAlike ==
  ASSUME NEW p, NEW op, NEW usage, NEW now,
         evaluate(p, op, usage, now).decision \in {"allow", "requires_approval"}
  PROVE  evaluate(p, op, Absent, now) = evaluate(p, op, usage, now)
  <1> DEFINE with == evaluate_section(p, op, usage, now)
             without == evaluate_section(p, op, Absent, now)
             speaks == {i \in DOMAIN with : with[i] # {}}
             heard == {i \in DOMAIN without : without[i] # {}}
  <1>1. /\ DOMAIN with = 1..15 /\ DOMAIN without = 1..15
        /\ \A i \in (1..15) \ Counting : without[i] = with[i]
        /\ \A i \in Counting : with[i] = {} => without[i] = {}
        /\ \A i \in Counting : \A d \in with[i] : d.decision = "deny"
    BY RulesCompared
  <1>2. /\ evaluate(p, op, usage, now) = IF speaks = {} THEN Allow ELSE CHOOSE d \in with[Min(speaks)] : TRUE
        /\ evaluate(p, op, Absent, now) = IF heard = {} THEN Allow ELSE CHOOSE d \in without[Min(heard)] : TRUE
    BY DEF evaluate
  <1> HIDE DEF with, without
  <1>3. speaks \in SUBSET (1..15) /\ heard \in SUBSET (1..15)
    BY <1>1
  <1>4. heard \subseteq speaks
    BY <1>1
  <1>5. CASE speaks = {}
    BY <1>2, <1>4, <1>5
  <1>6. CASE speaks # {}
    <2> DEFINE m == Min(speaks)
    <2>1. m \in speaks /\ \A i \in speaks : m <= i
      BY <1>3, <1>6, MinIsFirst
    <2>2. (CHOOSE d \in with[m] : TRUE) \in with[m]
      BY <2>1
    <2>3. (CHOOSE d \in with[m] : TRUE).decision \in {"allow", "requires_approval"}
      BY <1>2, <1>6
    <2>4. m \notin Counting
      BY <1>1, <2>2, <2>3
    <2>5. m \in heard /\ without[m] = with[m]
      BY <1>1, <2>1, <2>4
    <2>6. Min(heard) = m
      <3>1. \A i \in heard : m <= i
        BY <1>4, <2>1
      <3> QED BY <1>3, <2>5, <3>1, FirstIsMin
    <2>7. heard # {}
      BY <2>5
    <2> QED BY <1>2, <1>6, <2>5, <2>6, <2>7
  <1> QED BY <1>5, <1>6

\* A chain signature is decided without counters in the first place.
LEMMA JudgedAlike ==
  ASSUME NEW p, NEW op, NEW usage, NEW now,
         judged(p, op, usage, now).decision \in {"allow", "requires_approval"}
  PROVE  judged(p, op, Absent, now) = judged(p, op, usage, now)
  BY AdmittedAlike DEF judged

(***************************************************************************)
(* The inductive invariant.                                                *)
(***************************************************************************)

\* An admitted request carries the decision of the coordinator's evaluation,
\* under the policy and in the hour it was made, on some reading of the
\* counters; nothing that happens while it waits changes that.
AdmittedInv ==
  /\ DOMAIN flight = Flights
  /\ \A f \in Flights : flight[f].stage = "admitted" =>
       /\ DOMAIN flight[f] = {"stage", "op", "decision", "votes", "policy", "hour"}
       /\ flight[f].decision.decision \in {"allow", "requires_approval"}
       /\ \E usage : flight[f].decision = judged(flight[f].policy, flight[f].op, usage, flight[f].hour * 3600)

LEMMA InitAdmitted == Init => AdmittedInv
  BY DEF Init, AdmittedInv, New

\* The coordinator's evaluation establishes it.
LEMMA SubmitKeeps ==
  ASSUME AdmittedInv, NEW f \in Flights, NEW op, NEW document, Submit(f, op, document)
  PROVE  AdmittedInv'
  <1> DEFINE usage == from_current_usage(document)
             decision == judged(policy, op, usage, now_unix)
             admitted == [stage |-> "admitted", op |-> op, decision |-> decision, votes |-> 0, policy |-> policy, hour |-> hour]
  <1>1. flight' = [flight EXCEPT ![f] = IF intents_storage_deposit_amount(op) /\ decision.decision \in {"allow", "requires_approval"} THEN admitted ELSE Over]
    BY DEF Submit
  <1>2. decision = judged(policy, op, usage, hour * 3600)
    BY DEF now_unix
  <1> HIDE DEF usage, decision
  <1>3. /\ DOMAIN admitted = {"stage", "op", "decision", "votes", "policy", "hour"}
        /\ admitted.decision = decision /\ admitted.policy = policy
        /\ admitted.op = op /\ admitted.hour = hour
    OBVIOUS
  <1>4. Over.stage # "admitted"
    BY DEF Over
  <1> HIDE DEF admitted
  <1>5. DOMAIN flight' = Flights
    BY <1>1 DEF AdmittedInv
  <1>6. \A g \in Flights : g # f => flight'[g] = flight[g]
    BY <1>1 DEF AdmittedInv
  <1>7. flight'[f] = IF intents_storage_deposit_amount(op) /\ decision.decision \in {"allow", "requires_approval"} THEN admitted ELSE Over
    BY <1>1 DEF AdmittedInv
  <1>8. ASSUME NEW g \in Flights, flight'[g].stage = "admitted"
        PROVE  /\ DOMAIN flight'[g] = {"stage", "op", "decision", "votes", "policy", "hour"}
               /\ flight'[g].decision.decision \in {"allow", "requires_approval"}
               /\ \E u : flight'[g].decision = judged(flight'[g].policy, flight'[g].op, u, flight'[g].hour * 3600)
    <2>1. CASE g = f
      <3>1. flight'[g] = admitted /\ decision.decision \in {"allow", "requires_approval"}
        BY <1>4, <1>7, <1>8, <2>1
      <3>2. flight'[g].decision = judged(flight'[g].policy, flight'[g].op, usage, flight'[g].hour * 3600)
        BY <1>2, <1>3, <3>1
      <3> QED BY <1>3, <3>1, <3>2
    <2>2. CASE g # f
      BY <1>6, <1>8, <2>2 DEF AdmittedInv
    <2> QED BY <2>1, <2>2
  <1> QED BY <1>5, <1>8 DEF AdmittedInv

\* A vote changes only the votes.
LEMMA VoteKeeps ==
  ASSUME AdmittedInv, NEW f \in Flights, Vote(f)
  PROVE  AdmittedInv'
  <1>1. flight[f].stage = "admitted" /\ flight' = [flight EXCEPT ![f].votes = @ + 1]
    BY DEF Vote
  <1>2. DOMAIN flight[f] = {"stage", "op", "decision", "votes", "policy", "hour"}
    BY <1>1 DEF AdmittedInv
  <1>3. flight'[f] = [flight[f] EXCEPT !.votes = @ + 1] /\ DOMAIN flight' = Flights
    BY <1>1 DEF AdmittedInv
  <1>4. /\ DOMAIN flight'[f] = DOMAIN flight[f]
        /\ flight'[f].op = flight[f].op /\ flight'[f].decision = flight[f].decision
        /\ flight'[f].policy = flight[f].policy /\ flight'[f].hour = flight[f].hour
    BY <1>2, <1>3
  <1>5. \A g \in Flights : g # f => flight'[g] = flight[g]
    BY <1>1 DEF AdmittedInv
  <1> QED BY <1>1, <1>3, <1>4, <1>5 DEF AdmittedInv

\* A request that leaves the stage takes nothing with it.
LEMMA LeavingKeeps ==
  ASSUME AdmittedInv, NEW f \in Flights, NEW r, r.stage # "admitted", flight' = [flight EXCEPT ![f] = r]
  PROVE  AdmittedInv'
  <1>1. DOMAIN flight' = Flights /\ flight'[f] = r /\ \A g \in Flights : g # f => flight'[g] = flight[g]
    BY DEF AdmittedInv
  <1> QED BY <1>1 DEF AdmittedInv

LEMMA StepKeepsAdmitted == AdmittedInv /\ [Next]_vars => AdmittedInv'
  <1> SUFFICES ASSUME AdmittedInv, [Next]_vars PROVE AdmittedInv'
    OBVIOUS
  <1>0. Over.stage # "admitted" /\ \A op, carried : [stage |-> "signed", op |-> op, carried |-> carried].stage # "admitted"
    BY DEF Over
  <1>1. ASSUME NEW f \in Flights, NEW op \in Asks[f], NEW document \in Documents, Submit(f, op, document)
        PROVE  AdmittedInv'
    BY <1>1, SubmitKeeps
  <1>2. ASSUME NEW f \in Flights, Vote(f) PROVE AdmittedInv'
    BY <1>2, VoteKeeps
  <1>3. ASSUME NEW f \in Flights, NEW carried \in Builds, Sign(f, carried) PROVE AdmittedInv'
    <2>1. \/ flight' = [flight EXCEPT ![f] = [stage |-> "signed", op |-> flight[f].op, carried |-> carried]]
          \/ flight' = [flight EXCEPT ![f] = Over]
      BY <1>3 DEF Sign
    <2> QED BY <1>0, <2>1, LeavingKeeps
  <1>4. ASSUME NEW f \in Flights, Record(f) \/ HandOver(f) PROVE AdmittedInv'
    <2>1. flight' = [flight EXCEPT ![f] = Over]
      BY <1>4 DEF Record, HandOver
    <2> QED BY <1>0, <2>1, LeavingKeeps
  <1>5. CASE UNCHANGED flight
    BY <1>5 DEF AdmittedInv
  <1>6. (\E p \in Policies : StorePolicy(p)) \/ NextHour \/ UNCHANGED vars => UNCHANGED flight
    BY DEF StorePolicy, NextHour, vars
  <1> QED BY <1>1, <1>2, <1>3, <1>4, <1>5, <1>6 DEF Next

LEMMA AlwaysAdmitted == Spec => []AdmittedInv
  BY InitAdmitted, StepKeepsAdmitted, PTL DEF Spec

(***************************************************************************)
(* The theorem.                                                            *)
(***************************************************************************)

\* Under any policy, for any operation and any reading of the counters, what the
\* coordinator admits the keystore decides alike, and for the same votes.
THEOREM KeystoresAgree == Spec => []KeystoreAgrees
  <1>1. AdmittedInv => KeystoreAgrees
    <2> SUFFICES ASSUME AdmittedInv, NEW f \in Flights,
                        flight[f].stage = "admitted", flight[f].policy = policy, flight[f].hour = hour
                 PROVE  judged(policy, flight[f].op, Absent, now_unix) = flight[f].decision
      BY DEF KeystoreAgrees
    <2>1. PICK usage : flight[f].decision = judged(flight[f].policy, flight[f].op, usage, flight[f].hour * 3600)
      BY DEF AdmittedInv
    <2>2. flight[f].decision = judged(policy, flight[f].op, usage, now_unix)
      BY <2>1 DEF now_unix
    <2>3. judged(policy, flight[f].op, usage, now_unix).decision \in {"allow", "requires_approval"}
      BY <2>2 DEF AdmittedInv
    <2> QED BY <2>2, <2>3, JudgedAlike
  <1> QED BY <1>1, AlwaysAdmitted, PTL

(***************************************************************************)
(* Capabilities that have to be written.                                   *)
(***************************************************************************)

\* Before the capabilities are asked, a rule can only refuse, but for the proofs of
\* identity.
LEMMA EarlierRulesRefuse ==
  ASSUME NEW p, NEW op, NEW usage, NEW now, op.kind # "auth", NEW i \in 1..13,
         NEW d \in evaluate_section(p, op, usage, now)[i]
  PROVE  d.decision \in {"deny", "frozen"}
  <1> DEFINE said == evaluate_section(p, op, usage, now)
  <1>1. Frozen.decision = "frozen" /\ \A rule : Deny(rule).decision = "deny"
    BY DEF Frozen, Deny
  <1>2. i \in {1, 2, 3, 4, 5, 6, 7, 8, 9, 10, 11, 12, 13}
    OBVIOUS
  <1>3. /\ said[1] = never_signed(p, op) /\ said[2] = freeze(p, op) /\ said[3] = identity(op)
        /\ said[4] = unreadable_limit(p.rules, op) /\ said[5] = evaluate_extension_call(p.rules, op, usage)
        /\ said[6] = transaction_types(p.rules, op) /\ said[7] = allowed_tokens(p.rules, op)
        /\ said[8] = addresses_rule(p.rules, op) /\ said[9] = invalid_amount(op)
        /\ said[10] = per_transaction(p.rules, op) /\ said[11] = velocity(p.rules, op, usage)
        /\ said[12] = hourly_tx_count(p.rules, usage)
        /\ said[13] = check_time_restrictions(p.rules.time_restrictions, now)
    BY DEF evaluate_section
  <1>4. /\ \A e \in never_signed(p, op) : e.decision = "deny"
        /\ \A e \in freeze(p, op) : e.decision = "frozen"
        /\ identity(op) = {}
    BY <1>1 DEF never_signed, freeze, identity, survives_a_freeze
  <1>5. /\ \A e \in unreadable_limit(p.rules, op) : e.decision = "deny"
        /\ \A e \in transaction_types(p.rules, op) : e.decision = "deny"
        /\ \A e \in allowed_tokens(p.rules, op) : e.decision = "deny"
        /\ \A e \in addresses_rule(p.rules, op) : e.decision = "deny"
    BY <1>1 DEF unreadable_limit, transaction_types, allowed_tokens, addresses_rule
  <1>6. /\ \A e \in invalid_amount(op) : e.decision = "deny"
        /\ \A e \in per_transaction(p.rules, op) : e.decision = "deny"
        /\ \A e \in check_time_restrictions(p.rules.time_restrictions, now) : e.decision = "deny"
    BY <1>1 DEF invalid_amount, per_transaction, check_time_restrictions
  <1> HIDE DEF said
  <1>7. d \in said[i]
    BY DEF said
  <1> QED BY <1>2, <1>3, <1>4, <1>5, <1>6, <1>7, CountersOnlyRefuse

Refusal(said) == said # {} /\ \A d \in said : d.decision = "deny"

\* So what the capabilities refuse is not admitted.
LEMMA RefusedByCapability ==
  ASSUME NEW p, NEW op, NEW usage, NEW now, op.kind # "auth", Refusal(check_capabilities(p, op))
  PROVE  evaluate(p, op, usage, now).decision \in {"deny", "frozen"}
  <1> DEFINE said == evaluate_section(p, op, usage, now)
             speaks == {i \in DOMAIN said : said[i] # {}}
             m == Min(speaks)
  <1>1. DOMAIN said = 1..15 /\ said[14] # {} /\ \A d \in said[14] : d.decision = "deny"
    BY DEF evaluate_section, Refusal
  <1>2. speaks \in SUBSET (1..15) /\ 14 \in speaks
    BY <1>1
  <1>3. m \in speaks /\ \A i \in speaks : m <= i
    BY <1>2, MinIsFirst
  <1>4. m \in 1..14 /\ speaks # {} /\ said[m] # {}
    <2>1. m \in 1..15 /\ m <= 14 /\ said[m] # {} /\ speaks # {}
      BY <1>2, <1>3
    <2> HIDE DEF m, speaks
    <2> QED BY <2>1
  <1>5. evaluate(p, op, usage, now) = CHOOSE d \in said[m] : TRUE
    BY <1>4 DEF evaluate
  <1>6. evaluate(p, op, usage, now) \in said[m]
    BY <1>4, <1>5
  <1>7. CASE m = 14
    BY <1>1, <1>6, <1>7
  <1>8. CASE m # 14
    <2>1. m \in 1..13
      BY <1>4, <1>8
    <2> HIDE DEF m
    <2> QED BY <1>6, <2>1, EarlierRulesRefuse
  <1> QED BY <1>7, <1>8

\* A capability the owner did not write is closed.
LEMMA UnwrittenIsClosed ==
  ASSUME NEW p \in Policies, NEW name, ~WrittenIn(p, name)
  PROVE  /\ ~CapabilityOf(p, name, FALSE).allowed
         /\ Gate(p, name, FALSE) = {Deny("capabilities")}
  <1>1. CASE name \notin DOMAIN p.capabilities
    BY <1>1 DEF CapabilityOf, Capability, Gate
  <1>2. CASE name \in DOMAIN p.capabilities
    <2> DEFINE cap == p.capabilities[name]
    <2>1. DOMAIN cap = {"allowed", "requires_approval", "chains", "raw_tx"} /\ cap.allowed \in {TRUE, FALSE, Absent}
      BY <1>2, SchemaAssumption DEF IsPolicy, IsCapability
    <2>2. cap.allowed # TRUE
      BY <1>2 DEF WrittenIn
    <2>3. CapabilityOf(p, name, FALSE) = [cap EXCEPT !.allowed = IF cap.allowed = Absent THEN FALSE ELSE cap.allowed]
      BY <1>2 DEF CapabilityOf
    <2>4. CapabilityOf(p, name, FALSE).allowed = IF cap.allowed = Absent THEN FALSE ELSE cap.allowed
      BY <2>1, <2>3
    <2>5. ~CapabilityOf(p, name, FALSE).allowed
      BY <2>1, <2>2, <2>4
    <2> QED BY <2>5 DEF Gate
  <1> QED BY <1>1, <1>2

\* Whatever needs it is then refused.
LEMMA UnwrittenIsRefused ==
  ASSUME NEW p \in Policies, NEW f \in Flights, NEW op \in Asks[f], NEW usage, NEW now,
         NEW name \in OptIns(op), ~WrittenIn(p, name), ~GateOnly(op)
  PROVE  judged(p, op, usage, now).decision \notin {"allow", "requires_approval"}
  <1>1. op.kind \in FundMovingKinds \cup UnpricedKinds \cup ChainKinds
    BY SchemaAssumption DEF IsOp
  <1>2. Gate(p, name, FALSE) = {Deny("capabilities")} /\ ~CapabilityOf(p, name, FALSE).allowed
    BY UnwrittenIsClosed
  <1>5. Refusal({Deny("capabilities")}) /\ Deny("capabilities").decision = "deny"
    BY DEF Refusal, Deny
  <1>3. CASE op.kind \in ChainKinds
    <2>1. name = op.kind
      BY <1>3 DEF OptIns, ChainKinds
    <2>2. p # Absent
      BY SchemaAssumption
    <2>3. judged(p, op, usage, now) \in {Frozen, Deny("time_restrictions"), Deny("capabilities")}
      BY <1>2, <1>3, <2>1, <2>2 DEF judged, chain_sign_decision
    <2> QED BY <2>3 DEF Frozen, Deny
  <1>4. CASE op.kind \notin ChainKinds
    <2>1. op.kind # "auth" /\ Refusal(check_capabilities(p, op))
      <3>1. CASE op.kind = "raw"
        <4>1. name = "raw_sign"
          BY <3>1 DEF OptIns, ChainKinds
        <4> QED BY <1>2, <1>5, <3>1, <4>1 DEF check_capabilities, extension_reaches_intents, IsDoor
      <3>2. CASE op.kind = "limit_order"
        <4>1. \/ name = "limit_order"
              \/ name = "confidential" /\ op.detail = "confidential_intents"
          BY <3>2 DEF OptIns, ChainKinds
        <4>2. check_capabilities(p, op) = limit_order_gate(p, op)
          BY <3>2 DEF check_capabilities, extension_reaches_intents, IsDoor
        <4>3. \A g : (\E d \in Gate(p, g, FALSE) : d.decision = "deny") => Refusal(Gate(p, g, FALSE))
          BY DEF Gate, Refusal
        <4>4. Refusal(Gate(p, name, FALSE)) /\ \E d \in Gate(p, name, FALSE) : d.decision = "deny"
          BY <1>2, <1>5 DEF Refusal
        <4> DEFINE shard == IF op.detail = "confidential_intents" THEN Gate(p, "confidential", FALSE) ELSE {}
                   own == Gate(p, "limit_order", FALSE)
                   closes == \E d \in shard : d.decision = "deny"
        <4>5. limit_order_gate(p, op) = IF closes THEN shard ELSE IF own # {} THEN own ELSE shard
          BY DEF limit_order_gate
        <4>6. closes => Refusal(shard)
          BY <4>3
        <4>7. name = "limit_order" => Refusal(own) /\ own # {}
          BY <4>4 DEF Refusal
        <4>8. name = "confidential" /\ op.detail = "confidential_intents" => closes
          BY <4>4
        <4> HIDE DEF shard, own, closes
        <4>9. Refusal(limit_order_gate(p, op))
          BY <4>1, <4>5, <4>6, <4>7, <4>8
        <4> QED BY <3>2, <4>2, <4>9
      <3>3. CASE op.kind \in {"confidential", "payment_check", "swap", "cross_chain_withdraw"}
        <4>1. name = op.kind
          BY <3>3 DEF OptIns, ChainKinds, bind_mode, TokenKinds, NearKinds
        <4> QED BY <1>2, <1>5, <3>3, <4>1 DEF check_capabilities, extension_reaches_intents, IsDoor
      <3>4. CASE op.kind = "call"
        <4>1. name = "intents_call" /\ (op.to \in IntentsContracts \/ extension_reaches_intents(op))
          BY <3>4 DEF OptIns, ChainKinds, bind_mode, TokenKinds, NearKinds
        <4>2. is_fenced_intents_call(op.to, op.detail.method) \/ extension_reaches_intents(op)
          BY <3>4, <4>1 DEF GateOnly
        <4> QED BY <1>2, <1>5, <3>4, <4>1, <4>2 DEF check_capabilities
      <3>5. op.kind \in {"raw", "limit_order", "confidential", "payment_check", "swap", "cross_chain_withdraw", "call"}
        BY <1>1, <1>4 DEF OptIns, ChainKinds, bind_mode, TokenKinds, NearKinds, FundMovingKinds, UnpricedKinds
      <3> QED BY <3>1, <3>2, <3>3, <3>4, <3>5
    <2>2. evaluate(p, op, usage, now).decision \in {"deny", "frozen"}
      BY <2>1, RefusedByCapability
    <2> QED BY <1>4, <2>2 DEF judged
  <1> QED BY <1>3, <1>4

\* What is asked and what is in force are of the constants' sets, and what is
\* signed passed the gate of the build that signed it.
ClaimOf(op) == IF IsDoor(op) THEN op.detail.claim ELSE Claim(Unstated, Unstated)
KnownFlight(f, r) ==
  /\ r.stage \in {"admitted", "signed"} => r.op \in Asks[f]
  /\ r.stage = "signed" => signing_version_gate(r.carried, IsDoor(r.op), ClaimOf(r.op))

KnownInv ==
  /\ DOMAIN flight = Flights /\ policy \in Policies
  /\ \A f \in Flights : KnownFlight(f, flight[f])

LEMMA AlwaysKnown == Spec => []KnownInv
  <1>0. \A f : KnownFlight(f, New) /\ KnownFlight(f, Over)
    BY DEF KnownFlight, New, Over
  <1>1. Init => KnownInv
    BY <1>0 DEF Init, KnownInv
  <1>2. ASSUME KnownInv, [Next]_vars PROVE KnownInv'
    <2>1. ASSUME NEW f \in Flights, NEW r, flight' = [flight EXCEPT ![f] = r], policy' = policy, KnownFlight(f, r)
          PROVE  KnownInv'
      <3>1. DOMAIN flight' = Flights /\ flight'[f] = r /\ \A g \in Flights : g # f => flight'[g] = flight[g]
        BY <1>2, <2>1 DEF KnownInv
      <3>2. \A g \in Flights : KnownFlight(g, flight'[g])
        BY <1>2, <2>1, <3>1 DEF KnownInv
      <3> QED BY <1>2, <2>1, <3>1, <3>2 DEF KnownInv, KnownFlight
    <2>2. ASSUME NEW f \in Flights, NEW op \in Asks[f], NEW document \in Documents, Submit(f, op, document)
          PROVE  KnownInv'
      <3> DEFINE decision == judged(policy, op, from_current_usage(document), now_unix)
                 admitted == [stage |-> "admitted", op |-> op, decision |-> decision, votes |-> 0, policy |-> policy, hour |-> hour]
      <3>1. /\ policy' = policy
            /\ \/ flight' = [flight EXCEPT ![f] = admitted]
               \/ flight' = [flight EXCEPT ![f] = Over]
        BY <2>2 DEF Submit
      <3>2. KnownFlight(f, admitted)
        BY DEF KnownFlight
      <3> HIDE DEF decision, admitted
      <3> QED BY <1>0, <2>1, <3>1, <3>2
    <2>3. ASSUME NEW f \in Flights, Vote(f) PROVE KnownInv'
      <3> DEFINE r == [flight[f] EXCEPT !.votes = @ + 1]
      <3>1. flight[f].stage = "admitted" /\ policy' = policy /\ flight' = [flight EXCEPT ![f] = r]
        BY <1>2, <2>3 DEF Vote, KnownInv
      <3>2. r.op = flight[f].op /\ r.stage = flight[f].stage
        OBVIOUS
      <3>3. flight[f].op \in Asks[f]
        BY <1>2, <3>1 DEF KnownInv, KnownFlight
      <3> HIDE DEF r
      <3>4. KnownFlight(f, r)
        BY <3>1, <3>2, <3>3 DEF KnownFlight
      <3> QED BY <2>1, <3>1, <3>4
    <2>4. ASSUME NEW f \in Flights, NEW carried \in Builds, Sign(f, carried) PROVE KnownInv'
      <3> DEFINE op == flight[f].op
                 r == [stage |-> "signed", op |-> op, carried |-> carried]
      <3>1. /\ policy' = policy /\ flight[f].stage = "admitted"
            /\ \/ flight' = [flight EXCEPT ![f] = r] /\ signable(op, carried)
               \/ flight' = [flight EXCEPT ![f] = Over]
        BY <2>4 DEF Sign
      <3>2. op \in Asks[f]
        BY <1>2, <3>1 DEF KnownInv, KnownFlight
      <3>3. r.op = op /\ r.carried = carried /\ r.stage = "signed"
        OBVIOUS
      <3>4. signable(op, carried) => signing_version_gate(carried, IsDoor(op), ClaimOf(op))
        BY DEF signable, ClaimOf
      <3> HIDE DEF op, r
      <3>5. signable(op, carried) => KnownFlight(f, r)
        BY <3>2, <3>3, <3>4 DEF KnownFlight
      <3> QED BY <1>0, <2>1, <3>1, <3>5
    <2>5. ASSUME NEW f \in Flights, Record(f) \/ HandOver(f) PROVE KnownInv'
      <3>1. flight' = [flight EXCEPT ![f] = Over] /\ policy' = policy
        BY <2>5 DEF Record, HandOver
      <3> QED BY <1>0, <2>1, <3>1
    <2>6. CASE (\E p \in Policies : StorePolicy(p)) \/ NextHour \/ UNCHANGED vars
      BY <1>2, <2>6 DEF StorePolicy, NextHour, vars, KnownInv, KnownFlight
    <2> QED BY <1>2, <2>2, <2>3, <2>4, <2>5, <2>6 DEF Next
  <1> QED BY <1>1, <1>2, PTL DEF Spec

\* When a job states of a leased account nothing, or what is so, no build reads its
\* request by another schema than the account's; for any builds and any jobs.
THEOREM SchemasAreRead ==
  ASSUME \A f \in Flights : \A op \in Asks[f] : IsDoor(op) /\ op.detail.account.kind = "hos_lease" =>
           /\ op.detail.claim.kind # "personal_account"
           /\ op.detail.claim.decoder \in {Unstated, op.detail.account.schema}
  PROVE  Spec => []ReadByItsSchema
  <1>1. KnownInv => ReadByItsSchema
    <2> SUFFICES ASSUME KnownInv, NEW f \in Flights, flight[f].stage = "signed", IsDoor(flight[f].op),
                        flight[f].op.detail.account.kind = "hos_lease"
                 PROVE  flight[f].op.detail.account.schema \in flight[f].carried
      BY DEF ReadByItsSchema
    <2> DEFINE op == flight[f].op
    <2>1. op \in Asks[f] /\ signing_version_gate(flight[f].carried, IsDoor(op), op.detail.claim)
      BY DEF KnownInv, KnownFlight, ClaimOf
    <2>2. op.detail.claim.kind # "personal_account" /\ op.detail.claim.decoder \in {Unstated, op.detail.account.schema}
      BY <2>1
    <2> DEFINE claim == op.detail.claim
               carried == flight[f].carried
               kind == IF claim.kind = Unstated THEN "hos_lease" ELSE parse(claim.kind)
    <2>3. claim.kind # "personal_account" => kind # "personal_account"
      BY UnstatedAssumption DEF parse, BindingKinds
    <2>4. \/ kind = "hos_lease" /\ claim.decoder # Unstated /\ claim.decoder \in carried
          \/ kind = "personal_account"
      BY <2>1 DEF signing_version_gate, decoder_supported
    <2>5. claim.decoder # Unstated /\ claim.decoder \in carried
      BY <2>2, <2>3, <2>4
    <2> QED BY <2>2, <2>5
  <1> QED BY <1>1, AlwaysKnown, PTL

\* Only the keystore's step signs, and only what it judges admissible by the policy
\* in force.
LEMMA SignStep ==
  ASSUME KnownInv, Next, NEW f \in Flights, flight[f].stage = "admitted", flight'[f].stage = "signed"
  PROVE  /\ policy \in Policies /\ flight[f].op \in Asks[f] /\ ~GateOnly(flight[f].op)
         /\ judged(policy, flight[f].op, Absent, now_unix).decision \in {"allow", "requires_approval"}
  <1>0. Over.stage # "signed" /\ New.stage # "signed"
    BY DEF Over, New
  <1>1. PICK carried \in Builds : Sign(f, carried)
    <2>1. ASSUME NEW g \in Flights, NEW r, flight' = [flight EXCEPT ![g] = r], g # f \/ r.stage # "signed" PROVE FALSE
      <3>1. flight'[f] = IF f = g THEN r ELSE flight[f]
        BY <2>1 DEF KnownInv
      <3> QED BY <2>1, <3>1
    <2>2. ASSUME NEW g \in Flights, NEW op, NEW document, Submit(g, op, document) PROVE FALSE
      <3>1. flight[g].stage = "new"
        BY <2>2 DEF Submit
      <3>2. g # f
        BY <3>1
      <3>3. PICK r : flight' = [flight EXCEPT ![g] = r]
        BY <2>2 DEF Submit
      <3> QED BY <2>1, <3>2, <3>3
    <2>3. ASSUME NEW g \in Flights, Vote(g) PROVE FALSE
      <3>1. flight[g].stage = "admitted" /\ flight' = [flight EXCEPT ![g] = [flight[g] EXCEPT !.votes = @ + 1]]
        BY <2>3 DEF Vote, KnownInv
      <3>2. [flight[g] EXCEPT !.votes = @ + 1].stage # "signed"
        BY <3>1
      <3> QED BY <2>1, <3>1, <3>2
    <2>4. ASSUME NEW g \in Flights, Record(g) \/ HandOver(g) PROVE FALSE
      <3>1. flight' = [flight EXCEPT ![g] = Over]
        BY <2>4 DEF Record, HandOver
      <3> QED BY <1>0, <2>1, <3>1
    <2>5. ASSUME NEW g \in Flights, g # f, NEW carried \in Builds, Sign(g, carried) PROVE FALSE
      <3>1. PICK r : flight' = [flight EXCEPT ![g] = r]
        BY <2>5 DEF Sign
      <3> QED BY <2>1, <2>5, <3>1
    <2>6. ~((\E p \in Policies : StorePolicy(p)) \/ NextHour)
      BY DEF StorePolicy, NextHour
    <2> QED BY <2>2, <2>3, <2>4, <2>5, <2>6 DEF Next
  <1> DEFINE decision == judged(policy, flight[f].op, Absent, now_unix)
  <1>2. /\ ~GateOnly(flight[f].op)
        /\ decision = Allow \/ decision.decision = "requires_approval"
    <2>1. flight'[f] # Over
      BY <1>0
    <2> HIDE DEF decision
    <2>2. \/ /\ ~GateOnly(flight[f].op)
             /\ decision = Allow \/ decision.decision = "requires_approval"
          \/ flight' = [flight EXCEPT ![f] = Over]
      BY <1>1 DEF Sign, decision, signable
    <2> QED BY <2>1, <2>2 DEF KnownInv
  <1>3. decision.decision \in {"allow", "requires_approval"}
    BY <1>2 DEF Allow
  <1>4. policy \in Policies /\ flight[f].op \in Asks[f]
    BY DEF KnownInv, KnownFlight
  <1> QED BY <1>2, <1>3, <1>4

\* Under any policies and for any operations: what the keystore takes on trust is
\* signed only when the policy in force at that moment has its capability written.
THEOREM TrustIsOptedInto == Spec => SignedByOptIn
  <1>1. ASSUME KnownInv, Next, NEW f \in Flights, flight[f].stage = "admitted", flight'[f].stage = "signed",
               NEW name \in OptIns(flight[f].op)
        PROVE  WrittenIn(policy, name)
    BY <1>1, SignStep, UnwrittenIsRefused
  <1>2. KnownInv /\ [Next]_vars =>
          [\A f \in Flights : flight[f].stage = "admitted" /\ flight'[f].stage = "signed" =>
             \A name \in OptIns(flight[f].op) : WrittenIn(policy, name)]_vars
    BY <1>1
  <1> QED BY AlwaysKnown, <1>2, PTL DEF Spec, SignedByOptIn

(***************************************************************************)
(* What an admitted operation passed.                                      *)
(***************************************************************************)

\* An operation is decided by what one of the rules says, or allowed by all.
LEMMA DecidedByARule ==
  ASSUME NEW p, NEW op, NEW usage, NEW now
  PROVE  LET said == evaluate_section(p, op, usage, now)
             decision == evaluate(p, op, usage, now)
         IN  \/ decision = Allow /\ \A i \in 1..15 : said[i] = {}
             \/ \E m \in 1..15 : decision \in said[m] /\ \A i \in 1..15 : said[i] # {} => m <= i
  <1> DEFINE said == evaluate_section(p, op, usage, now)
             speaks == {i \in DOMAIN said : said[i] # {}}
             m == Min(speaks)
  <1>1. DOMAIN said = 1..15
    BY DEF evaluate_section
  <1>2. evaluate(p, op, usage, now) = IF speaks = {} THEN Allow ELSE CHOOSE d \in said[Min(speaks)] : TRUE
    BY DEF evaluate
  <1> HIDE DEF said
  <1>3. speaks \in SUBSET (1..15)
    BY <1>1
  <1>4. CASE speaks = {}
    BY <1>1, <1>2, <1>4 DEF said
  <1>5. CASE speaks # {}
    <2>1. m \in speaks /\ \A i \in speaks : m <= i
      BY <1>3, <1>5, MinIsFirst
    <2>2. evaluate(p, op, usage, now) \in said[m]
      BY <1>2, <1>5, <2>1
    <2>3. m \in 1..15 /\ \A i \in 1..15 : said[i] # {} => m <= i
      BY <1>1, <2>1
    <2> HIDE DEF m, speaks
    <2> QED BY <2>2, <2>3 DEF said
  <1> QED BY <1>4, <1>5

\* What is admitted, and is not an identity proof, met silence up to the capabilities.
LEMMA SilentWhenAdmitted ==
  ASSUME NEW p, NEW op, NEW usage, NEW now, op.kind # "auth",
         evaluate(p, op, usage, now).decision \in {"allow", "requires_approval"}
  PROVE  /\ ~p.frozen
         /\ evaluate_extension_call(p.rules, op, usage) = {} /\ addresses_rule(p.rules, op) = {}
         /\ invalid_amount(op) = {} /\ per_transaction(p.rules, op) = {}
         /\ velocity(p.rules, op, usage) = {} /\ hourly_tx_count(p.rules, usage) = {}
         /\ check_time_restrictions(p.rules.time_restrictions, now) = {}
  <1> DEFINE said == evaluate_section(p, op, usage, now)
             decision == evaluate(p, op, usage, now)
  <1>1. \A i \in 1..13 : said[i] = {}
    <2> SUFFICES ASSUME NEW i \in 1..13, said[i] # {} PROVE FALSE
      OBVIOUS
    <2>1. i \in 1..15
      OBVIOUS
    <2>2. PICK m \in 1..15 : decision \in said[m] /\ \A j \in 1..15 : said[j] # {} => m <= j
      BY <2>1, DecidedByARule
    <2>3. m \in 1..13
      BY <2>1, <2>2
    <2>4. \A d \in said[m] : d.decision \in {"deny", "frozen"}
      BY <2>3, EarlierRulesRefuse
    <2> QED BY <2>2, <2>4
  <1>2. /\ said[2] = freeze(p, op) /\ said[5] = evaluate_extension_call(p.rules, op, usage)
        /\ said[8] = addresses_rule(p.rules, op) /\ said[9] = invalid_amount(op)
        /\ said[10] = per_transaction(p.rules, op) /\ said[11] = velocity(p.rules, op, usage)
        /\ said[12] = hourly_tx_count(p.rules, usage)
        /\ said[13] = check_time_restrictions(p.rules.time_restrictions, now)
    BY DEF evaluate_section
  <1> HIDE DEF said
  <1>3. freeze(p, op) = {}
    BY <1>1, <1>2
  <1> QED BY <1>1, <1>2, <1>3 DEF freeze

\* What an admitting decision says: nothing more, or the votes the policy's own
\* threshold asks for.
LEMMA AdmittingDecision ==
  ASSUME NEW p, NEW op, NEW usage, NEW now, p # Absent,
         judged(p, op, usage, now).decision \in {"allow", "requires_approval"}
  PROVE  \/ judged(p, op, usage, now) = Allow
         \/ /\ p.approval # Absent /\ p.approval.threshold # Absent
            /\ judged(p, op, usage, now) = RequiresApproval(required(p.approval.threshold))
  <1> DEFINE said == evaluate_section(p, op, usage, now)
             asked == RequiresApproval(required(p.approval.threshold))
             Known(d) == \/ d = Allow
                         \/ d.decision \in {"deny", "frozen"}
                         \/ p.approval # Absent /\ p.approval.threshold # Absent /\ d = asked
  <1>1. Frozen.decision = "frozen" /\ (\A rule : Deny(rule).decision = "deny") /\ Allow.decision = "allow"
    BY DEF Frozen, Deny, Allow
  <1>2. CASE op.kind \in ChainKinds
    <2>1. judged(p, op, usage, now) \in {Allow, Frozen, Deny("time_restrictions"), Deny("capabilities")}
      BY <1>2 DEF judged, chain_sign_decision
    <2> QED BY <1>1, <2>1
  <1>3. CASE op.kind \notin ChainKinds
    <2>1. judged(p, op, usage, now) = evaluate(p, op, usage, now)
      BY <1>3 DEF judged
    <2>2. \A d \in said[14] : Known(d)
      <3>1. approval_demand(p) \in {Deny("approval")} \/ (p.approval # Absent /\ p.approval.threshold # Absent /\ approval_demand(p) = asked)
        BY DEF approval_demand
      <3>2. Known(approval_demand(p)) /\ Known(Deny("capabilities"))
        BY <1>1, <3>1
      <3>3. \A name, default : \A d \in Gate(p, name, default) : Known(d)
        <4>1. \A name, default : \A d \in Gate(p, name, default) : d = Deny("capabilities") \/ d = approval_demand(p)
          BY DEF Gate
        <4> HIDE DEF Known
        <4> QED BY <3>2, <4>1
      <3> HIDE DEF Known
      <3>4. \A d \in limit_order_gate(p, op) : Known(d)
        BY <3>3 DEF limit_order_gate
      <3>5. \A d \in check_capabilities(p, op) : Known(d)
        BY <3>2, <3>3, <3>4 DEF check_capabilities
      <3> QED BY <3>5 DEF evaluate_section
    <2>3. \A d \in said[15] : Known(d)
      BY DEF evaluate_section, generic_approval
    <2>4. ASSUME NEW i \in 1..13, op.kind = "auth"
          PROVE  \A d \in said[i] : Known(d) \/ i > 3
      <3>1. i \in {1, 2, 3} \/ i > 3
        OBVIOUS
      <3>2. /\ \A d \in never_signed(p, op) : d.decision = "deny"
            /\ \A d \in freeze(p, op) : d \in {Allow, Frozen}
            /\ \A d \in identity(op) : d = Allow
        BY <1>1 DEF never_signed, freeze, identity
      <3>3. said[1] = never_signed(p, op) /\ said[2] = freeze(p, op) /\ said[3] = identity(op)
        BY DEF evaluate_section
      <3> HIDE DEF said
      <3> QED BY <1>1, <3>1, <3>2, <3>3
    <2>5. said[3] = identity(op)
      BY DEF evaluate_section
    <2>6. op.kind = "auth" => said[3] # {}
      BY <2>5 DEF identity
    <2>7. op.kind # "auth" => \A i \in 1..13 : \A d \in said[i] : d.decision \in {"deny", "frozen"}
      BY EarlierRulesRefuse
    <2>8. \A i \in 1..15 : i \in 1..13 \/ i = 14 \/ i = 15
      OBVIOUS
    <2>9. \/ evaluate(p, op, usage, now) = Allow
          \/ \E m \in 1..15 : evaluate(p, op, usage, now) \in said[m] /\ \A i \in 1..15 : said[i] # {} => m <= i
      BY DecidedByARule
    <2> HIDE DEF said, Known
    <2>10. CASE evaluate(p, op, usage, now) = Allow
      BY <2>1, <2>10
    <2>11. ASSUME NEW m \in 1..15, evaluate(p, op, usage, now) \in said[m], \A i \in 1..15 : said[i] # {} => m <= i
           PROVE  Known(evaluate(p, op, usage, now))
      <3>1. CASE op.kind = "auth"
        <4>1. m <= 3
          BY <2>6, <2>11, <3>1
        <4>2. m \in 1..13 /\ ~(m > 3)
          BY <4>1
        <4> QED BY <2>4, <2>11, <3>1, <4>2
      <3>2. CASE op.kind # "auth"
        BY <2>2, <2>3, <2>7, <2>8, <2>11, <3>2 DEF Known
      <3> QED BY <3>1, <3>2
    <2>12. Known(evaluate(p, op, usage, now))
      BY <2>9, <2>11 DEF Known
    <2> QED BY <2>1, <2>12 DEF Known
  <1> QED BY <1>2, <1>3

(***************************************************************************)
(* Hours and days.                                                         *)
(***************************************************************************)

\* The seconds of a clock on the hour.
LEMMA OnTheHour ==
  ASSUME NEW h \in Nat
  PROVE  /\ ((h * 3600) % 86400) \div 3600 = h % 24
         /\ (h * 3600) \div 86400 = h \div 24
  <1>1. ASSUME NEW x \in Nat, x = h * 3600
        PROVE  x % 86400 = 3600 * (h % 24) /\ x \div 86400 = h \div 24
    BY <1>1
  <1>2. (h * 3600) % 86400 = 3600 * (h % 24) /\ (h * 3600) \div 86400 = h \div 24
    BY <1>1
  <1>3. \A r \in 0..23 : (3600 * r) \div 3600 = r
    OBVIOUS
  <1>4. h % 24 \in 0..23
    OBVIOUS
  <1> QED BY <1>2, <1>3, <1>4

\* An hour within a range that may go over midnight is one of those it goes through.
LEMMA WithinTheRange ==
  ASSUME NEW h \in 0..23, NEW s \in 0..23, NEW e \in 0..23,
         IF s <= e THEN h >= s /\ h < e ELSE h >= s \/ h < e
  PROVE  h \in FromTo(s, e)
  <1> DEFINE i == IF h >= s THEN h - s ELSE h + 24 - s
  <1>1. (e - s) % 24 = IF s <= e THEN e - s ELSE e + 24 - s
    OBVIOUS
  <1>2. i \in 0..((e - s) % 24) - 1
    BY <1>1
  <1>3. (s + i) % 24 = h
    OBVIOUS
  <1> QED BY <1>2, <1>3 DEF FromTo

\* The day of the week, told by the calendar.
LEMMA WeekdayIsCalendar ==
  ASSUME NEW d \in Nat
  PROVE  ((d + 3) % 7) + 1 = Calendar[(d % 7) + 1]
  <1> DEFINE q == d \div 7
             r == d % 7
  <1>1. q \in Nat /\ r \in 0..6 /\ d = 7 * q + r
    OBVIOUS
  <1> HIDE DEF q, r
  <1>2. (d + 3) % 7 = IF r < 4 THEN r + 3 ELSE r - 4
    BY <1>1
  <1>3. r \in {0, 1, 2, 3, 4, 5, 6}
    BY <1>1
  <1>4. Calendar[r + 1] = IF r < 4 THEN r + 4 ELSE r - 3
    BY <1>3 DEF Calendar
  <1>5. r < 4 \/ ~(r < 4)
    OBVIOUS
  <1>6. ((d + 3) % 7) + 1 = Calendar[r + 1]
    BY <1>1, <1>2, <1>4
  <1> QED BY <1>6 DEF r

\* When the time restrictions say nothing, the policy is open.
LEMMA SilentIsOpen ==
  ASSUME NEW tr, tr = Absent \/ IsTimeRestrictions(tr), NEW h \in Nat,
         check_time_restrictions(tr, h * 3600) = {}
  PROVE  OpenAt(tr, h)
  <1> DEFINE hr == ((h * 3600) % 86400) \div 3600
             weekday == ((((h * 3600) \div 86400) + 3) % 7) + 1
             s == tr.allowed_hours[1]
             e == tr.allowed_hours[2]
  <1>1. CASE tr = Absent
    BY <1>1 DEF OpenAt
  <1>2. CASE tr # Absent
    <2>1. /\ tr.timezone \in {Absent, "UTC"}
          /\ tr.allowed_hours # Absent =>
               /\ Len(tr.allowed_hours) = 2 /\ \A i \in DOMAIN tr.allowed_hours : ~(tr.allowed_hours[i] >= 24)
               /\ IF s <= e THEN hr >= s /\ hr < e ELSE hr >= s \/ hr < e
          /\ tr.allowed_days # Absent => weekday \in tr.allowed_days
      BY <1>2 DEF check_time_restrictions
    <2>2. hr = h % 24 /\ h % 24 \in 0..23
      BY OnTheHour
    <2>3. weekday = Calendar[((h \div 24) % 7) + 1]
      <3>1. h \div 24 \in Nat
        OBVIOUS
      <3> QED BY <3>1, OnTheHour, WeekdayIsCalendar
    <2>4. ASSUME tr.allowed_hours # Absent PROVE hr \in FromTo(s, e)
      <3>1. tr.allowed_hours \in Seq(Nat) /\ Len(tr.allowed_hours) = 2
        BY <1>2, <2>1, <2>4 DEF IsTimeRestrictions
      <3>2. s \in Nat /\ e \in Nat /\ ~(s >= 24) /\ ~(e >= 24)
        BY <2>1, <2>4, <3>1
      <3> HIDE DEF s, e, hr
      <3>3. s \in 0..23 /\ e \in 0..23 /\ hr \in 0..23
        BY <2>2, <3>2
      <3> QED BY <2>1, <2>4, <3>3, WithinTheRange
    <2> QED BY <2>1, <2>2, <2>3, <2>4 DEF OpenAt
  <1> QED BY <1>1, <1>2

(***************************************************************************)
(* The sums: what the effects total and what the chain moves.              *)
(***************************************************************************)

\* A place is a promise and an action of it.
LEMMA PlacesArePairs ==
  ASSUME NEW request, NEW p \in Places(request)
  PROVE  /\ p = <<p[1], p[2]>> /\ p[1] \in DOMAIN request /\ p[2] \in DOMAIN request[p[1]].actions
  BY DEF Places

\* A token's transfers are among the places, and what each moves is a natural.
LEMMA PullsAre ==
  ASSUME NEW request, IsRequest(request), NEW t
  PROVE  /\ Pulls(request, t) \subseteq Places(request) /\ IsFiniteSet(Pulls(request, t))
         /\ \A p \in Pulls(request, t) : ActionAt(request, p).args.units \in Nat
  <1>1. Pulls(request, t) \subseteq TokenCalls(request) /\ TokenCalls(request) \subseteq Calls(request)
        /\ Calls(request) \subseteq Places(request)
    BY DEF Pulls, TokenCalls, Calls
  <1>2. IsFiniteSet(Pulls(request, t))
    BY <1>1, PlacesFinite, FS_Subset
  <1>3. ASSUME NEW p \in TokenCalls(request)
        PROVE  ActionAt(request, p).args.units \in Nat
    <2>1. IsAction(ActionAt(request, p))
      BY <1>1, PlacesArePairs, RequestShape DEF ActionAt
    <2>2. ActionAt(request, p).action = "function_call" /\ ActionAt(request, p).args.readable = "yes"
      BY DEF TokenCalls, Calls, Reads
    <2>3. ActionAt(request, p).args.units \in 0..MaxU128
      BY <2>1, <2>2 DEF IsAction
    <2> QED BY <2>3, CountersAssumption
  <1> QED BY <1>1, <1>2, <1>3

\* What the policy totals of a token is the sum of what its transfers move, capped.
THEOREM TokenTotalIs ==
  ASSUME NEW request, IsRequest(request), NEW t
  PROVE  Units(request, t) \in Nat /\ token_total(effects(request), t) = Capped(Units(request, t))
  <1> DEFINE S == Pulls(request, t)
             w == [p \in S |-> ActionAt(request, p).args.units]
             R == {m \in effects(request).token_moves : m.token = t /\ m.method = "ft_transfer"}
             v == [m \in R |-> m.units]
             h == [p \in S |-> TokenMove(request, p)]
  <1>1. IsFiniteSet(S) /\ w \in [S -> Nat]
    BY PullsAre
  <1>2. \A p \in S : p = <<p[1], p[2]>>
    BY PullsAre, PlacesArePairs
  <1>3. R = {TokenMove(request, p) : p \in S}
    <2>1. effects(request).token_moves = {TokenMove(request, p) : p \in TokenCalls(request)}
      BY DEF effects
    <2>2. \A p : TokenMove(request, p).token = request[p[1]].receiver_id /\ TokenMove(request, p).method = ActionAt(request, p).method
      BY DEF TokenMove
    <2> QED BY <2>1, <2>2 DEF Pulls
  <1>4. \A p \in S : /\ TokenMove(request, p).promise_index = p[1] /\ TokenMove(request, p).action = p[2]
                     /\ TokenMove(request, p).units = w[p]
    BY DEF TokenMove
  <1> HIDE DEF S, w, R
  <1>5. h \in Bijection(S, R) /\ \A p \in S : v[h[p]] = w[p]
    <2>1. h \in [S -> R] /\ \A m \in R : \E p \in S : h[p] = m
      BY <1>3
    <2>2. \A p, q \in S : h[p] = h[q] => p = q
      BY <1>2, <1>4
    <2>3. \A p \in S : v[h[p]] = w[p]
      BY <1>3, <1>4
    <2> HIDE DEF h, v
    <2>4. h \in Bijection(S, R)
      BY <2>1, <2>2 DEF Bijection, Injection, Surjection, IsInjective
    <2> QED BY <2>3, <2>4
  <1>6. IsFiniteSet(R)
    BY <1>1, <1>5, FS_Bijection DEF ExistsBijection
  <1>7. v \in [R -> Nat]
    <2>1. \A m \in R : m.units \in Nat
      BY <1>1, <1>3, <1>4
    <2> QED BY <2>1
  <1> HIDE DEF h, v
  <1>8. SumFunction(w) = SumFunction(v)
    BY <1>1, <1>5, <1>6, <1>7, SumMapped
  <1>9. SumFunction(w) \in Nat
    <2>1. SumFunction(w) = SumFunctionOnSet(w, S)
      BY <1>1 DEF SumFunction
    <2> QED BY <1>1, <2>1, SumWith
  <1>10. Units(request, t) = SumFunction(w)
    BY DEF Units, w, S
  <1>11. token_total(effects(request), t) = Capped(SumFunction(v))
    BY DEF token_total, v, R
  <1> QED BY <1>8, <1>9, <1>10, <1>11

\* A token the request moves units of is one of the tokens the policy asks about.
LEMMA MovedIsAsked ==
  ASSUME NEW request, IsRequest(request), NEW t, Units(request, t) > 0
  PROVE  t \in MovedTokens(effects(request))
  <1> DEFINE S == Pulls(request, t)
             w == [p \in S |-> ActionAt(request, p).args.units]
  <1>1. S # {}
    <2> SUFFICES ASSUME S = {} PROVE FALSE
      OBVIOUS
    <2>1. w \in [S -> Nat] /\ IsFiniteSet(S)
      BY PullsAre
    <2>2. Units(request, t) = SumFunctionOnSet(w, S)
      BY <2>1 DEF Units, SumFunction
    <2> HIDE DEF w
    <2>3. SumFunctionOnSet(w, S) = 0
      BY <2>1, SumWith
    <2> QED BY <2>2, <2>3
  <1>2. PICK p \in S : TRUE
    BY <1>1
  <1>3. p \in TokenCalls(request) /\ request[p[1]].receiver_id = t /\ ActionAt(request, p).method = "ft_transfer"
    BY DEF Pulls
  <1>4. TokenMove(request, p) \in effects(request).token_moves
    BY <1>3 DEF effects
  <1>5. TokenMove(request, p).token = t /\ TokenMove(request, p).method = "ft_transfer"
    BY <1>3 DEF TokenMove
  <1> QED BY <1>4, <1>5 DEF MovedTokens

\* What an operation moves, when its amount reads, is a natural.
LEMMA MovesAreNat ==
  ASSUME NEW op, IsOp(op), amount_of(op) # Unreadable, NEW t
  PROVE  Moves(op, t) \in Nat
  <1>1. CASE IsDoor(op)
    <2>1. IsRequest(op.detail.external)
      BY <1>1 DEF IsOp
    <2>2. Attached(op.detail.external) \in Nat
      <3>1. Attached(op.detail.external) = SumFunction(Amounts(op.detail.external))
        BY DEF Attached, Amounts
      <3> QED BY <2>1, <3>1, NativeIsAttached, CountersAssumption
    <2>3. Units(op.detail.external, t) \in Nat
      BY <2>1, TokenTotalIs
    <2> QED BY <1>1, <2>2, <2>3 DEF Moves
  <1>2. CASE ~IsDoor(op)
    <2>1. amount_of(op) = Absent \/ amount_of(op) \in 0..MaxU128
      BY DEF IsOp, IsAmount, amount_of
    <2> QED BY <1>2, <2>1, CountersAssumption DEF Moves
  <1> QED BY <1>1, <1>2

(***************************************************************************)
(* Caps and limits.                                                        *)
(***************************************************************************)

\* A limit that reads is a u128.
LEMMA LimitsAreU128 ==
  ASSUME NEW p \in Policies, p.rules.limits # Absent, NEW w \in Windows \cup {"per_transaction"}, NEW t,
         NEW limit \in lookup_limit(p.rules.limits[w], t)
  PROVE  limit \in 0..MaxU128
  <1>1. IsLimits(p.rules.limits)
    BY SchemaAssumption DEF IsPolicy, IsRules
  <1>2. PICK key \in DOMAIN p.rules.limits[w] : limit = p.rules.limits[w][key] /\ limit # Unreadable
    BY DEF lookup_limit
  <1>3. IsAmount(limit)
    BY <1>1, <1>2 DEF IsLimits
  <1> QED BY <1>2, <1>3 DEF IsAmount

\* The door that opens, seen from its three sides: the calls, the accounts, the sums.
LEMMA SilentDoor ==
  ASSUME NEW rules, NEW op, NEW usage, IsDoor(op), evaluate_extension_call(rules, op, usage) = {}
  PROVE  LET fx == effects(op.detail.external) IN
         /\ fx.unknown_fund_moving = {}
         /\ rules.addresses # Absent => \A dest \in touched(fx) : Permitted(rules.addresses, dest)
         /\ rules.limits # Absent =>
              /\ fx.native_total > 0 =>
                   /\ \A limit \in lookup_limit(rules.limits.per_transaction, Native) : ~(fx.native_total > limit)
                   /\ usage # Absent => Velocity(rules.limits, usage, Native, fx.native_total) = {}
              /\ \A t \in MovedTokens(fx) :
                   /\ \A limit \in lookup_limit(rules.limits.per_transaction, t) : ~(token_total(fx, t) > limit)
                   /\ usage # Absent => Velocity(rules.limits, usage, t, token_total(fx, t)) = {}
  <1>1. ~effects_refused(rules, effects(op.detail.external), usage)
    BY DEF evaluate_extension_call
  <1> QED BY <1>1 DEF effects_refused

\* A window that is silent of an amount has room for it, and its counter reads.
LEMMA SilentWindow ==
  ASSUME NEW limits, NEW usage, NEW t, NEW amount, Velocity(limits, usage, t, amount) = {},
         NEW w \in Windows, NEW limit \in lookup_limit(limits[w], t)
  PROVE  ~counter_unreadable(usage, w, t) /\ ~(Capped(Spent(usage, w, t) + amount) > limit)
  <1>1. w \notin {x \in Windows : \E l \in lookup_limit(limits[x], t) :
            \/ counter_unreadable(usage, x, t) \/ saturating_add(Spent(usage, x, t), amount) > l}
    BY DEF Velocity
  <1> QED BY <1>1 DEF saturating_add

\* What of a token an admitted operation moves was asked about, as a sum that
\* saturates: against the limit of a transaction, and with the counters against
\* the caps of the windows.
LEMMA AskedOfMoves ==
  ASSUME NEW p \in Policies, NEW op, IsOp(op), NEW usage, NEW now, op.kind # "auth",
         evaluate(p, op, usage, now).decision \in {"allow", "requires_approval"},
         p.rules.limits # Absent, NEW t, Moves(op, t) > 0
  PROVE  /\ Moves(op, t) \in Nat
         /\ \A limit \in lookup_limit(p.rules.limits.per_transaction, t) : Capped(Moves(op, t)) <= limit
         /\ usage # Absent => \E amount \in Nat :
              Capped(amount) = Capped(Moves(op, t)) /\ Velocity(p.rules.limits, usage, t, amount) = {}
  <1>1. /\ evaluate_extension_call(p.rules, op, usage) = {} /\ invalid_amount(op) = {}
        /\ per_transaction(p.rules, op) = {} /\ velocity(p.rules, op, usage) = {}
    BY SilentWhenAdmitted
  <1>2. amount_of(op) # Unreadable
    BY <1>1 DEF invalid_amount
  <1>3. Moves(op, t) \in Nat
    BY <1>2, MovesAreNat
  <1>4. \A limit \in lookup_limit(p.rules.limits.per_transaction, t) : limit \in Nat
    BY LimitsAreU128, CountersAssumption
  <1>5. MaxU128 \in Nat /\ MaxU128 > 0
    BY CountersAssumption
  <1>6. \A a \in Nat : Capped(a) \in Nat /\ (a > 0 => Capped(a) > 0) /\ Capped(Capped(a)) = Capped(a)
    BY <1>5 DEF Capped
  <1>7. CASE ~IsDoor(op)
    <2>1. amount_of(op) # Absent /\ t = token_of(op) /\ Moves(op, t) = amount_of(op)
      BY <1>7 DEF Moves
    <2>2. amount_of(op) \in 0..MaxU128
      BY <1>2, <2>1 DEF IsOp, IsAmount, amount_of
    <2>3. \A limit \in lookup_limit(p.rules.limits.per_transaction, t) : ~(amount_of(op) > limit)
      BY <1>1, <1>2, <2>1 DEF per_transaction
    <2>4. Capped(amount_of(op)) = amount_of(op)
      BY <2>2, <1>5 DEF Capped
    <2>5. \A limit \in lookup_limit(p.rules.limits.per_transaction, t) : Capped(Moves(op, t)) <= limit
      BY <1>3, <1>4, <2>1, <2>3, <2>4
    <2>6. usage # Absent => Velocity(p.rules.limits, usage, t, amount_of(op)) = {}
      BY <1>1, <1>2, <2>1 DEF velocity
    <2> QED BY <1>3, <2>1, <2>5, <2>6
  <1>8. CASE IsDoor(op)
    <2> DEFINE request == op.detail.external
               fx == effects(request)
    <2>1. IsRequest(request)
      BY <1>8 DEF IsOp
    <2>2. /\ fx.native_total > 0 =>
               /\ \A limit \in lookup_limit(p.rules.limits.per_transaction, Native) : ~(fx.native_total > limit)
               /\ usage # Absent => Velocity(p.rules.limits, usage, Native, fx.native_total) = {}
          /\ \A u \in MovedTokens(fx) :
               /\ \A limit \in lookup_limit(p.rules.limits.per_transaction, u) : ~(token_total(fx, u) > limit)
               /\ usage # Absent => Velocity(p.rules.limits, usage, u, token_total(fx, u)) = {}
      BY <1>1, <1>8, SilentDoor
    <2> DEFINE total == IF t = Native THEN fx.native_total ELSE token_total(fx, t)
    <2>3. total = Capped(Moves(op, t))
      <3>1. CASE t = Native
        <4>1. Moves(op, t) = SumFunction(Amounts(request))
          BY <1>8, <3>1 DEF Moves, Attached, Amounts
        <4>2. fx.native_total = NativeTotal(request)
          BY DEF effects
        <4> QED BY <1>5, <2>1, <3>1, <4>1, <4>2, NativeIsAttached
      <3>2. CASE t # Native
        <4>1. Moves(op, t) = Units(request, t)
          BY <1>8, <3>2 DEF Moves
        <4> QED BY <2>1, <3>2, <4>1, TokenTotalIs
      <3> QED BY <3>1, <3>2
    <2>4. t # Native => t \in MovedTokens(fx)
      <3>1. t # Native => Moves(op, t) = Units(request, t)
        BY <1>8 DEF Moves
      <3> QED BY <2>1, <3>1, MovedIsAsked
    <2> HIDE DEF fx
    <2>5. total > 0 /\ total \in Nat
      BY <1>3, <1>6, <2>3
    <2>6. /\ \A limit \in lookup_limit(p.rules.limits.per_transaction, t) : ~(total > limit)
          /\ usage # Absent => Velocity(p.rules.limits, usage, t, total) = {}
      BY <2>2, <2>4, <2>5
    <2> HIDE DEF total
    <2>7. \A limit \in lookup_limit(p.rules.limits.per_transaction, t) : total <= limit
      BY <1>4, <2>5, <2>6
    <2>8. Capped(total) = Capped(Moves(op, t))
      BY <1>3, <1>6, <2>3
    <2> QED BY <1>3, <2>3, <2>5, <2>6, <2>7, <2>8
  <1> QED BY <1>7, <1>8

(***************************************************************************)
(* Signed under the policy in force.                                       *)
(***************************************************************************)

\* Through a door that opens, every account paid, refunded or registered is among
\* the accounts the rules asked about.
LEMMA PayeesAreTouched ==
  ASSUME NEW request, effects(request).unknown_fund_moving = {},
         NEW i \in DOMAIN request, NEW a \in PayeesOf(request[i]), a # NoAccount
  PROVE  a \in touched(effects(request))
  <1> DEFINE fx == effects(request)
  <1>1. /\ DOMAIN fx.receivers = DOMAIN request /\ \A k \in DOMAIN request : fx.receivers[k] = request[k].receiver_id
        /\ fx.refund_tos = {request[k].refund_to : k \in DOMAIN request} \ {NoAccount}
        /\ fx.token_moves = {TokenMove(request, p) : p \in TokenCalls(request)}
        /\ fx.storage_registrations = {[promise_index |-> p[1], account |-> ActionAt(request, p).args.to] :
              p \in {p \in Calls(request) : Reads(ActionAt(request, p), "storage_deposit")}}
        /\ unknown_fund_moving(request) = {}
    BY DEF effects
  <1> HIDE DEF fx
  <1>2. CASE a = request[i].receiver_id
    BY <1>1, <1>2 DEF touched, fx
  <1>3. CASE a = request[i].refund_to
    BY <1>1, <1>3 DEF touched, fx
  <1>4. ASSUME NEW j \in DOMAIN request[i].actions, request[i].actions[j].action = "function_call",
               a = request[i].actions[j].args.to
        PROVE  a \in touched(fx)
    <2> DEFINE p == <<i, j>>
    <2>1. p \in Calls(request) /\ ActionAt(request, p) = request[i].actions[j]
      BY <1>4 DEF Calls, Places, ActionAt
    <2> HIDE DEF p
    <2>2. CASE p \in TokenCalls(request)
      <3>1. TokenMove(request, p) \in fx.token_moves /\ TokenMove(request, p).recipient = a
        BY <1>1, <1>4, <2>1, <2>2 DEF TokenMove
      <3> QED BY <3>1 DEF touched
    <2>3. CASE p \notin TokenCalls(request)
      <3>1. Reads(ActionAt(request, p), "storage_deposit")
        <4>1. SUFFICES ASSUME ~Reads(ActionAt(request, p), "storage_deposit") PROVE FALSE
          OBVIOUS
        <4>2. [promise_index |-> p[1], method |-> ActionAt(request, p).method] \in unknown_fund_moving(request)
          BY <2>1, <2>3, <4>1 DEF unknown_fund_moving
        <4> QED BY <1>1, <4>2
      <3> DEFINE s == [promise_index |-> p[1], account |-> ActionAt(request, p).args.to]
      <3>2. s \in fx.storage_registrations /\ s.account = a
        BY <1>1, <1>4, <2>1, <3>1
      <3> HIDE DEF s
      <3> QED BY <3>2 DEF touched
    <2> QED BY <2>2, <2>3
  <1>5. \/ a = request[i].receiver_id \/ a = request[i].refund_to
        \/ \E j \in DOMAIN request[i].actions :
             request[i].actions[j].action = "function_call" /\ a = request[i].actions[j].args.to
    BY DEF PayeesOf
  <1> QED BY <1>2, <1>3, <1>4, <1>5 DEF fx

\* What is admitted fits the rules.
LEMMA AdmittedFits ==
  ASSUME NEW p \in Policies, NEW op, IsOp(op), NEW usage, NEW now, op.kind # "auth",
         evaluate(p, op, usage, now).decision \in {"allow", "requires_approval"}
  PROVE  Fits(op, p.rules)
  <1>1. ASSUME p.rules.addresses # Absent, NEW a \in Payees(op)
        PROVE  Permitted(p.rules.addresses, a)
    <2>1. evaluate_extension_call(p.rules, op, usage) = {} /\ addresses_rule(p.rules, op) = {}
      BY SilentWhenAdmitted
    <2>2. CASE a = destination(op)
      <3>1. destination(op) # NoAccount
        BY <1>1, <2>2 DEF Payees
      <3> QED BY <1>1, <2>1, <2>2, <3>1 DEF addresses_rule
    <2>3. CASE a # destination(op)
      <3>1. PICK i \in DOMAIN op.detail.external : a \in PayeesOf(op.detail.external[i])
        BY <1>1, <2>3 DEF Payees
      <3>2. IsDoor(op) /\ a # NoAccount
        BY <1>1, <2>3 DEF Payees
      <3>3. /\ effects(op.detail.external).unknown_fund_moving = {}
            /\ \A dest \in touched(effects(op.detail.external)) : Permitted(p.rules.addresses, dest)
        BY <1>1, <2>1, <3>2, SilentDoor
      <3> QED BY <3>1, <3>2, <3>3, PayeesAreTouched
    <2> QED BY <2>2, <2>3
  <1>2. ASSUME p.rules.limits # Absent, NEW t \in Tokens, NEW limit \in lookup_limit(p.rules.limits.per_transaction, t),
               limit < MaxU128
        PROVE  Moves(op, t) <= limit
    <2>1. limit \in Nat /\ MaxU128 \in Nat
      BY <1>2, LimitsAreU128, CountersAssumption
    <2>2. Moves(op, t) \in Nat
      <3>1. amount_of(op) # Unreadable
        BY SilentWhenAdmitted DEF invalid_amount
      <3> QED BY <3>1, MovesAreNat
    <2>3. CASE Moves(op, t) > 0
      <3>1. Capped(Moves(op, t)) <= limit
        BY <1>2, <2>3, AskedOfMoves
      <3> QED BY <1>2, <2>1, <2>2, <3>1 DEF Capped
    <2>4. CASE ~(Moves(op, t) > 0)
      BY <2>1, <2>2, <2>4
    <2> QED BY <2>3, <2>4
  <1> QED BY <1>1, <1>2 DEF Fits

\* What an admitted operation, of the ladder or of another chain, is asked of the
\* policy: its freeze, its clock and its rules.
LEMMA AdmittedUnder ==
  ASSUME NEW p \in Policies, NEW op, IsOp(op), NEW usage, NEW h \in Nat,
         judged(p, op, usage, h * 3600).decision \in {"allow", "requires_approval"}
  PROVE  /\ p.frozen => survives_a_freeze(op)
         /\ op.kind # "auth" =>
              /\ OpenAt(p.rules.time_restrictions, h)
              /\ op.kind \notin ChainKinds => Fits(op, p.rules)
  <1> DEFINE tr == p.rules.time_restrictions
             seconds == h * 3600
             decision == judged(p, op, usage, seconds)
  <1>0. seconds = h * 3600 /\ decision.decision \in {"allow", "requires_approval"}
    OBVIOUS
  <1> HIDE DEF seconds
  <1>1. tr = Absent \/ IsTimeRestrictions(tr)
    BY SchemaAssumption DEF IsPolicy, IsRules
  <1>2. Frozen.decision = "frozen" /\ \A rule : Deny(rule).decision = "deny"
    BY DEF Frozen, Deny
  <1>3. CASE op.kind \in ChainKinds
    <2>1. p # Absent
      BY SchemaAssumption
    <2>2. /\ p.frozen => decision = Frozen
          /\ ~p.frozen /\ check_time_restrictions(tr, seconds) # {} => decision = Deny("time_restrictions")
      BY <1>3, <2>1 DEF judged, chain_sign_decision
    <2>3. ~p.frozen /\ check_time_restrictions(tr, seconds) = {}
      BY <1>0, <1>2, <2>2
    <2> QED BY <1>0, <1>1, <1>3, <2>3, SilentIsOpen
  <1>4. CASE op.kind \notin ChainKinds /\ op.kind # "auth"
    <2>1. evaluate(p, op, usage, seconds).decision \in {"allow", "requires_approval"}
      BY <1>0, <1>4 DEF judged
    <2>2. ~p.frozen /\ check_time_restrictions(tr, seconds) = {}
      <3>1. op.kind # "auth"
        BY <1>4
      <3>2. ~p.frozen /\ check_time_restrictions(p.rules.time_restrictions, seconds) = {}
        <4> HIDE DEF tr, decision
        <4> QED BY SMTT(30), <2>1, <3>1, SilentWhenAdmitted
      <3> QED BY <3>2
    <2>3. Fits(op, p.rules)
      BY <1>4, <2>1, AdmittedFits
    <2> QED BY <1>0, <1>1, <2>2, <2>3, SilentIsOpen
  <1>5. CASE op.kind = "auth"
    <2> DEFINE said == evaluate_section(p, op, usage, seconds)
    <2>1. SUFFICES ASSUME p.frozen, ~survives_a_freeze(op) PROVE FALSE
      BY <1>5
    <2>2. said[1] = never_signed(p, op) /\ said[2] = freeze(p, op)
      BY DEF evaluate_section
    <2>3. said[2] = {Frozen} /\ \A d \in said[1] : d.decision = "deny"
      BY <1>2, <2>1, <2>2 DEF freeze, never_signed
    <2>4. decision = evaluate(p, op, usage, seconds)
      BY <1>5 DEF judged, ChainKinds
    <2>5. PICK m \in 1..15 : decision \in said[m] /\ \A i \in 1..15 : said[i] # {} => m <= i
      <3>1. said[2] # {} /\ 2 \in 1..15
        BY <2>3
      <3> HIDE DEF said, decision
      <3>2. \/ decision = Allow /\ \A i \in 1..15 : said[i] = {}
            \/ \E m \in 1..15 : decision \in said[m] /\ \A i \in 1..15 : said[i] # {} => m <= i
        BY <2>4, DecidedByARule DEF said
      <3> QED BY <3>1, <3>2
    <2>6. m \in {1, 2}
      <3>1. said[2] # {} /\ 2 \in 1..15
        BY <2>3
      <3> QED BY <2>5, <3>1
    <2> QED BY <1>0, <1>2, <2>3, <2>5, <2>6
  <1> QED BY <1>3, <1>4, <1>5

(***************************************************************************)
(* Types.                                                                  *)
(***************************************************************************)

\* A threshold that asks for no vote is the owner's own number.
Asked(r) ==
  r.decision # Allow =>
    LET threshold == r.decision.threshold IN
    threshold \in Int /\ (threshold < 1 => r.policy.approval.threshold = threshold)

\* Where a request stands; a request in flight that moves funds has an amount that reads.
Standing(r) ==
  /\ r.stage \in {"new", "admitted", "signed", "over"}
  /\ r.stage \in {"admitted", "signed"} /\ r.op.kind \in FundMovingKinds => amount_of(r.op) # Unreadable
  /\ r.stage = "admitted" => Asked(r)

Counters ==
  /\ hour \in FirstHour..LastHour
  /\ spent \in [Windows -> [Tokens -> 0..MaxU128]]
  /\ requests \in Nat /\ count \in Nat /\ count >= requests

TypeInv ==
  /\ KnownInv /\ Counters
  /\ \A f \in Flights : Standing(flight[f])

\* A step that changes one request leaves the others.
LEMMA OneChanges ==
  ASSUME KnownInv, NEW f \in Flights, NEW r, flight' = [flight EXCEPT ![f] = r]
  PROVE  DOMAIN flight' = Flights /\ flight'[f] = r /\ \A g \in Flights : g # f => flight'[g] = flight[g]
  BY DEF KnownInv

\* What the coordinator admits stands.
LEMMA SubmitStands ==
  ASSUME KnownInv, NEW f \in Flights, NEW op \in Asks[f], NEW document, Submit(f, op, document),
         flight'[f].stage = "admitted"
  PROVE  Standing(flight'[f])
  <1> DEFINE usage == from_current_usage(document)
             decision == judged(policy, op, usage, now_unix)
             admitted == [stage |-> "admitted", op |-> op, decision |-> decision, votes |-> 0, policy |-> policy, hour |-> hour]
             admits == intents_storage_deposit_amount(op) /\ decision.decision \in {"allow", "requires_approval"}
  <1>1. flight' = [flight EXCEPT ![f] = IF admits THEN admitted ELSE Over]
    BY DEF Submit
  <1> HIDE DEF admitted, admits
  <1>2. flight'[f] = IF admits THEN admitted ELSE Over
    BY <1>1, OneChanges
  <1>3. admits /\ flight'[f] = admitted
    BY <1>2 DEF Over
  <1>4. decision.decision \in {"allow", "requires_approval"}
    BY <1>3 DEF admits
  <1> HIDE DEF usage, decision
  <1>5. /\ admitted.stage = "admitted" /\ admitted.op = op /\ admitted.policy = policy
        /\ admitted.decision = decision
    BY DEF admitted
  <1>6. policy \in Policies /\ policy # Absent
    BY SchemaAssumption DEF KnownInv
  <1>7. op.kind \in FundMovingKinds => amount_of(op) # Unreadable
    <2> SUFFICES ASSUME op.kind \in FundMovingKinds PROVE amount_of(op) # Unreadable
      OBVIOUS
    <2>1. op.kind \notin ChainKinds /\ op.kind # "auth"
      BY DEF FundMovingKinds, ChainKinds, NearKinds, TokenKinds
    <2>2. evaluate(policy, op, usage, now_unix).decision \in {"allow", "requires_approval"}
      BY <1>4, <2>1 DEF judged, decision
    <2>3. invalid_amount(op) = {}
      BY <2>1, <2>2, SilentWhenAdmitted
    <2> QED BY <2>3 DEF invalid_amount
  <1>8. Asked(admitted)
    <2>1. \/ decision = Allow
          \/ /\ policy.approval # Absent /\ policy.approval.threshold # Absent
             /\ decision = RequiresApproval(required(policy.approval.threshold))
      BY <1>4, <1>6, AdmittingDecision DEF decision
    <2>2. CASE decision = Allow
      BY <1>5, <2>2 DEF Asked
    <2>3. CASE decision # Allow
      <3> DEFINE threshold == policy.approval.threshold
      <3>1. IsApproval(policy.approval)
        BY <1>6, <2>1, <2>3, SchemaAssumption DEF IsPolicy
      <3>2. threshold = Unreadable \/ threshold \in Int
        BY <2>1, <2>3, <3>1 DEF IsApproval
      <3>3. decision.threshold = required(threshold)
        BY <2>1, <2>3 DEF RequiresApproval
      <3>4. required(threshold) \in Int /\ (required(threshold) < 1 => required(threshold) = threshold)
        BY <3>2 DEF required
      <3> QED BY <1>5, <3>3, <3>4 DEF Asked
    <2> QED BY <2>2, <2>3
  <1> HIDE DEF admitted
  <1> QED BY <1>3, <1>5, <1>7, <1>8 DEF Standing

\* Every step keeps where the requests stand.
LEMMA StepStands ==
  ASSUME KnownInv, \A f \in Flights : Standing(flight[f]), [Next]_vars
  PROVE  \A f \in Flights : Standing(flight'[f])
  <1>0. Standing(Over) /\ Over.stage = "over"
    BY DEF Standing, Over
  <1>1. ASSUME NEW f \in Flights, NEW r, flight' = [flight EXCEPT ![f] = r], Standing(r)
        PROVE  \A g \in Flights : Standing(flight'[g])
    BY <1>1, OneChanges
  <1>2. ASSUME NEW f \in Flights, NEW op \in Asks[f], NEW document \in Documents, Submit(f, op, document)
        PROVE  \A g \in Flights : Standing(flight'[g])
    <2> DEFINE decision == judged(policy, op, from_current_usage(document), now_unix)
               admitted == [stage |-> "admitted", op |-> op, decision |-> decision, votes |-> 0, policy |-> policy, hour |-> hour]
    <2>0. admitted.stage = "admitted" /\ (flight' = [flight EXCEPT ![f] = admitted] \/ flight' = [flight EXCEPT ![f] = Over])
      BY <1>2 DEF Submit
    <2> HIDE DEF admitted
    <2>1. PICK r : flight' = [flight EXCEPT ![f] = r] /\ (r.stage = "admitted" \/ r = Over)
      BY <2>0
    <2>2. flight'[f] = r
      BY <2>1, OneChanges
    <2>3. Standing(r)
      BY <1>0, <1>2, <2>1, <2>2, SubmitStands
    <2> QED BY <1>1, <2>1, <2>3
  <1>3. ASSUME NEW f \in Flights, Vote(f)
        PROVE  \A g \in Flights : Standing(flight'[g])
    <2> DEFINE r == [flight[f] EXCEPT !.votes = @ + 1]
    <2>1. flight[f].stage = "admitted" /\ flight' = [flight EXCEPT ![f] = r]
      BY <1>3 DEF Vote, KnownInv
    <2>2. /\ r.stage = flight[f].stage /\ r.op = flight[f].op
          /\ r.decision = flight[f].decision /\ r.policy = flight[f].policy
      OBVIOUS
    <2> HIDE DEF r
    <2>3. Standing(flight[f])
      OBVIOUS
    <2>4. Standing(r)
      BY <2>1, <2>2, <2>3 DEF Standing, Asked
    <2> QED BY <1>1, <2>1, <2>4
  <1>4. ASSUME NEW f \in Flights, NEW carried \in Builds, Sign(f, carried)
        PROVE  \A g \in Flights : Standing(flight'[g])
    <2> DEFINE r == [stage |-> "signed", op |-> flight[f].op, carried |-> carried]
    <2>1. /\ flight[f].stage = "admitted"
          /\ flight' = [flight EXCEPT ![f] = r] \/ flight' = [flight EXCEPT ![f] = Over]
      BY <1>4 DEF Sign
    <2>2. r.stage = "signed" /\ r.op = flight[f].op
      OBVIOUS
    <2> HIDE DEF r
    <2>3. Standing(r)
      BY <2>1, <2>2 DEF Standing
    <2> QED BY <1>0, <1>1, <2>1, <2>3
  <1>5. ASSUME NEW f \in Flights, Record(f) \/ HandOver(f)
        PROVE  \A g \in Flights : Standing(flight'[g])
    <2>1. flight' = [flight EXCEPT ![f] = Over]
      BY <1>5 DEF Record, HandOver
    <2> QED BY <1>0, <1>1, <2>1
  <1>6. CASE (\E p \in Policies : StorePolicy(p)) \/ NextHour \/ UNCHANGED vars
    <2>1. flight' = flight
      BY <1>6 DEF StorePolicy, NextHour, vars
    <2> QED BY <2>1
  <1> QED BY <1>2, <1>3, <1>4, <1>5, <1>6 DEF Next

\* What is counted of a recorded request: every window goes up by what it moves,
\* capped, and the count by one at least.
LEMMA RecordCounts ==
  ASSUME TypeInv, NEW f \in Flights, Record(f)
  PROVE  /\ \A t \in Tokens : Moves(flight[f].op, t) \in Nat
         /\ spent' \in [Windows -> [Tokens -> 0..MaxU128]]
         /\ \A w \in Windows, t \in Tokens : spent'[w][t] = Capped(spent[w][t] + Moves(flight[f].op, t))
         /\ requests' = requests + 1
         /\ count' \in Nat /\ count' >= count + 1
  <1> DEFINE op == flight[f].op
             moved == {t \in Tokens : Moves(op, t) > 0}
  <1>1. /\ flight[f].stage = "signed" /\ op.kind \in FundMovingKinds
        /\ spent' = [w \in Windows |-> [t \in Tokens |-> Capped(spent[w][t] + Moves(op, t))]]
        /\ count' = count + (IF moved = {} THEN 1 ELSE Cardinality(moved))
        /\ requests' = requests + 1
    BY DEF Record
  <1>2. IsOp(op) /\ amount_of(op) # Unreadable
    BY <1>1, SchemaAssumption DEF TypeInv, KnownInv, KnownFlight, Standing
  <1> HIDE DEF op
  <1>3. \A t \in Tokens : Moves(op, t) \in Nat
    BY <1>2, MovesAreNat
  <1>4. \A w \in Windows, t \in Tokens : spent[w][t] \in 0..MaxU128
    BY DEF TypeInv, Counters
  <1>5. \A a \in Nat : Capped(a) \in 0..MaxU128
    BY CountersAssumption DEF Capped
  <1>6. \A w \in Windows, t \in Tokens : spent[w][t] + Moves(op, t) \in Nat
    BY <1>3, <1>4, CountersAssumption
  <1>7. moved # {} => Cardinality(moved) \in Nat /\ Cardinality(moved) >= 1
    <2>1. IsFiniteSet(moved)
      BY FS_Subset, CountersAssumption
    <2> HIDE DEF moved
    <2>2. Cardinality(moved) \in Nat /\ (Cardinality(moved) = 0 <=> moved = {})
      BY <2>1, FS_CardinalityType, FS_EmptySet
    <2> QED BY <2>2
  <1> HIDE DEF moved
  <1>8. count' \in Nat /\ count' >= count + 1
    BY <1>1, <1>7 DEF TypeInv, Counters
  <1>9. spent' \in [Windows -> [Tokens -> 0..MaxU128]]
    BY <1>1, <1>5, <1>6
  <1>10. \A w \in Windows, t \in Tokens : spent'[w][t] = Capped(spent[w][t] + Moves(op, t))
    BY <1>1
  <1> QED BY <1>1, <1>3, <1>8, <1>9, <1>10 DEF op

LEMMA StepCounts ==
  ASSUME TypeInv, [Next]_vars
  PROVE  Counters'
  <1>1. ASSUME NEW f \in Flights, Record(f) PROVE Counters'
    <2>1. hour' = hour
      BY <1>1 DEF Record
    <2> QED BY <1>1, <2>1, RecordCounts DEF TypeInv, Counters
  <1>2. CASE NextHour
    <2>1. /\ hour < LastHour /\ hour' = hour + 1 /\ requests' = 0 /\ count' = 0
          /\ spent' = [spent EXCEPT !["hourly"] = [t \in Tokens |-> 0],
                                    !["daily"] = IF (hour + 1) % 24 = 0 THEN [t \in Tokens |-> 0] ELSE @]
      BY <1>2 DEF NextHour
    <2>2. [t \in Tokens |-> 0] \in [Tokens -> 0..MaxU128]
      BY CountersAssumption
    <2>3. spent' \in [Windows -> [Tokens -> 0..MaxU128]]
      BY <2>1, <2>2 DEF TypeInv, Counters, Windows
    <2>4. hour' \in FirstHour..LastHour
      BY <2>1, CountersAssumption DEF TypeInv, Counters
    <2> QED BY <2>1, <2>3, <2>4 DEF Counters
  <1>3. CASE UNCHANGED <<hour, spent, requests, count>>
    BY <1>3 DEF TypeInv, Counters
  <1>4. /\ \A f \in Flights : \A op, document : Submit(f, op, document) => UNCHANGED <<hour, spent, requests, count>>
        /\ \A f \in Flights : Vote(f) \/ HandOver(f) => UNCHANGED <<hour, spent, requests, count>>
        /\ \A f \in Flights : \A carried : Sign(f, carried) => UNCHANGED <<hour, spent, requests, count>>
        /\ \A p : StorePolicy(p) => UNCHANGED <<hour, spent, requests, count>>
        /\ UNCHANGED vars => UNCHANGED <<hour, spent, requests, count>>
    BY DEF Submit, Vote, HandOver, Sign, StorePolicy, vars
  <1> QED BY <1>1, <1>2, <1>3, <1>4 DEF Next

LEMMA AlwaysTyped == Spec => []TypeInv
  <1>1. Init => Counters /\ \A f \in Flights : Standing(flight[f])
    <2> SUFFICES ASSUME Init PROVE Counters /\ \A f \in Flights : Standing(flight[f])
      OBVIOUS
    <2>1. Counters
      BY CountersAssumption DEF Init, Counters
    <2>2. Standing(New) /\ \A f \in Flights : flight[f] = New
      BY DEF Init, Standing, New
    <2> QED BY <2>1, <2>2
  <1>2. KnownInv /\ TypeInv /\ [Next]_vars /\ KnownInv' => TypeInv'
    <2> SUFFICES ASSUME TypeInv, [Next]_vars, KnownInv' PROVE TypeInv'
      OBVIOUS
    <2>1. \A f \in Flights : Standing(flight'[f])
      BY StepStands DEF TypeInv
    <2>2. Counters'
      BY StepCounts
    <2>3. (\A f \in Flights : Standing(flight[f]))'
      BY <2>1 DEF Standing, Asked
    <2> QED BY <2>2, <2>3 DEF TypeInv
  <1>3. Init /\ KnownInv => TypeInv
    BY <1>1 DEF TypeInv
  <1> QED BY <1>2, <1>3, AlwaysKnown, PTL DEF Spec

\* The types, for all policies and operations: the counters stay u128s, every request
\* is counted at least once, and the votes asked for are those of the threshold.
THEOREM TypeCorrect == Spec => []TypeOK
  <1>1. TypeInv => TypeOK
    <2> SUFFICES ASSUME TypeInv PROVE TypeOK
      OBVIOUS
    <2>1. policy \in Policies /\ \A f \in InFlight : flight[f].op \in Asks[f]
      BY DEF TypeInv, KnownInv, KnownFlight, InFlight
    <2>2. \A f \in Flights : Standing(flight[f])
      BY DEF TypeInv
    <2>3. \A f \in Flights : flight[f].stage \in {"new", "admitted", "signed", "over"}
      BY <2>2 DEF Standing
    <2>4. \A f \in Flights : flight[f].stage = "admitted" => Asked(flight[f])
      BY <2>2 DEF Standing
    <2>5. Counters
      BY DEF TypeInv
    <2> QED BY <2>1, <2>3, <2>4, <2>5 DEF TypeOK, Counters, Asked
  <1> QED BY <1>1, AlwaysTyped, PTL

\* Under any policies and for any operations, what is signed is within the policy in
\* force: its freeze, its hours and days, and its rules, read through every nesting.
THEOREM SigningIsUnderThePolicy == Spec => SignedUnderThePolicy
  <1>1. ASSUME TypeInv, Next, NEW f \in Flights, flight[f].stage = "admitted", flight'[f].stage = "signed"
        PROVE  /\ policy.frozen => survives_a_freeze(flight[f].op)
               /\ flight[f].op.kind # "auth" =>
                    /\ OpenAt(policy.rules.time_restrictions, hour)
                    /\ flight[f].op.kind \notin ChainKinds => Fits(flight[f].op, policy.rules)
    <2>1. /\ policy \in Policies /\ flight[f].op \in Asks[f]
          /\ judged(policy, flight[f].op, Absent, hour * 3600).decision \in {"allow", "requires_approval"}
      BY <1>1, SignStep DEF TypeInv, now_unix
    <2>2. hour \in Nat
      BY <1>1, CountersAssumption DEF TypeInv, Counters
    <2>3. IsOp(flight[f].op)
      BY <2>1, SchemaAssumption
    <2> QED BY <2>1, <2>2, <2>3, AdmittedUnder
  <1>2. TypeInv /\ [Next]_vars =>
          [\A f \in Flights : flight[f].stage = "admitted" /\ flight'[f].stage = "signed" =>
             /\ policy.frozen => survives_a_freeze(flight[f].op)
             /\ flight[f].op.kind # "auth" =>
                  /\ OpenAt(policy.rules.time_restrictions, hour)
                  /\ flight[f].op.kind \notin ChainKinds => Fits(flight[f].op, policy.rules)]_vars
    BY <1>1
  <1> QED BY AlwaysTyped, <1>2, PTL DEF Spec, SignedUnderThePolicy

(***************************************************************************)
(* What the coordinator reads.                                             *)
(***************************************************************************)

\* A counter the coordinator reads is what was counted, or it knows that it has not
\* read it, unless whole windows may be lost; the transaction count is what was
\* counted, unless that read may fail.
Reading(usage) ==
  /\ usage \in Usages
  /\ "window" \notin Failures =>
       \A w \in Windows, t \in Tokens : counter_unreadable(usage, w, t) \/ Spent(usage, w, t) = spent[w][t]
  /\ "count" \notin Failures => usage.all_unreadable \/ usage.hourly_tx_count = count

\* A document that names the windows holds what was counted of a token, or marks the
\* cell; what it leaves out is nothing, unless reads lose more.
Faithful(document) ==
  /\ \A w \in Windows :
       /\ DOMAIN parse_map(document, w) \subseteq Tokens
       /\ \A t \in DOMAIN parse_map(document, w) : parse_map(document, w)[t] \in {Unreadable, spent[w][t]}
       /\ "window" \notin Failures => \A t \in Tokens \ DOMAIN parse_map(document, w) : spent[w][t] = 0
  /\ \/ document.hourly_tx_count = count
     \/ document.hourly_tx_count = Absent /\ ("count" \notin Failures => count = 0)

LEMMA DocumentsAre ==
  ASSUME Counters, NEW document \in Documents
  PROVE  document = Absent \/ Faithful(document)
  <1>1. \A w \in Windows : DOMAIN spent[w] = Tokens /\ spent[w] # Absent
    <2> SUFFICES ASSUME NEW w \in Windows PROVE DOMAIN spent[w] = Tokens /\ spent[w] # Absent
      OBVIOUS
    <2>1. spent[w] \in [Tokens -> 0..MaxU128]
      BY DEF Counters
    <2>2. spent[w] \in [Tokens -> Nat \cup {Unreadable}]
      BY <2>1, CountersAssumption
    <2> QED BY <2>1, <2>2, CountersAssumption
  <1>2. /\ DOMAIN Stored = Windows \cup {"hourly_tx_count"} /\ Stored["hourly_tx_count"] = count
        /\ \A w \in Windows : Stored[w] = spent[w] /\ w # "hourly_tx_count"
    BY DEF Stored, Windows
  <1> HIDE DEF Stored
  <1>3. Faithful(Stored)
    <2>1. \A w \in Windows : parse_map(Stored, w) = spent[w]
      BY <1>1, <1>2 DEF parse_map
    <2>2. Stored.hourly_tx_count = count
      BY <1>2
    <2>3. \A w \in Windows : /\ DOMAIN parse_map(Stored, w) = Tokens
                            /\ \A t \in Tokens : parse_map(Stored, w)[t] = spent[w][t]
      BY <1>1, <2>1
    <2> QED BY <2>2, <2>3 DEF Faithful
  <1>4. ASSUME NEW w \in Windows, NEW t \in Tokens
        PROVE  Faithful([Stored EXCEPT ![w][t] = Unreadable])
    <2> DEFINE d == [Stored EXCEPT ![w][t] = Unreadable]
               cells == [spent[w] EXCEPT ![t] = Unreadable]
    <2>1. d = [Stored EXCEPT ![w] = cells]
      BY <1>2
    <2>2. d[w] = cells /\ \A x \in Windows : x # w => d[x] = spent[x]
      BY <1>2, <2>1
    <2>3. d["hourly_tx_count"] = count
      BY <1>2, <2>1
    <2>4. cells # Absent
      <3>1. spent[w] \in [Tokens -> 0..MaxU128] /\ 0..MaxU128 \subseteq Nat
        BY CountersAssumption DEF Counters
      <3>2. cells \in [Tokens -> Nat \cup {Unreadable}]
        BY <3>1
      <3> HIDE DEF cells
      <3> QED BY <3>2, CountersAssumption
    <2>5. DOMAIN cells = Tokens /\ \A u \in Tokens : cells[u] \in {Unreadable, spent[w][u]}
      BY <1>1
    <2> HIDE DEF d, cells
    <2>6. \A x \in Windows : DOMAIN parse_map(d, x) = Tokens /\ \A u \in Tokens : parse_map(d, x)[u] \in {Unreadable, spent[x][u]}
      <3> SUFFICES ASSUME NEW x \in Windows
                   PROVE  DOMAIN parse_map(d, x) = Tokens /\ \A u \in Tokens : parse_map(d, x)[u] \in {Unreadable, spent[x][u]}
        OBVIOUS
      <3>1. CASE x = w
        BY <2>2, <2>4, <2>5, <3>1 DEF parse_map
      <3>2. CASE x # w
        BY <1>1, <2>2, <3>2 DEF parse_map
      <3> QED BY <3>1, <3>2
    <2>7. Faithful(d)
      BY <2>3, <2>6 DEF Faithful
    <2> QED BY <2>7 DEF d
  <1>5. ASSUME NEW gap \in Gaps
        PROVE  Faithful([part \in DOMAIN Stored |-> IF part \in gap /\ MayLack(part) THEN Absent ELSE Stored[part]])
    <2> DEFINE d == [part \in DOMAIN Stored |-> IF part \in gap /\ MayLack(part) THEN Absent ELSE Stored[part]]
    <2>1. \A part \in DOMAIN Stored : d[part] = IF part \in gap /\ MayLack(part) THEN Absent ELSE Stored[part]
      OBVIOUS
    <2> HIDE DEF d
    <2>2. \/ d.hourly_tx_count = count
          \/ d.hourly_tx_count = Absent /\ ("count" \notin Failures => count = 0)
      BY <1>2, <2>1 DEF MayLack
    <2>3. ASSUME NEW w \in Windows
          PROVE  \/ DOMAIN parse_map(d, w) = {} /\ ("window" \notin Failures => \A t \in Tokens : spent[w][t] = 0)
                 \/ parse_map(d, w) = spent[w]
      <3>1. CASE w \in gap /\ MayLack(w)
        <4>1. d[w] = Absent
          BY <1>2, <2>1, <3>1
        <4>2. DOMAIN parse_map(d, w) = {}
          BY <4>1 DEF parse_map
        <4>3. "window" \notin Failures => \A t \in Tokens : spent[w][t] = 0
          BY <1>2, <3>1 DEF MayLack
        <4> QED BY <4>2, <4>3
      <3>2. CASE ~(w \in gap /\ MayLack(w))
        <4>1. d[w] = spent[w]
          BY <1>2, <2>1, <3>2
        <4> QED BY <1>1, <4>1 DEF parse_map
      <3> QED BY <3>1, <3>2
    <2>4. Faithful(d)
      <3>1. ASSUME NEW w \in Windows
            PROVE  /\ DOMAIN parse_map(d, w) \subseteq Tokens
                   /\ \A t \in DOMAIN parse_map(d, w) : parse_map(d, w)[t] \in {Unreadable, spent[w][t]}
                   /\ "window" \notin Failures => \A t \in Tokens \ DOMAIN parse_map(d, w) : spent[w][t] = 0
        BY <1>1, <2>3
      <3> QED BY <2>2, <3>1 DEF Faithful
    <2> QED BY <2>4 DEF d
  <1> QED BY <1>3, <1>4, <1>5 DEF Documents

LEMMA ReadingIs ==
  ASSUME Counters, NEW document \in Documents
  PROVE  Reading(from_current_usage(document))
  <1> DEFINE usage == from_current_usage(document)
             cells(w) == parse_map(document, w)
             unread(w) == {t \in DOMAIN cells(w) : cells(w)[t] = Unreadable}
  <1>0. \A w \in Windows, t \in Tokens : spent[w][t] \in 0..MaxU128
    BY DEF Counters
  <1>1. CASE document = Absent
    <2>1. usage = [all_unreadable |-> TRUE, unreadable |-> {}, spent |-> [w \in Windows |-> <<>>], hourly_tx_count |-> 0]
      BY <1>1 DEF from_current_usage
    <2>2. usage.all_unreadable
      BY <2>1
    <2>3. <<>> \in [{} -> 0..MaxU128]
      OBVIOUS
    <2>4. [w \in Windows |-> <<>>] \in [Windows -> UNION {[S -> 0..MaxU128] : S \in SUBSET Tokens}]
      BY <2>3
    <2>5. usage \in Usages
      BY SMTT(30), <2>1, <2>4 DEF Usages
    <2> QED BY <2>2, <2>5 DEF Reading, counter_unreadable
  <1>2. CASE document # Absent
    <2>1. Faithful(document)
      BY <1>2, DocumentsAre
    <2> DEFINE marked == UNION {{w} \X unread(w) : w \in Windows}
               read == [w \in Windows |-> [t \in DOMAIN cells(w) \ unread(w) |-> cells(w)[t]]]
               txs == IF document.hourly_tx_count = Absent THEN 0 ELSE document.hourly_tx_count
    <2>2. usage = [all_unreadable |-> FALSE, unreadable |-> marked, spent |-> read, hourly_tx_count |-> txs]
      BY <1>2 DEF from_current_usage
    <2>3. \A w \in Windows : DOMAIN cells(w) \subseteq Tokens /\ unread(w) \in SUBSET Tokens
      BY <2>1 DEF Faithful
    <2>4. marked \in SUBSET (Windows \X Tokens)
      BY <2>3
    <2>5. \A w \in Windows : read[w] \in [DOMAIN cells(w) \ unread(w) -> 0..MaxU128]
      <3>1. \A w \in Windows : \A t \in DOMAIN cells(w) \ unread(w) : cells(w)[t] \in 0..MaxU128
        BY <1>0, <2>1, <2>3 DEF Faithful
      <3> HIDE DEF cells, unread
      <3> QED BY <3>1
    <2>6. read \in [Windows -> UNION {[S -> 0..MaxU128] : S \in SUBSET Tokens}]
      <3>1. \A w \in Windows : read[w] \in UNION {[S -> 0..MaxU128] : S \in SUBSET Tokens}
        <4>1. SUFFICES ASSUME NEW w \in Windows PROVE \E S \in SUBSET Tokens : read[w] \in [S -> 0..MaxU128]
          OBVIOUS
        <4>2. DOMAIN cells(w) \ unread(w) \in SUBSET Tokens /\ read[w] \in [DOMAIN cells(w) \ unread(w) -> 0..MaxU128]
          BY <2>3, <2>5
        <4> HIDE DEF cells, unread, read
        <4> QED BY <4>2
      <3>2. DOMAIN read = Windows /\ read = [w \in Windows |-> read[w]]
        OBVIOUS
      <3> HIDE DEF read
      <3> QED BY <3>1, <3>2
    <2>7. txs \in Nat /\ ("count" \notin Failures => txs = count)
      BY <2>1, CountersAssumption DEF Faithful, Counters
    <2>8. ASSUME "window" \notin Failures, NEW w \in Windows, NEW t \in Tokens
          PROVE  <<w, t>> \in marked \/ (IF t \in DOMAIN read[w] THEN read[w][t] ELSE 0) = spent[w][t]
      <3>1. DOMAIN read[w] = DOMAIN cells(w) \ unread(w) /\ \A u \in DOMAIN read[w] : read[w][u] = cells(w)[u]
        <4> HIDE DEF cells, unread
        <4> QED OBVIOUS
      <3>2. CASE t \in unread(w)
        BY <3>2
      <3>3. CASE t \in DOMAIN cells(w) \ unread(w)
        <4>1. cells(w)[t] = spent[w][t]
          BY <2>1, <2>3, <3>3 DEF Faithful
        <4> HIDE DEF cells, unread, read, marked
        <4> QED BY <3>1, <3>3, <4>1
      <3>4. CASE t \notin DOMAIN cells(w)
        <4>1. spent[w][t] = 0
          BY <2>1, <2>8, <3>4 DEF Faithful
        <4> HIDE DEF cells, unread, read, marked
        <4> QED BY <3>1, <3>4, <4>1
      <3> QED BY <3>2, <3>3, <3>4
    <2> HIDE DEF marked, read, txs
    <2>9. usage \in Usages
      BY <2>2, <2>4, <2>6, <2>7 DEF Usages
    <2>10. usage.unreadable = marked /\ usage.spent = read /\ usage.hourly_tx_count = txs
      BY <2>2
    <2> HIDE DEF usage
    <2>11. Reading(usage)
      BY <2>7, <2>8, <2>9, <2>10 DEF Reading, counter_unreadable, Spent
    <2> QED BY <2>11 DEF usage
  <1> QED BY <1>1, <1>2

(***************************************************************************)
(* Requests under one policy.                                              *)
(***************************************************************************)

\* While the policy stands, a step admits a request beside those in flight, leaves
\* the counters and the operations in flight alone, counts one, or passes an hour.
Admits(f, op, document) ==
  /\ f \notin InFlight /\ InFlight \subseteq InFlight' /\ InFlight' \subseteq InFlight \cup {f}
  /\ \A g \in InFlight : flight'[g].op = flight[g].op
  /\ f \in InFlight' =>
       /\ flight'[f].op = op
       /\ judged(policy, op, from_current_usage(document), now_unix).decision \in {"allow", "requires_approval"}
  /\ UNCHANGED <<spent, requests, count>>
  /\ quiet' = (quiet /\ InFlight = {})
Carries ==
  /\ InFlight' \subseteq InFlight /\ \A f \in InFlight' : flight'[f].op = flight[f].op
  /\ UNCHANGED <<spent, requests, count, quiet>>
Counts(f) ==
  /\ Record(f) /\ f \in InFlight /\ InFlight' \subseteq InFlight \ {f}
  /\ \A g \in InFlight' : flight'[g].op = flight[g].op

LEMMA SteadySteps ==
  ASSUME KnownInv, [Next]_vars, policy' = policy
  PROVE  \/ \E f \in Flights : \E op \in Asks[f], document \in Documents : Admits(f, op, document)
         \/ Carries
         \/ \E f \in Flights : Counts(f)
         \/ NextHour /\ flight' = flight
  <1> DEFINE Flying(r) == r.stage \in {"admitted", "signed"}
  <1>0. /\ InFlight = {f \in Flights : Flying(flight[f])} /\ InFlight' = {f \in Flights : Flying(flight'[f])}
        /\ ~Flying(Over) /\ ~Flying(New)
    BY DEF InFlight, Over, New
  <1>1. ASSUME NEW f \in Flights, NEW op \in Asks[f], NEW document \in Documents, Submit(f, op, document)
        PROVE  Admits(f, op, document)
    <2> DEFINE decision == judged(policy, op, from_current_usage(document), now_unix)
               admits == intents_storage_deposit_amount(op) /\ decision.decision \in {"allow", "requires_approval"}
               admitted == [stage |-> "admitted", op |-> op, decision |-> decision, votes |-> 0, policy |-> policy, hour |-> hour]
    <2>1. /\ flight[f].stage = "new"
          /\ flight' = [flight EXCEPT ![f] = IF admits THEN admitted ELSE Over]
          /\ quiet' = (quiet /\ InFlight = {}) /\ UNCHANGED <<spent, requests, count>>
      BY <1>1 DEF Submit
    <2>2. admitted.op = op
      OBVIOUS
    <2> HIDE DEF admits, admitted
    <2>3. flight'[f] = (IF admits THEN admitted ELSE Over) /\ \A g \in Flights : g # f => flight'[g] = flight[g]
      BY <2>1, OneChanges
    <2>4. f \notin InFlight
      BY <1>0, <2>1
    <2> HIDE DEF Flying
    <2>5. /\ InFlight \subseteq InFlight' /\ InFlight' \subseteq InFlight \cup {f}
          /\ \A g \in InFlight : flight'[g].op = flight[g].op
      BY <1>0, <2>3, <2>4
    <2>6. f \in InFlight' => admits /\ flight'[f].op = op
      BY <1>0, <2>2, <2>3
    <2> QED BY <2>1, <2>4, <2>5, <2>6 DEF Admits, admits
  <1>2. ASSUME NEW f \in Flights, NEW r, flight' = [flight EXCEPT ![f] = r], f \in InFlight,
               Flying(r) => r.op = flight[f].op, UNCHANGED <<spent, requests, count, quiet>>
        PROVE  Carries
    <2>1. flight'[f] = r /\ \A g \in Flights : g # f => flight'[g] = flight[g]
      BY <1>2, OneChanges
    <2> HIDE DEF Flying
    <2> QED BY <1>0, <1>2, <2>1 DEF Carries
  <1>3. ASSUME NEW f \in Flights, Vote(f)
        PROVE  Carries
    <2> DEFINE r == [flight[f] EXCEPT !.votes = @ + 1]
    <2>1. /\ flight[f].stage = "admitted" /\ flight' = [flight EXCEPT ![f] = r]
          /\ UNCHANGED <<spent, requests, count, quiet>>
      BY <1>3 DEF Vote, KnownInv
    <2>2. r.op = flight[f].op /\ f \in InFlight
      BY <1>0, <2>1
    <2> HIDE DEF r
    <2> QED BY <1>2, <2>1, <2>2
  <1>4. ASSUME NEW f \in Flights, NEW carried \in Builds, Sign(f, carried)
        PROVE  Carries
    <2> DEFINE r == [stage |-> "signed", op |-> flight[f].op, carried |-> carried]
    <2>1. /\ flight[f].stage = "admitted"
          /\ flight' = [flight EXCEPT ![f] = r] \/ flight' = [flight EXCEPT ![f] = Over]
          /\ UNCHANGED <<spent, requests, count, quiet>>
      BY <1>4 DEF Sign
    <2>2. r.op = flight[f].op /\ f \in InFlight
      BY <1>0, <2>1
    <2> HIDE DEF r, Flying
    <2> QED BY <1>0, <1>2, <2>1, <2>2
  <1>5. ASSUME NEW f \in Flights, HandOver(f)
        PROVE  Carries
    <2>1. /\ flight[f].stage = "signed" /\ flight' = [flight EXCEPT ![f] = Over]
          /\ UNCHANGED <<spent, requests, count, quiet>>
      BY <1>5 DEF HandOver
    <2>2. f \in InFlight
      BY <1>0, <2>1
    <2> HIDE DEF Flying
    <2> QED BY <1>0, <1>2, <2>1, <2>2
  <1>6. ASSUME NEW f \in Flights, Record(f)
        PROVE  Counts(f)
    <2>1. flight[f].stage = "signed" /\ flight' = [flight EXCEPT ![f] = Over]
      BY <1>6 DEF Record
    <2>2. f \in InFlight
      BY <1>0, <2>1
    <2>3. flight'[f] = Over /\ \A g \in Flights : g # f => flight'[g] = flight[g]
      BY <2>1, OneChanges
    <2> HIDE DEF Flying
    <2>4. InFlight' \subseteq InFlight \ {f} /\ \A g \in InFlight' : flight'[g].op = flight[g].op
      BY <1>0, <2>3
    <2> QED BY <1>6, <2>2, <2>4 DEF Counts
  <1>7. CASE NextHour
    BY <1>7 DEF NextHour
  <1>8. CASE UNCHANGED vars
    <2>1. flight' = flight /\ UNCHANGED <<spent, requests, count, quiet>>
      BY <1>8 DEF vars
    <2> QED BY <1>0, <2>1 DEF Carries
  <1>9. ~\E p \in Policies : StorePolicy(p)
    BY DEF StorePolicy
  <1> QED BY <1>1, <1>3, <1>4, <1>5, <1>6, <1>7, <1>8, <1>9 DEF Next

(***************************************************************************)
(* Requests one at a time.                                                 *)
(***************************************************************************)

\* While it stays quiet, the policy stands and a request is admitted when none is in
\* flight.
AdmitsAlone(f, op, document) == Admits(f, op, document) /\ InFlight = {}

LEMMA QuietSteps ==
  ASSUME KnownInv, [Next]_vars, quiet'
  PROVE  /\ quiet /\ policy' = policy
         /\ \/ \E f \in Flights : \E op \in Asks[f], document \in Documents : AdmitsAlone(f, op, document)
            \/ Carries
            \/ \E f \in Flights : Counts(f)
            \/ NextHour /\ flight' = flight
  <1>1. policy' = policy
    BY DEF Next, vars, Submit, Vote, Sign, Record, HandOver, StorePolicy, NextHour
  <1>2. Carries \/ (\E f \in Flights : Counts(f)) \/ NextHour => quiet' = quiet
    BY DEF Carries, Counts, Record, NextHour
  <1>3. \A f, op, document : Admits(f, op, document) => quiet /\ AdmitsAlone(f, op, document)
    BY DEF Admits, AdmitsAlone
  <1> QED BY <1>1, <1>2, <1>3, SteadySteps

\* While it is quiet no two requests are in flight.
Alone == quiet => \A f, g \in InFlight : f = g

LEMMA StepAlone ==
  ASSUME KnownInv, Alone, [Next]_vars
  PROVE  Alone'
  <1> SUFFICES ASSUME quiet' PROVE \A f, g \in InFlight' : f = g
    BY DEF Alone
  <1>1. InFlight' \subseteq InFlight \/ \E f \in Flights : InFlight' \subseteq {f}
    <2>1. flight' = flight => InFlight' = InFlight
      BY DEF InFlight
    <2> QED BY <2>1, QuietSteps DEF AdmitsAlone, Admits, Carries, Counts
  <1>2. \A f, g \in InFlight : f = g
    BY QuietSteps DEF Alone
  <1> QED BY <1>1, <1>2

\* Nothing is in flight when the only request is counted.
LEMMA CountedIsLast ==
  ASSUME Alone, quiet, NEW f \in Flights, Counts(f)
  PROVE  InFlight' = {}
  BY DEF Alone, Counts

(***************************************************************************)
(* The rate.                                                               *)
(***************************************************************************)

\* The rate a policy caps is its lowest number.
LEMMA LowestCap ==
  ASSUME NEW p \in Policies, NEW max \in count_cap(p.rules)
  PROVE  max \in Int /\ Min(count_cap(p.rules)) \in Int /\ Min(count_cap(p.rules)) <= max
  <1> DEFINE a == p.rules.max_per_hour
             b == p.rules.limits.hourly_tx_count
             S == count_cap(p.rules)
  <1>1. /\ IsCount(a) /\ (p.rules.limits # Absent => IsCount(b))
        /\ S = ({a} \cup (IF p.rules.limits = Absent THEN {} ELSE {b})) \ {Absent}
    BY SchemaAssumption DEF IsPolicy, IsRules, IsLimits, count_cap
  <1> HIDE DEF a, b, S
  <1>2. S \in SUBSET Int /\ (S = {a} \/ S = {b} \/ S = {a, b})
    BY <1>1 DEF IsCount, S
  <1>3. \E m \in S : \A y \in S : m <= y
    <2>1. \A x, y \in Int : x <= y \/ y <= x
      OBVIOUS
    <2>2. \A x \in Int : x <= x
      OBVIOUS
    <2> QED BY <1>2, <2>1, <2>2
  <1>4. Min(S) \in S /\ \A y \in S : Min(S) <= y
    BY <1>3 DEF Min
  <1> QED BY <1>2, <1>4 DEF S

\* A request that moves funds is admitted under the rate, when no count goes missing.
LEMMA AdmittedUnderTheRate ==
  ASSUME "count" \notin Failures, policy \in Policies, count \in Nat, NEW max \in count_cap(policy.rules),
         NEW op, op.kind \in FundMovingKinds, NEW usage, Reading(usage),
         judged(policy, op, usage, now_unix).decision \in {"allow", "requires_approval"}
  PROVE  count < max
  <1>1. op.kind \notin ChainKinds /\ op.kind # "auth"
    BY DEF FundMovingKinds, ChainKinds, NearKinds, TokenKinds
  <1>2. evaluate(policy, op, usage, now_unix).decision \in {"allow", "requires_approval"}
    BY <1>1 DEF judged
  <1>3. hourly_tx_count(policy.rules, usage) = {}
    BY <1>1, <1>2, SilentWhenAdmitted
  <1>4. usage # Absent
    BY CountersAssumption DEF Reading
  <1>5. ~usage.all_unreadable /\ ~(usage.hourly_tx_count >= Min(count_cap(policy.rules)))
    BY <1>3, <1>4 DEF hourly_tx_count
  <1>6. usage.hourly_tx_count = count
    BY <1>5 DEF Reading
  <1>7. max \in Int /\ Min(count_cap(policy.rules)) \in Int /\ Min(count_cap(policy.rules)) <= max
    BY LowestCap
  <1> QED BY <1>5, <1>6, <1>7

\* There is room for the request in flight under every cap of the rate.
Rated ==
  quiet => \A max \in count_cap(policy.rules) :
    /\ requests > 0 => requests <= max
    /\ \A f \in InFlight : flight[f].op.kind \in FundMovingKinds => requests < max

LEMMA StepRated ==
  ASSUME "count" \notin Failures, TypeInv, Alone, Rated, [Next]_vars
  PROVE  Rated'
  <1> SUFFICES ASSUME quiet', NEW max \in count_cap(policy'.rules)
               PROVE  /\ requests' > 0 => requests' <= max
                      /\ \A f \in InFlight' : flight'[f].op.kind \in FundMovingKinds => requests' < max
    BY DEF Rated
  <1>0. KnownInv /\ Counters /\ policy \in Policies
    BY DEF TypeInv, KnownInv
  <1>1. /\ quiet /\ policy' = policy
        /\ \/ \E f \in Flights : \E op \in Asks[f], document \in Documents : AdmitsAlone(f, op, document)
           \/ Carries
           \/ \E f \in Flights : Counts(f)
           \/ NextHour /\ flight' = flight
    BY <1>0, QuietSteps
  <1>2. max \in count_cap(policy.rules) /\ max \in Int
    BY <1>0, <1>1, LowestCap
  <1>3. requests \in Nat /\ count \in Nat /\ requests <= count /\ (requests > 0 => requests <= max)
    BY <1>0, <1>1, <1>2 DEF Counters, Rated
  <1>4. \A f \in InFlight : flight[f].op.kind \in FundMovingKinds => requests < max
    BY <1>1, <1>2 DEF Rated
  <1>5. ASSUME NEW f \in Flights, NEW op \in Asks[f], NEW document \in Documents, AdmitsAlone(f, op, document)
        PROVE  /\ requests' > 0 => requests' <= max
               /\ \A g \in InFlight' : flight'[g].op.kind \in FundMovingKinds => requests' < max
    <2>1. requests' = requests /\ InFlight' \subseteq {f}
      BY <1>5 DEF AdmitsAlone, Admits
    <2>2. ASSUME f \in InFlight', flight'[f].op.kind \in FundMovingKinds
          PROVE  requests < max
      <3> DEFINE usage == from_current_usage(document)
      <3>1. op.kind \in FundMovingKinds /\ judged(policy, op, usage, now_unix).decision \in {"allow", "requires_approval"}
        BY <1>5, <2>2 DEF AdmitsAlone, Admits
      <3>2. Reading(usage)
        BY <1>0, ReadingIs
      <3> HIDE DEF usage
      <3>3. count < max
        BY <1>0, <1>2, <1>3, <3>1, <3>2, AdmittedUnderTheRate
      <3> QED BY <1>2, <1>3, <3>3
    <2> QED BY <1>3, <2>1, <2>2
  <1>6. CASE Carries
    BY <1>3, <1>4, <1>6 DEF Carries
  <1>7. ASSUME NEW f \in Flights, Counts(f)
        PROVE  /\ requests' > 0 => requests' <= max
               /\ \A g \in InFlight' : flight'[g].op.kind \in FundMovingKinds => requests' < max
    <2>1. f \in InFlight /\ flight[f].op.kind \in FundMovingKinds /\ requests' = requests + 1
      BY <1>7 DEF Counts, Record
    <2>2. requests < max
      BY <1>4, <2>1
    <2>3. InFlight' = {}
      BY <1>1, <1>7, CountedIsLast
    <2> QED BY <1>2, <1>3, <2>1, <2>2, <2>3
  <1>8. CASE NextHour /\ flight' = flight
    <2>1. requests' = 0 /\ InFlight' = InFlight
      BY <1>8 DEF NextHour, InFlight
    <2>2. \A f \in InFlight : flight[f].op.kind \in FundMovingKinds => 0 < max
      BY <1>2, <1>3, <1>4
    <2> QED BY <1>8, <2>1, <2>2
  <1> QED BY <1>1, <1>5, <1>6, <1>7, <1>8

LEMMA AlwaysAlone == Spec => []Alone
  <1>1. Init => Alone
    BY DEF Init, Alone, InFlight, New
  <1>2. KnownInv /\ Alone /\ [Next]_vars => Alone'
    BY StepAlone
  <1> QED BY <1>1, <1>2, AlwaysKnown, PTL DEF Spec

\* Requests made one at a time keep the hourly rate of any policy, when the reader
\* never leaves out the transaction count of what was counted: without that the rate
\* is passed, as the run on a count that goes missing shows.
THEOREM RateIsHeld ==
  ASSUME "count" \notin Failures
  PROVE  Spec => []RateHolds
  <1>1. Init => Rated
    <2> SUFFICES ASSUME Init PROVE Rated
      OBVIOUS
    <2>1. requests = 0 /\ InFlight = {}
      BY DEF Init, InFlight, New
    <2> QED BY <2>1 DEF Rated
  <1>2. TypeInv /\ Alone /\ Rated /\ [Next]_vars => Rated'
    BY StepRated
  <1>3. Rated => RateHolds
    BY DEF Rated, RateHolds
  <1> QED BY <1>1, <1>2, <1>3, AlwaysTyped, AlwaysAlone, PTL DEF Spec

(***************************************************************************)
(* The caps.                                                               *)
(***************************************************************************)

\* What saturates alike saturates alike when more is added, and an amount less
\* leaves room for what more leaves room for.
LEMMA CappedSums ==
  ASSUME NEW s \in Nat
  PROVE  /\ \A a, b \in Nat : Capped(a) = Capped(b) => Capped(s + a) = Capped(s + b)
         /\ \A a \in Nat : Capped(a) \in Nat /\ Capped(0 + a) <= Capped(s + a)
         /\ s <= MaxU128 => Capped(s + 0) = s
  BY CountersAssumption DEF Capped

\* There is room for what the request in flight moves under every cap of a window.
Room ==
  quiet /\ policy.rules.limits # Absent =>
    \A w \in Windows, t \in Tokens : \A limit \in lookup_limit(policy.rules.limits[w], t) :
      /\ spent[w][t] <= limit
      /\ \A f \in InFlight : flight[f].op.kind \in FundMovingKinds /\ Moves(flight[f].op, t) > 0 =>
           Capped(spent[w][t] + Moves(flight[f].op, t)) <= limit

\* What is admitted fits under the caps, beside what was counted.
LEMMA AdmittedHasRoom ==
  ASSUME "window" \notin Failures, TypeInv, NEW op, IsOp(op), NEW document \in Documents, op.kind \in FundMovingKinds,
         judged(policy, op, from_current_usage(document), now_unix).decision \in {"allow", "requires_approval"},
         policy.rules.limits # Absent, NEW w \in Windows, NEW t \in Tokens, Moves(op, t) > 0,
         NEW limit \in lookup_limit(policy.rules.limits[w], t)
  PROVE  Capped(spent[w][t] + Moves(op, t)) <= limit
  <1> DEFINE usage == from_current_usage(document)
             moves == Moves(op, t)
  <1>1. op.kind \notin ChainKinds /\ op.kind # "auth"
    BY DEF FundMovingKinds, ChainKinds, NearKinds, TokenKinds
  <1>2. evaluate(policy, op, usage, now_unix).decision \in {"allow", "requires_approval"}
    BY <1>1 DEF judged
  <1>3. Reading(usage)
    BY ReadingIs DEF TypeInv
  <1> HIDE DEF usage
  <1>4. usage # Absent
    BY <1>3, CountersAssumption DEF Reading
  <1>5. policy \in Policies
    BY DEF TypeInv, KnownInv
  <1>6. moves \in Nat /\ \E amount \in Nat :
          Capped(amount) = Capped(moves) /\ Velocity(policy.rules.limits, usage, t, amount) = {}
    BY <1>1, <1>2, <1>4, <1>5, AskedOfMoves
  <1>7. PICK amount \in Nat : Capped(amount) = Capped(moves) /\ Velocity(policy.rules.limits, usage, t, amount) = {}
    BY <1>6
  <1>8. ~counter_unreadable(usage, w, t) /\ ~(Capped(Spent(usage, w, t) + amount) > limit)
    BY <1>7, SilentWindow
  <1>9. Spent(usage, w, t) = spent[w][t] /\ spent[w][t] \in Nat
    BY <1>3, <1>8, CountersAssumption DEF Reading, TypeInv, Counters
  <1> DEFINE s == spent[w][t]
  <1>10. Capped(s + amount) = Capped(s + moves) /\ Capped(s + moves) \in Nat
    <2>1. s \in Nat /\ s + moves \in Nat
      BY <1>6, <1>9
    <2> HIDE DEF s, moves
    <2> QED BY ZenonT(60), <1>6, <1>7, <2>1, CappedSums
  <1>11. limit \in Nat
    BY <1>5, LimitsAreU128, CountersAssumption
  <1>12. ~(Capped(s + moves) > limit)
    BY <1>8, <1>9, <1>10
  <1> QED BY <1>10, <1>11, <1>12

LEMMA StepRoom ==
  ASSUME "window" \notin Failures, TypeInv, Alone, Room, [Next]_vars
  PROVE  Room'
  <1> SUFFICES ASSUME quiet', policy'.rules.limits # Absent, NEW w \in Windows, NEW t \in Tokens,
                      NEW limit \in lookup_limit(policy'.rules.limits[w], t)
               PROVE  /\ spent'[w][t] <= limit
                      /\ \A f \in InFlight' : flight'[f].op.kind \in FundMovingKinds /\ Moves(flight'[f].op, t) > 0 =>
                           Capped(spent'[w][t] + Moves(flight'[f].op, t)) <= limit
    BY DEF Room
  <1>0. KnownInv /\ Counters /\ policy \in Policies
    BY DEF TypeInv, KnownInv
  <1>1. /\ quiet /\ policy' = policy
        /\ \/ \E f \in Flights : \E op \in Asks[f], document \in Documents : AdmitsAlone(f, op, document)
           \/ Carries
           \/ \E f \in Flights : Counts(f)
           \/ NextHour /\ flight' = flight
    BY <1>0, QuietSteps
  <1>2. policy.rules.limits # Absent /\ limit \in lookup_limit(policy.rules.limits[w], t)
    BY <1>1
  <1>3. /\ spent[w][t] <= limit
        /\ \A f \in InFlight : flight[f].op.kind \in FundMovingKinds /\ Moves(flight[f].op, t) > 0 =>
             Capped(spent[w][t] + Moves(flight[f].op, t)) <= limit
    BY <1>1, <1>2 DEF Room
  <1>4. limit \in Nat /\ spent[w][t] \in 0..MaxU128 /\ spent[w][t] \in Nat
    <2>1. limit \in 0..MaxU128
      BY <1>0, <1>2, LimitsAreU128
    <2>2. spent[w][t] \in 0..MaxU128
      BY <1>0 DEF Counters
    <2> QED BY <2>1, <2>2, CountersAssumption
  <1>5. ASSUME NEW f \in Flights, NEW op \in Asks[f], NEW document \in Documents, AdmitsAlone(f, op, document)
        PROVE  /\ spent'[w][t] <= limit
               /\ \A g \in InFlight' : flight'[g].op.kind \in FundMovingKinds /\ Moves(flight'[g].op, t) > 0 =>
                    Capped(spent'[w][t] + Moves(flight'[g].op, t)) <= limit
    <2>1. spent' = spent /\ InFlight' \subseteq {f}
      BY <1>5 DEF AdmitsAlone, Admits
    <2>2. ASSUME f \in InFlight', flight'[f].op.kind \in FundMovingKinds, Moves(flight'[f].op, t) > 0
          PROVE  Capped(spent[w][t] + Moves(flight'[f].op, t)) <= limit
      <3>1. /\ flight'[f].op = op
            /\ judged(policy, op, from_current_usage(document), now_unix).decision \in {"allow", "requires_approval"}
        BY <1>5, <2>2 DEF AdmitsAlone, Admits
      <3>2. IsOp(op)
        BY SchemaAssumption
      <3> QED BY <1>2, <2>2, <3>1, <3>2, AdmittedHasRoom
    <2> QED BY <1>3, <2>1, <2>2
  <1>6. CASE Carries
    BY <1>3, <1>6 DEF Carries
  <1>7. ASSUME NEW f \in Flights, Counts(f)
        PROVE  spent'[w][t] <= limit /\ InFlight' = {}
    <2> DEFINE moves == Moves(flight[f].op, t)
               s == spent[w][t]
    <2>1. Record(f) /\ f \in InFlight /\ flight[f].op.kind \in FundMovingKinds
      BY <1>7 DEF Counts, Record
    <2>2. spent'[w][t] = Capped(s + moves) /\ moves \in Nat
      BY <2>1, RecordCounts
    <2>3. InFlight' = {}
      BY <1>1, <1>7, CountedIsLast
    <2>4. CASE moves > 0
      BY <1>3, <2>1, <2>2, <2>3, <2>4
    <2>5. CASE ~(moves > 0)
      <3>1. moves = 0
        BY <2>2, <2>5
      <3>2. s \in Nat /\ s <= MaxU128 /\ s <= limit
        BY <1>3, <1>4, CountersAssumption
      <3> HIDE DEF s, moves
      <3>3. Capped(s + moves) = s
        BY <3>1, <3>2, CappedSums
      <3> QED BY <2>2, <2>3, <3>2, <3>3
    <2> QED BY <2>4, <2>5
  <1>8. CASE NextHour /\ flight' = flight
    <2>1. InFlight' = InFlight
      BY <1>8 DEF InFlight
    <2>2. spent'[w][t] = 0 \/ spent'[w][t] = spent[w][t]
      BY <1>0, <1>8 DEF NextHour, Counters, Windows
    <2>3. ASSUME NEW f \in InFlight, flight[f].op.kind \in FundMovingKinds, Moves(flight[f].op, t) > 0
          PROVE  Capped(spent'[w][t] + Moves(flight[f].op, t)) <= limit
      <3> DEFINE moves == Moves(flight[f].op, t)
                 s == spent[w][t]
      <3>1. IsOp(flight[f].op) /\ amount_of(flight[f].op) # Unreadable
        BY <2>3, SchemaAssumption DEF TypeInv, KnownInv, KnownFlight, Standing, InFlight
      <3>2. moves \in Nat
        BY <3>1, MovesAreNat
      <3>3. Capped(s + moves) <= limit
        BY <1>3, <2>3
      <3>4. s \in Nat /\ s + moves \in Nat /\ 0 + moves \in Nat
        BY <1>4, <3>2
      <3> HIDE DEF s, moves
      <3>5. Capped(0 + moves) <= Capped(s + moves) /\ Capped(0 + moves) \in Nat /\ Capped(s + moves) \in Nat
        BY <3>2, <3>4, CappedSums
      <3>6. Capped(0 + moves) <= limit
        BY <1>4, <3>3, <3>5
      <3> QED BY <2>2, <3>3, <3>6 DEF s, moves
    <2> QED BY <1>3, <1>4, <1>8, <2>1, <2>2, <2>3
  <1> QED BY <1>1, <1>5, <1>6, <1>7, <1>8

\* Requests made one at a time under one policy keep every cap of it, for any policy
\* and operations and whatever queries fail and cells do not read, when the reader
\* leaves out no window in which something was counted ("The coordinator's reader
\* always writes all three", 1156-1157).
THEOREM CapsAreHeld ==
  ASSUME "window" \notin Failures
  PROVE  Spec => []CapsHold
  <1>1. Init /\ TypeInv => Room
    <2> SUFFICES ASSUME Init, TypeInv, policy.rules.limits # Absent, NEW w \in Windows, NEW t \in Tokens,
                        NEW limit \in lookup_limit(policy.rules.limits[w], t)
                 PROVE  spent[w][t] <= limit /\ InFlight = {}
      BY DEF Room
    <2>1. spent[w][t] = 0 /\ InFlight = {} /\ policy \in Policies
      BY DEF Init, InFlight, New
    <2>2. limit \in Nat
      BY <2>1, LimitsAreU128, CountersAssumption
    <2> QED BY <2>1, <2>2
  <1>2. TypeInv /\ Alone /\ Room /\ [Next]_vars => Room'
    BY StepRoom
  <1>3. Room => CapsHold
    BY DEF Room, CapsHold
  <1> QED BY <1>1, <1>2, <1>3, AlwaysTyped, AlwaysAlone, PTL DEF Spec

(***************************************************************************)
(* Requests that overlap.                                                  *)
(***************************************************************************)

\* Remembering what was in flight adds nothing to the steps.
LEMMA RememberingIsASpec == SpecRemembering => Spec
  <1>1. InitRemembering => Init
    BY DEF InitRemembering
  <1>2. [NextRemembering]_<<vars, memory>> => [Next]_vars
    BY DEF NextRemembering
  <1> QED BY <1>1, <1>2, PTL DEF SpecRemembering, Spec

\* What each request in flight moves of a token.
Moving(t) == [f \in Movers |-> Moves(flight[f].op, t)]

MovingFacts ==
  TypeInv /\ IsFiniteSet(InFlight) =>
    /\ IsFiniteSet(Movers) /\ Cardinality(Movers) \in Nat
    /\ \A t : /\ Moving(t) \in [Movers -> Nat]
             /\ Pending(t) = SumFunctionOnSet(Moving(t), Movers) /\ Pending(t) \in Nat

LEMMA MovingIs == MovingFacts
  <1> SUFFICES ASSUME TypeInv, IsFiniteSet(InFlight), NEW t
               PROVE  /\ IsFiniteSet(Movers) /\ Cardinality(Movers) \in Nat
                      /\ Moving(t) \in [Movers -> Nat]
                      /\ Pending(t) = SumFunctionOnSet(Moving(t), Movers) /\ Pending(t) \in Nat
    BY DEF MovingFacts
  <1>1. IsFiniteSet(Movers) /\ Cardinality(Movers) \in Nat
    <2>1. Movers \subseteq InFlight
      BY DEF Movers
    <2> QED BY <2>1, FS_Subset, FS_CardinalityType
  <1>2. ASSUME NEW f \in Movers
        PROVE  Moves(flight[f].op, t) \in Nat
    <2>1. IsOp(flight[f].op) /\ amount_of(flight[f].op) # Unreadable
      BY SchemaAssumption DEF TypeInv, KnownInv, KnownFlight, Standing, Movers, InFlight
    <2> QED BY <2>1, MovesAreNat
  <1>3. Moving(t) \in [Movers -> Nat]
    BY <1>2 DEF Moving
  <1>4. Pending(t) = SumFunctionOnSet(Moving(t), Movers)
    BY DEF Pending, Moving, SumFunction
  <1>5. SumFunctionOnSet(Moving(t), Movers) \in Nat
    BY <1>1, <1>3, SumWith
  <1> QED BY <1>1, <1>3, <1>4, <1>5

LEMMA MovingWillBe == MovingFacts'
  BY MovingIs, PTL

\* A request that is admitted is one mover more, or moves nothing.
LEMMA OneMoreMoves ==
  ASSUME TypeInv, TypeInv', IsFiniteSet(InFlight), NEW t,
         NEW f \in Flights, NEW op \in Asks[f], NEW document \in Documents, Admits(f, op, document)
  PROVE  /\ IsFiniteSet(InFlight')
         /\ IF f \in InFlight' /\ op.kind \in FundMovingKinds
            THEN Pending(t)' = Moves(op, t) + Pending(t) /\ Cardinality(Movers') = Cardinality(Movers) + 1
            ELSE Pending(t)' = Pending(t) /\ Movers' = Movers
  <1>1. /\ f \notin InFlight /\ InFlight \subseteq InFlight' /\ InFlight' \subseteq InFlight \cup {f}
        /\ \A g \in InFlight : flight'[g].op = flight[g].op
        /\ f \in InFlight' => flight'[f].op = op
    BY DEF Admits
  <1>2. IsFiniteSet(InFlight')
    <2>1. IsFiniteSet(InFlight \cup {f})
      BY FS_AddElement
    <2> QED BY <1>1, <2>1, FS_Subset
  <1>3. /\ Movers = {g \in InFlight : flight[g].op.kind \in FundMovingKinds}
        /\ Movers' = {g \in InFlight' : flight'[g].op.kind \in FundMovingKinds}
    BY DEF Movers
  <1>4. f \notin Movers /\ \A g \in Movers : flight'[g].op = flight[g].op
    BY <1>1, <1>3
  <1>5. CASE f \in InFlight' /\ op.kind \in FundMovingKinds
    <2>1. Movers' = Movers \cup {f} /\ flight'[f].op = op
      BY <1>1, <1>3, <1>5
    <2>2. IsFiniteSet(Movers) /\ Moving(t) \in [Movers -> Nat] /\ Pending(t) = SumFunctionOnSet(Moving(t), Movers)
      BY MovingIs DEF MovingFacts
    <2>3. IsFiniteSet(Movers') /\ Moving(t)' \in [Movers' -> Nat] /\ Pending(t)' = SumFunctionOnSet(Moving(t)', Movers')
      BY <1>2, MovingWillBe DEF MovingFacts
    <2>4. Moving(t)'[f] = Moves(op, t) /\ \A g \in Movers : Moving(t)'[g] = Moving(t)[g]
      BY <1>4, <2>1 DEF Moving
    <2>5. Movers' \ {f} = Movers /\ f \in Movers' /\ Movers \subseteq Movers'
      BY <1>4, <2>1
    <2> DEFINE w == Moving(t)
               v == Moving(t)'
               S == Movers
               R == Movers'
    <2> HIDE DEF w, v, S, R
    <2>6. SumFunctionOnSet(v, R) = v[f] + SumFunctionOnSet(v, S)
      BY <2>3, <2>5, SumWith DEF v, R, S
    <2>7. SumFunctionOnSet(v, S) = SumFunctionOnSet(w, S)
      BY <2>2, <2>3, <2>4, <2>5, SumsAgree DEF w, v, S, R
    <2>8. Pending(t)' = Moves(op, t) + Pending(t)
      BY <2>2, <2>3, <2>4, <2>6, <2>7 DEF w, v, S, R
    <2>9. Cardinality(Movers') = Cardinality(Movers) + 1
      BY <1>4, <2>1, <2>2, FS_AddElement
    <2> QED BY <1>2, <1>5, <2>8, <2>9
  <1>6. CASE ~(f \in InFlight' /\ op.kind \in FundMovingKinds)
    <2>1. Movers' = Movers
      BY <1>1, <1>3, <1>6
    <2>2. Moving(t)' = Moving(t)
      BY <1>4, <2>1 DEF Moving
    <2>3. Pending(t)' = SumFunction(Moving(t)') /\ Pending(t) = SumFunction(Moving(t))
      BY DEF Pending, Moving
    <2> QED BY <1>2, <1>6, <2>1, <2>2, <2>3
  <1> QED BY <1>5, <1>6

\* A step that admits none moves no more than what stays in flight.
LEMMA FewerMove ==
  ASSUME TypeInv, TypeInv', IsFiniteSet(InFlight), NEW t,
         InFlight' \subseteq InFlight, \A g \in InFlight' : flight'[g].op = flight[g].op
  PROVE  /\ IsFiniteSet(InFlight')
         /\ Movers' \subseteq Movers /\ Cardinality(Movers') <= Cardinality(Movers)
         /\ Pending(t)' <= Pending(t)
         /\ \A f \in Movers : f \notin InFlight' =>
              Cardinality(Movers') + 1 <= Cardinality(Movers) /\ Pending(t)' + Moves(flight[f].op, t) <= Pending(t)
  <1>1. IsFiniteSet(InFlight')
    BY FS_Subset
  <1>2. /\ Movers = {g \in InFlight : flight[g].op.kind \in FundMovingKinds}
        /\ Movers' = {g \in InFlight' : flight'[g].op.kind \in FundMovingKinds}
    BY DEF Movers
  <1>3. Movers' \subseteq Movers /\ \A g \in Movers' : flight'[g].op = flight[g].op
    BY <1>2
  <1>4. /\ IsFiniteSet(Movers) /\ Moving(t) \in [Movers -> Nat] /\ Cardinality(Movers) \in Nat
        /\ Pending(t) = SumFunctionOnSet(Moving(t), Movers) /\ Pending(t) \in Nat
    BY MovingIs DEF MovingFacts
  <1>5. /\ IsFiniteSet(Movers') /\ Moving(t)' \in [Movers' -> Nat] /\ Cardinality(Movers') \in Nat
        /\ Pending(t)' = SumFunctionOnSet(Moving(t)', Movers') /\ Pending(t)' \in Nat
    BY <1>1, MovingWillBe DEF MovingFacts
  <1>6. \A g \in Movers' : Moving(t)'[g] = Moving(t)[g]
    BY <1>3 DEF Moving
  <1> DEFINE w == Moving(t)
             v == Moving(t)'
             S == Movers
             R == Movers'
  <1> HIDE DEF w, v, S, R
  <1>7. SumFunctionOnSet(v, R) = SumFunctionOnSet(w, R)
    BY <1>3, <1>4, <1>5, <1>6, SumsAgree DEF w, v, S, R
  <1>8. SumFunctionOnSet(w, R) <= SumFunctionOnSet(w, S)
    BY <1>3, <1>4, SumOfFewer DEF w, S, R
  <1>9. Cardinality(Movers') <= Cardinality(Movers)
    BY <1>3, <1>4, FS_Subset
  <1>10. ASSUME NEW f \in Movers, f \notin InFlight'
         PROVE  Cardinality(Movers') + 1 <= Cardinality(Movers) /\ Pending(t)' + Moves(flight[f].op, t) <= Pending(t)
    <2> DEFINE U == Movers \ {f}
    <2>1. Movers' \subseteq U /\ U \subseteq Movers
      BY <1>2, <1>3, <1>10
    <2>2. IsFiniteSet(U) /\ Cardinality(U) = Cardinality(Movers) - 1
      BY <1>4, <1>10, FS_RemoveElement
    <2>3. Cardinality(Movers') <= Cardinality(U)
      BY <2>1, <2>2, FS_Subset
    <2>4. Moving(t)[f] = Moves(flight[f].op, t) /\ Moving(t)[f] \in Nat
      BY <1>4, <1>10 DEF Moving
    <2>5. /\ SumFunctionOnSet(w, S) = w[f] + SumFunctionOnSet(w, U)
          /\ SumFunctionOnSet(w, U) \in Nat
      BY <1>4, <1>10, <2>1, SumWith DEF w, S
    <2>6. SumFunctionOnSet(w, R) <= SumFunctionOnSet(w, U)
      <3> DEFINE u == [g \in U |-> w[g]]
      <3> HIDE DEF U
      <3>1. u \in [U -> Nat]
        BY <1>4, <2>1 DEF w, S
      <3>2. SumFunctionOnSet(u, R) <= SumFunctionOnSet(u, U)
        BY <2>1, <2>2, <3>1, SumOfFewer DEF R
      <3>3. \A g \in U : u[g] = w[g]
        OBVIOUS
      <3> HIDE DEF u
      <3>4. R \in SUBSET S /\ R \subseteq U /\ U \in SUBSET S /\ w \in [S -> Nat] /\ IsFiniteSet(S)
        BY <1>4, <2>1 DEF w, S, R
      <3>5. \A T \in SUBSET S : T \subseteq U => SumFunctionOnSet(u, T) = SumFunctionOnSet(w, T)
        BY <2>2, <3>1, <3>3, <3>4, SumsAgree
      <3> QED BY <3>2, <3>4, <3>5
    <2> HIDE DEF U
    <2>7. Pending(t)' + Moves(flight[f].op, t) <= Pending(t)
      BY <1>4, <1>5, <1>7, <2>4, <2>5, <2>6 DEF w, v, S, R
    <2> QED BY <1>4, <1>5, <2>2, <2>3, <2>7
  <1>11. Pending(t)' <= Pending(t)
    BY <1>4, <1>5, <1>7, <1>8 DEF w, v, S, R
  <1> QED BY <1>1, <1>3, <1>9, <1>10, <1>11

\* What is remembered of the batches is how much, and the requests in flight are few.
Remembered ==
  /\ IsFiniteSet(InFlight)
  /\ batch \in [Tokens -> Nat] /\ crowd \in Nat

LEMMA LargerIs ==
  ASSUME NEW a \in Nat, NEW b \in Nat
  PROVE  Larger(a, b) \in Nat /\ a <= Larger(a, b) /\ b <= Larger(a, b)
  BY DEF Larger

\* While the policy stands, what is remembered never shrinks, and holds what was in
\* flight beside whatever is admitted.
LEMMA StepRemembered ==
  ASSUME TypeInv, TypeInv', Remembered, [NextRemembering]_<<vars, memory>>
  PROVE  /\ Remembered'
         /\ steady' =>
              /\ steady /\ policy' = policy
              /\ (\A t \in Tokens : batch[t] <= batch'[t]) /\ crowd <= crowd'
              /\ ~(InFlight' \subseteq InFlight) =>
                   (\A t \in Tokens : Pending(t) <= batch'[t]) /\ Cardinality(Movers) <= crowd'
  <1>1. /\ Cardinality(Movers) \in Nat /\ \A t : Pending(t) \in Nat
        /\ batch \in [Tokens -> Nat] /\ crowd \in Nat /\ IsFiniteSet(InFlight)
    BY MovingIs DEF MovingFacts, Remembered
  <1>2. IsFiniteSet(InFlight')
    <2>1. InFlight' \subseteq InFlight \/ \E f \in Flights : InFlight' \subseteq InFlight \cup {f}
      <3>1. flight' = flight => InFlight' = InFlight
        BY DEF InFlight
      <3>2. policy' # policy => flight' = flight
        BY DEF NextRemembering, Next, vars, Submit, Vote, Sign, Record, HandOver, StorePolicy, NextHour
      <3>3. [Next]_vars /\ KnownInv
        BY DEF NextRemembering, TypeInv
      <3>4. policy' = policy => InFlight' \subseteq InFlight \/ InFlight' = InFlight \/ \E f \in Flights : InFlight' \subseteq InFlight \cup {f}
        BY <3>1, <3>3, SteadySteps DEF Admits, Carries, Counts
      <3> QED BY <3>1, <3>2, <3>4
    <2>2. \A f : IsFiniteSet(InFlight \cup {f})
      BY <1>1, FS_AddElement
    <2> QED BY <1>1, <2>1, <2>2, FS_Subset
  <1>3. CASE Remember
    <2> DEFINE Most(past, present) ==
                 IF ~steady' THEN 0 ELSE IF InFlight' \subseteq InFlight THEN past ELSE Larger(past, present)
    <2>1. /\ steady' = (steady /\ policy' = policy)
          /\ batch' = [t \in Tokens |-> Most(batch[t], Pending(t))]
          /\ crowd' = Most(crowd, Cardinality(Movers))
      BY <1>3 DEF Remember
    <2>2. \A a, b \in Nat :
            /\ Most(a, b) \in Nat
            /\ steady' => a <= Most(a, b) /\ (~(InFlight' \subseteq InFlight) => b <= Most(a, b))
      BY LargerIs
    <2> HIDE DEF Most
    <2>3. batch' \in [Tokens -> Nat] /\ \A t \in Tokens : batch'[t] = Most(batch[t], Pending(t))
      BY <1>1, <2>1, <2>2
    <2>4. crowd' \in Nat
      BY <1>1, <2>1, <2>2
    <2>5. Remembered'
      BY <1>2, <2>3, <2>4 DEF Remembered
    <2>6. ASSUME steady'
          PROVE  /\ (\A t \in Tokens : batch[t] <= batch'[t]) /\ crowd <= crowd'
                 /\ ~(InFlight' \subseteq InFlight) =>
                      (\A t \in Tokens : Pending(t) <= batch'[t]) /\ Cardinality(Movers) <= crowd'
      <3>1. \A t \in Tokens : /\ batch[t] <= batch'[t]
                              /\ ~(InFlight' \subseteq InFlight) => Pending(t) <= batch'[t]
        BY <1>1, <2>2, <2>3, <2>6
      <3>2. crowd <= crowd' /\ (~(InFlight' \subseteq InFlight) => Cardinality(Movers) <= crowd')
        BY <1>1, <2>1, <2>2, <2>6
      <3> QED BY <3>1, <3>2
    <2> QED BY <2>1, <2>5, <2>6
  <1>4. CASE UNCHANGED <<vars, memory>>
    <2>1. flight' = flight /\ policy' = policy /\ steady' = steady /\ batch' = batch /\ crowd' = crowd
      BY <1>4 DEF vars, memory
    <2>2. InFlight' = InFlight
      BY <2>1 DEF InFlight
    <2>3. \A t \in Tokens : batch[t] <= batch[t]
      BY <1>1
    <2> QED BY <1>1, <2>1, <2>2, <2>3 DEF Remembered
  <1> QED BY <1>3, <1>4 DEF NextRemembering

\* What was counted in a window and what is in flight pass a cap by a batch at most.
RoomBesideABatch ==
  steady /\ policy.rules.limits # Absent =>
    \A w \in Windows, t \in Tokens : \A limit \in lookup_limit(policy.rules.limits[w], t) :
      limit < MaxU128 => spent[w][t] + Pending(t) <= limit + batch[t]

LEMMA StepRoomBeside ==
  ASSUME "window" \notin Failures,
         TypeInv, TypeInv', Remembered, RoomBesideABatch, [NextRemembering]_<<vars, memory>>
  PROVE  RoomBesideABatch'
  <1> SUFFICES ASSUME steady', policy'.rules.limits # Absent, NEW w \in Windows, NEW t \in Tokens,
                      NEW limit \in lookup_limit(policy'.rules.limits[w], t), limit < MaxU128
               PROVE  spent'[w][t] + Pending(t)' <= limit + batch'[t]
    BY DEF RoomBesideABatch
  <1>0. /\ KnownInv /\ Counters /\ Counters' /\ [Next]_vars /\ IsFiniteSet(InFlight)
    BY DEF TypeInv, NextRemembering, Remembered
  <1>1. steady /\ policy' = policy /\ policy \in Policies
    BY <1>0, StepRemembered DEF KnownInv
  <1>2. policy.rules.limits # Absent /\ limit \in lookup_limit(policy.rules.limits[w], t)
    BY <1>1
  <1> DEFINE s == spent[w][t]
             s1 == spent'[w][t]
             P == Pending(t)
             P1 == Pending(t)'
             b == batch[t]
             b1 == batch'[t]
  <1>3. s + P <= limit + b
    BY <1>1, <1>2 DEF RoomBesideABatch
  <1>4. limit \in Nat /\ s \in Nat /\ s1 \in Nat /\ MaxU128 \in Nat
    <2>1. limit \in 0..MaxU128
      BY <1>1, <1>2, LimitsAreU128
    <2>2. s \in 0..MaxU128 /\ s1 \in 0..MaxU128
      BY <1>0 DEF Counters
    <2> HIDE DEF s, s1
    <2> QED BY <2>1, <2>2, CountersAssumption
  <1>5. P \in Nat /\ P1 \in Nat /\ b \in Nat /\ b1 \in Nat /\ b <= b1
    <2>1. Remembered' /\ b <= b1
      BY StepRemembered
    <2>2. P \in Nat /\ P1 \in Nat
      BY <2>1, MovingIs, MovingWillBe DEF MovingFacts, Remembered
    <2> QED BY <2>1, <2>2 DEF Remembered
  <1>6. ASSUME NEW f \in Flights, NEW op \in Asks[f], NEW document \in Documents, Admits(f, op, document)
        PROVE  s1 + P1 <= limit + b1
    <2>1. s1 = s
      BY <1>6 DEF Admits
    <2>2. IF f \in InFlight' /\ op.kind \in FundMovingKinds
          THEN P1 = Moves(op, t) + P
          ELSE P1 = P
      BY <1>0, <1>6, OneMoreMoves
    <2>3. CASE f \in InFlight' /\ op.kind \in FundMovingKinds /\ Moves(op, t) > 0
      <3> DEFINE a == Moves(op, t)
      <3>1. judged(policy, op, from_current_usage(document), now_unix).decision \in {"allow", "requires_approval"}
        BY <1>6, <2>3 DEF Admits
      <3>2. IsOp(op)
        BY SchemaAssumption
      <3>3. Capped(s + a) <= limit
        BY <1>2, <2>3, <3>1, <3>2, AdmittedHasRoom
      <3>4. ~(InFlight' \subseteq InFlight)
        BY <1>6, <2>3 DEF Admits
      <3>5. P <= b1
        BY <3>4, StepRemembered
      <3>6. a \in Nat
        <4>1. KnownFlight(f, flight'[f]) /\ Standing(flight'[f]) /\ flight'[f].stage \in {"admitted", "signed"}
          BY <2>3 DEF TypeInv, KnownInv, InFlight
        <4>2. flight'[f].op = op
          BY <1>6, <2>3 DEF Admits
        <4>3. amount_of(op) # Unreadable
          BY <2>3, <4>1, <4>2 DEF Standing
        <4> QED BY <3>2, <4>3, MovesAreNat
      <3>7. P1 = a + P
        BY <2>2, <2>3
      <3> HIDE DEF s, s1, P, P1, b, b1, a
      <3>8. s + a <= limit
        <4>1. s + a \in Nat
          BY <1>4, <3>6
        <4> QED BY <1>4, <3>3, <4>1, CountersAssumption DEF Capped
      <3> QED BY <1>4, <1>5, <2>1, <3>5, <3>6, <3>7, <3>8
    <2>4. CASE ~(f \in InFlight' /\ op.kind \in FundMovingKinds /\ Moves(op, t) > 0)
      <3>1. P1 = P
        <4>1. CASE ~(f \in InFlight' /\ op.kind \in FundMovingKinds)
          BY <2>2, <4>1
        <4>2. CASE f \in InFlight' /\ op.kind \in FundMovingKinds /\ ~(Moves(op, t) > 0)
          <5> DEFINE a == Moves(op, t)
          <5>1. KnownFlight(f, flight'[f]) /\ Standing(flight'[f]) /\ flight'[f].stage \in {"admitted", "signed"}
            BY <4>2 DEF TypeInv, KnownInv, InFlight
          <5>2. flight'[f].op = op /\ IsOp(op)
            BY <1>6, <4>2, SchemaAssumption DEF Admits
          <5>3. amount_of(op) # Unreadable
            BY <4>2, <5>1, <5>2 DEF Standing
          <5>4. a \in Nat
            BY <5>2, <5>3, MovesAreNat
          <5>5. P1 = a + P /\ ~(a > 0)
            BY <2>2, <4>2
          <5> HIDE DEF a, P, P1
          <5> QED BY <1>5, <5>4, <5>5
        <4> QED BY <2>4, <4>1, <4>2
      <3> HIDE DEF s, s1, P, P1, b, b1
      <3> QED BY <1>3, <1>4, <1>5, <2>1, <3>1
    <2> QED BY <2>3, <2>4
  <1>7. CASE Carries
    <2>1. s1 = s
      BY <1>7 DEF Carries
    <2>2. P1 <= P
      BY <1>0, <1>7, FewerMove DEF Carries
    <2>3. s1 + P1 <= limit + b1
      <3> HIDE DEF s, s1, P, P1, b, b1
      <3> QED BY <1>3, <1>4, <1>5, <2>1, <2>2
    <2> QED BY <2>3
  <1>8. ASSUME NEW f \in Flights, Counts(f)
        PROVE  s1 + P1 <= limit + b1
    <2> DEFINE a == Moves(flight[f].op, t)
    <2>1. Record(f) /\ f \in InFlight /\ flight[f].op.kind \in FundMovingKinds
      BY <1>8 DEF Counts, Record
    <2>2. a \in Nat /\ s1 = Capped(s + a)
      BY <2>1, RecordCounts
    <2>3. f \in Movers /\ f \notin InFlight' /\ InFlight' \subseteq InFlight
      BY <1>8, <2>1 DEF Counts, Movers
    <2>4. \A g \in InFlight' : flight'[g].op = flight[g].op
      BY <1>8 DEF Counts
    <2>5. P1 + a <= P
      BY <1>0, <2>3, <2>4, FewerMove
    <2> HIDE DEF s, s1, P, P1, b, b1, a
    <2>6. s1 <= s + a
      <3>1. s + a \in Nat
        BY <1>4, <2>2
      <3> QED BY <1>4, <2>2, <3>1 DEF Capped
    <2> QED BY <1>3, <1>4, <1>5, <2>2, <2>5, <2>6
  <1>9. CASE NextHour /\ flight' = flight
    <2>1. InFlight' = InFlight
      BY <1>9 DEF InFlight
    <2>2. P1 <= P
      BY <1>0, <1>9, <2>1, FewerMove
    <2>3. s1 = 0 \/ s1 = s
      BY <1>0, <1>9 DEF NextHour, Counters, Windows
    <2>4. s1 + P1 <= limit + b1
      <3> HIDE DEF s, s1, P, P1, b, b1
      <3> QED BY <1>3, <1>4, <1>5, <2>2, <2>3
    <2> QED BY <2>4
  <1> QED BY <1>0, <1>1, <1>6, <1>7, <1>8, <1>9, SteadySteps

LEMMA AlwaysRemembered == SpecRemembering => [](TypeInv /\ Remembered)
  <1>1. InitRemembering => Remembered
    <2> SUFFICES ASSUME InitRemembering PROVE Remembered
      OBVIOUS
    <2>1. InFlight = {} /\ batch = [t \in Tokens |-> 0] /\ crowd = 0
      BY DEF InitRemembering, Init, InFlight, New
    <2> QED BY <2>1, FS_EmptySet DEF Remembered
  <1>2. TypeInv /\ TypeInv' /\ Remembered /\ [NextRemembering]_<<vars, memory>> => Remembered'
    BY StepRemembered
  <1> QED BY <1>1, <1>2, RememberingIsASpec, AlwaysTyped, PTL DEF SpecRemembering

\* Nothing is in flight at first.
LEMMA NothingPendsAtFirst == InitRemembering => Movers = {} /\ \A t : Pending(t) = 0
  <1> SUFFICES ASSUME InitRemembering, NEW t PROVE Movers = {} /\ Pending(t) = 0
    OBVIOUS
  <1>1. Movers = {}
    BY DEF InitRemembering, Init, Movers, InFlight, New
  <1>2. Pending(t) = SumFunctionOnSet([f \in {} |-> Moves(flight[f].op, t)], {})
    BY <1>1 DEF Pending, SumFunction
  <1>3. [f \in {} |-> Moves(flight[f].op, t)] \in [{} -> Nat] /\ IsFiniteSet({})
    BY FS_EmptySet
  <1>4. \A w \in [{} -> Nat] : SumFunctionOnSet(w, {}) = 0
    BY <1>3, SumWith
  <1> QED BY <1>1, <1>2, <1>3, <1>4

\* For any requests, however many overlap, and whatever queries fail and cells do not
\* read, a cap is passed by no more than what was in flight beside one that was
\* admitted, when the reader leaves out no window in which something was counted.
THEOREM BatchesBoundTheCaps ==
  ASSUME "window" \notin Failures
  PROVE  SpecRemembering => []OverCapByABatch
  <1>1. InitRemembering /\ TypeInv => RoomBesideABatch
    <2> SUFFICES ASSUME InitRemembering, TypeInv, policy.rules.limits # Absent, NEW w \in Windows, NEW t \in Tokens,
                        NEW limit \in lookup_limit(policy.rules.limits[w], t)
                 PROVE  spent[w][t] + Pending(t) <= limit + batch[t]
      BY DEF RoomBesideABatch
    <2>1. spent[w][t] = 0 /\ batch[t] = 0 /\ Pending(t) = 0 /\ policy \in Policies
      BY NothingPendsAtFirst DEF InitRemembering, Init
    <2>2. limit \in Nat
      BY <2>1, LimitsAreU128, CountersAssumption
    <2> QED BY <2>1, <2>2
  <1>2. TypeInv /\ TypeInv' /\ Remembered /\ RoomBesideABatch /\ [NextRemembering]_<<vars, memory>> => RoomBesideABatch'
    BY StepRoomBeside
  <1>3. TypeInv /\ Remembered /\ RoomBesideABatch => OverCapByABatch
    <2> SUFFICES ASSUME TypeInv, Remembered, RoomBesideABatch, steady, policy.rules.limits # Absent,
                        NEW w \in Windows, NEW t \in Tokens, NEW limit \in lookup_limit(policy.rules.limits[w], t)
                 PROVE  spent[w][t] <= limit + batch[t]
      BY DEF OverCapByABatch
    <2> DEFINE s == spent[w][t]
               P == Pending(t)
               b == batch[t]
    <2>1. limit \in 0..MaxU128 /\ s \in 0..MaxU128 /\ MaxU128 \in Nat
      BY LimitsAreU128, CountersAssumption DEF TypeInv, KnownInv, Counters
    <2>2. b \in Nat /\ P \in Nat
      BY MovingIs DEF MovingFacts, Remembered
    <2>3. limit < MaxU128 => s + P <= limit + b
      BY DEF RoomBesideABatch
    <2> HIDE DEF s, P, b
    <2>4. s <= limit + b
      BY <2>1, <2>2, <2>3
    <2> QED BY <2>4 DEF s, b
  <1> QED BY <1>1, <1>2, <1>3, AlwaysRemembered, PTL DEF SpecRemembering

\* The requests that were counted and those in flight pass the rate by a batch at most.
RateBesideABatch ==
  steady /\ (requests > 0 \/ Movers # {}) =>
    \A max \in count_cap(policy.rules) : requests + Cardinality(Movers) <= max + crowd

LEMMA FewerStayWithin ==
  \A max \in Int, r, r1, n, n1, c, c1 \in Nat :
    r1 + n1 <= r + n /\ c <= c1 /\ r + n <= max + c => r1 + n1 <= max + c1
  OBVIOUS

LEMMA StepRateBeside ==
  ASSUME "count" \notin Failures,
         TypeInv, TypeInv', Remembered, RateBesideABatch, [NextRemembering]_<<vars, memory>>
  PROVE  RateBesideABatch'
  <1> SUFFICES ASSUME steady', requests' > 0 \/ Movers' # {}, NEW max \in count_cap(policy'.rules)
               PROVE  requests' + Cardinality(Movers') <= max + crowd'
    BY DEF RateBesideABatch
  <1>0. /\ KnownInv /\ Counters /\ [Next]_vars /\ IsFiniteSet(InFlight)
    BY DEF TypeInv, NextRemembering, Remembered
  <1>1. steady /\ policy' = policy /\ policy \in Policies
    BY <1>0, StepRemembered DEF KnownInv
  <1>2. max \in count_cap(policy.rules) /\ max \in Int
    BY <1>1, LowestCap
  <1> DEFINE n == Cardinality(Movers)
             n1 == Cardinality(Movers')
  <1>3. requests \in Nat /\ count \in Nat /\ requests <= count
    BY <1>0 DEF Counters
  <1>4. n \in Nat /\ n1 \in Nat /\ crowd \in Nat /\ crowd' \in Nat /\ crowd <= crowd'
    <2>1. Remembered' /\ crowd <= crowd'
      BY StepRemembered
    <2>2. n \in Nat /\ n1 \in Nat
      BY <2>1, MovingIs, MovingWillBe DEF MovingFacts, Remembered
    <2> QED BY <2>1, <2>2 DEF Remembered
  <1>5. requests > 0 \/ Movers # {} => requests + n <= max + crowd
    BY <1>1, <1>2 DEF RateBesideABatch
  <1> HIDE DEF n, n1
  <1>6. ASSUME requests' \in Nat, requests' + n1 <= requests + n, requests + n <= max + crowd
        PROVE  requests' + n1 <= max + crowd'
    BY <1>2, <1>3, <1>4, <1>6, FewerStayWithin
  <1>7. ASSUME NEW f \in Flights, NEW op \in Asks[f], NEW document \in Documents, Admits(f, op, document)
        PROVE  requests' + n1 <= max + crowd'
    <2>1. requests' = requests
      BY <1>7 DEF Admits
    <2>2. IF f \in InFlight' /\ op.kind \in FundMovingKinds THEN n1 = n + 1 ELSE Movers' = Movers
      BY <1>0, <1>7, OneMoreMoves DEF n, n1
    <2>3. CASE f \in InFlight' /\ op.kind \in FundMovingKinds
      <3> DEFINE usage == from_current_usage(document)
      <3>1. judged(policy, op, usage, now_unix).decision \in {"allow", "requires_approval"}
        BY <1>7, <2>3 DEF Admits
      <3>2. Reading(usage)
        BY <1>0, ReadingIs
      <3> HIDE DEF usage
      <3>3. count < max
        BY <1>1, <1>2, <1>3, <2>3, <3>1, <3>2, AdmittedUnderTheRate
      <3>4. ~(InFlight' \subseteq InFlight)
        BY <1>7, <2>3 DEF Admits
      <3>5. n <= crowd'
        BY <3>4, StepRemembered DEF n
      <3> QED BY <1>2, <1>3, <1>4, <2>1, <2>2, <2>3, <3>3, <3>5
    <2>4. CASE ~(f \in InFlight' /\ op.kind \in FundMovingKinds)
      <3>1. Movers' = Movers
        BY <2>2, <2>4
      <3>2. n1 = n
        BY <3>1 DEF n, n1
      <3>3. requests > 0 \/ Movers # {}
        BY <2>1, <3>1
      <3>4. requests + n <= max + crowd
        BY <1>5, <3>3
      <3>5. requests' \in Nat /\ requests' + n1 <= requests + n
        BY <1>3, <1>4, <2>1, <3>2
      <3> QED BY <1>6, <3>4, <3>5
    <2> QED BY <2>3, <2>4
  <1>8. CASE Carries
    <2>1. requests' = requests
      BY <1>8 DEF Carries
    <2>2. Movers' \subseteq Movers /\ n1 <= n
      BY <1>0, <1>8, FewerMove DEF Carries, n, n1
    <2>3. requests > 0 \/ Movers # {}
      BY <2>1, <2>2
    <2>4. requests + n <= max + crowd
      BY <1>5, <2>3
    <2>5. requests' \in Nat /\ requests' + n1 <= requests + n
      BY <1>3, <1>4, <2>1, <2>2
    <2>6. requests' + n1 <= max + crowd'
      BY <1>6, <2>4, <2>5
    <2> QED BY <2>6 DEF n1
  <1>9. ASSUME NEW f \in Flights, Counts(f)
        PROVE  requests' + n1 <= max + crowd'
    <2>1. Record(f) /\ f \in InFlight /\ flight[f].op.kind \in FundMovingKinds /\ requests' = requests + 1
      BY <1>9 DEF Counts, Record
    <2>2. f \in Movers /\ f \notin InFlight' /\ InFlight' \subseteq InFlight
      BY <1>9, <2>1 DEF Counts, Movers
    <2>3. \A g \in InFlight' : flight'[g].op = flight[g].op
      BY <1>9 DEF Counts
    <2>4. n1 + 1 <= n
      BY <1>0, <2>2, <2>3, FewerMove DEF n, n1
    <2>5. requests + n <= max + crowd
      BY <1>5, <2>2
    <2>6. requests' \in Nat /\ requests' + n1 <= requests + n
      BY <1>3, <1>4, <2>1, <2>4
    <2> QED BY <1>6, <2>5, <2>6
  <1>10. CASE NextHour /\ flight' = flight
    <2>1. InFlight' = InFlight /\ requests' = 0
      BY <1>10 DEF InFlight, NextHour
    <2>2. Movers' = Movers
      BY <1>10, <2>1 DEF Movers
    <2>3. n1 = n
      BY <2>2 DEF n, n1
    <2>4. requests + n <= max + crowd
      <3>1. requests > 0 \/ Movers # {}
        BY <2>1, <2>2
      <3> QED BY <1>5, <3>1
    <2>5. requests' \in Nat /\ requests' + n1 <= requests + n
      BY <1>3, <1>4, <2>1, <2>3
    <2>6. requests' + n1 <= max + crowd'
      BY <1>6, <2>4, <2>5
    <2> QED BY <2>6 DEF n1
  <1> QED BY <1>0, <1>1, <1>7, <1>8, <1>9, <1>10, SteadySteps DEF n1

\* However many overlap, they pass the hourly rate by no more than were in flight
\* beside one that was admitted, when no count goes missing.
THEOREM BatchesBoundTheRate ==
  ASSUME "count" \notin Failures
  PROVE  SpecRemembering => []OverRateByABatch
  <1>1. InitRemembering => RateBesideABatch
    BY NothingPendsAtFirst DEF InitRemembering, Init, RateBesideABatch
  <1>2. TypeInv /\ TypeInv' /\ Remembered /\ RateBesideABatch /\ [NextRemembering]_<<vars, memory>> => RateBesideABatch'
    BY StepRateBeside
  <1>3. TypeInv /\ Remembered /\ RateBesideABatch => OverRateByABatch
    <2> SUFFICES ASSUME TypeInv, Remembered, RateBesideABatch, steady, requests > 0, NEW max \in count_cap(policy.rules)
                 PROVE  requests <= max + crowd
      BY DEF OverRateByABatch
    <2>1. requests \in Nat /\ max \in Int /\ crowd \in Nat
      BY LowestCap DEF TypeInv, KnownInv, Counters, Remembered
    <2>2. Cardinality(Movers) \in Nat
      BY MovingIs DEF MovingFacts, Remembered
    <2>3. requests + Cardinality(Movers) <= max + crowd
      BY DEF RateBesideABatch
    <2> QED BY <2>1, <2>2, <2>3
  <1> QED BY <1>1, <1>2, <1>3, AlwaysRemembered, PTL DEF SpecRemembering
=============================================================================
