---------------------------- MODULE PolicyBatch -----------------------------
(***************************************************************************)
(* What overlapping requests cost. The engine holds a request against the  *)
(* counters its caller read, so requests that are in flight at once each   *)
(* have the whole of a cap. wallet_policy.rs:1092-1098 calls the caps      *)
(* best-effort under concurrency and says by how much they may be passed:  *)
(* by an in-flight batch. This module runs PolicyFlow with a memory of how *)
(* much was in flight at once, and states that bound.                      *)
(***************************************************************************)
EXTENDS PolicyFlow

VARIABLES
  steady,       \* history: the policy has not changed
  batch,        \* history: the most of each token in flight when another request was admitted
  crowd         \* history: the most requests in flight that move funds when another was admitted

memory == <<steady, batch, crowd>>

-----------------------------------------------------------------------------

\* The requests in flight that will be counted, and what they move of a token.
Movers == {f \in InFlight : flight[f].op.kind \in FundMovingKinds}
Pending(t) == SumFunction([f \in Movers |-> Moves(flight[f].op, t)])

Larger(a, b) == IF a >= b THEN a ELSE b

\* Once the policy changes nothing more is said of it, and nothing is remembered.
Remember ==
  LET Most(past, present) ==
        IF ~steady' THEN 0 ELSE IF InFlight' \subseteq InFlight THEN past ELSE Larger(past, present)
  IN
  /\ steady' = (steady /\ policy' = policy)
  /\ batch' = [t \in Tokens |-> Most(batch[t], Pending(t))]
  /\ crowd' = Most(crowd, Cardinality(Movers))

InitRemembering ==
  /\ Init
  /\ steady = TRUE /\ batch = [t \in Tokens |-> 0] /\ crowd = 0

NextRemembering == Next /\ Remember

SpecRemembering == InitRemembering /\ [][NextRemembering]_<<vars, memory>>

-----------------------------------------------------------------------------

\* However requests overlap under one policy, a window's cap is passed at most by
\* what was in flight at once beside the last to be admitted: "simultaneous requests
\* can read the same pre-spend counter and all pass, so caps may be exceeded by an
\* in-flight batch" (1094-1096), and by no more, however many requests are admitted
\* and counted while one of them waits, whatever queries fail and cells do not read.
OverCapByABatch ==
  steady /\ policy.rules.limits # Absent =>
    \A w \in Windows, t \in Tokens : \A limit \in lookup_limit(policy.rules.limits[w], t) :
      spent[w][t] <= limit + batch[t]

\* The same of the hourly rate, in requests.
OverRateByABatch ==
  steady /\ requests > 0 => \A max \in count_cap(policy.rules) : requests <= max + crowd
=============================================================================
