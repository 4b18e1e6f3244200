----------------------------- MODULE BindingLife ----------------------------
(***************************************************************************)
(* The life of a binding (binding.rs, hos.rs:91-116): a caller observes    *)
(* the bound account, caches the evidence for a while, and admit reads it  *)
(* at each request under the clock of the request. A terminal fault ends   *)
(* the binding, a reversible one suspends it until a later look            *)
(* (binding.rs:211-212). Meanwhile the account's owner, its contract and   *)
(* the deployment's registries change what the chain would answer.         *)
(***************************************************************************)
EXTENDS Naturals, Sequences

CONSTANTS
  LeaseUntil,    \* when the leased account's lease runs out
  MaxTime,       \* bound on the clock
  MaxBlocks,     \* bound on the number of changes of the account
  Reshaped,      \* whether a response may arrive other than whole
  Apart,         \* whether a personal account's two views may be read at two blocks
  NoEvidence     \* nothing has been observed yet

\* How a view's response arrives: whole, without its fields, or with a lease
\* that is no decimal number.
Replies == {"whole", "fields missing", "lease unreadable"}

ASSUME ConstantsAssumption ==
  /\ Reshaped \in BOOLEAN /\ Apart \in BOOLEAN
  /\ LeaseUntil \in Nat /\ MaxTime \in Nat /\ MaxBlocks \in Nat \ {0}
  /\ NoEvidence \notin [kind : {"hos_lease", "personal_account"}, block : Nat, membership : Nat,
                       reply : Replies, taken : Nat]

VARIABLES
  mode,         \* the binding's mode, "hos_lease" or "personal_account"
  account,      \* account[b]: the account as of block b
  now,          \* the clock
  evidence,     \* the cached observation: its kind, the blocks of the account and of
                \* the membership, its reply and its time
  binding,      \* "live", "suspended" or "ended"
  fault,        \* the last answer of admit to a request of the binding
  admitted,     \* history: the last admission, its kind, evidence and time
  ended_on      \* history: the evidence on which the binding was ended

worldVars == <<mode, account, now>>
vars == <<mode, account, now, evidence, binding, fault, admitted, ended_on>>

BindingKinds == {"hos_lease", "personal_account"}

\* An account, in either mode: whether the executor is in its extension set, the
\* code it runs (the recognized wallet, a wallet of a build the deployment does not
\* list, some other contract, none) and whether it refers to it by hash (NEP-591), and the leased
\* contract's FreezeState and OperatingState.
Accounts == [enabled : BOOLEAN, code : {"recognized", "unlisted", "foreign", "wiped"}, by_hash : BOOLEAN,
             frozen : {"Unfrozen", "AuthorityFrozen"}, state : {"Active", "Parked"}]
Latest == account[Len(account)]

-----------------------------------------------------------------------------
(* What the views answer, and verify.                                      *)

\* What the chain reports of an account's code: its own, or a sentinel where it has
\* none, and the global contract it refers to instead, if it does.
NO_CODE_HASH_B58 == "no code of its own"
view_account(a) ==
  [code_hash |-> IF a.code = "wiped" \/ a.by_hash THEN NO_CODE_HASH_B58 ELSE a.code,
   global_contract_hash |-> IF a.code # "wiped" /\ a.by_hash THEN a.code ELSE "none"]

\* Mutant: only the account's own code is looked at.
OwnCodeOnly(code_hash, global_contract_hash) == code_hash

\* Which of the two identifies the code that runs.
effective_code_hash_b58(code_hash, global_contract_hash) ==
  IF code_hash = NO_CODE_HASH_B58 THEN global_contract_hash ELSE code_hash

\* The code hash of the account at one block and w_is_extension_enabled of it at
\* another, or the same: code that is no wallet has no such view, and the caller
\* reads false.
PlainStatus(a, m) ==
  LET view == view_account(a) IN
  [extension_enabled |-> m.enabled /\ m.code \in {"recognized", "unlisted"},
   code_recognized |-> effective_code_hash_b58(view.code_hash, view.global_contract_hash) = "recognized"]

\* hos_agent_status; a field that is absent takes the default that fails.
AgentStatusView(a) ==
  [extension_enabled |-> a.enabled, frozen |-> a.frozen, state |-> a.state, lease_until |-> LeaseUntil]
DefaultView == [extension_enabled |-> FALSE, frozen |-> "", state |-> "", lease_until |-> 0]

\* Mutant: the account's state is returned as the fault.
StateAsFault(status, reply, t) ==
  IF ~status.extension_enabled THEN "ExtensionDisabled"
  ELSE IF status.frozen # "Unfrozen" THEN "Frozen"
  ELSE IF status.state # "Active" THEN status.state
  ELSE IF status.lease_until <= t THEN "LeaseExpired"
  ELSE "Ok"

HosLease_verify(status, reply, t) ==
  IF ~status.extension_enabled THEN "ExtensionDisabled"
  ELSE IF status.frozen # "Unfrozen" THEN "Frozen"
  ELSE IF status.state = "Expired" THEN "StateExpired"
  ELSE IF status.state # "Active" THEN "StateNotActive"
  ELSE IF reply = "lease unreadable" THEN "Malformed"
  ELSE IF status.lease_until <= t THEN "LeaseExpired"
  ELSE "Ok"

\* Mutant: the membership is asked about before the code.
MembershipFirst(status) ==
  IF ~status.extension_enabled THEN "ExtensionDisabled"
  ELSE IF ~status.code_recognized THEN "CodeHashUnknown"
  ELSE "Ok"

PersonalAccount_verify(status) ==
  IF ~status.code_recognized THEN "CodeHashUnknown"
  ELSE IF ~status.extension_enabled THEN "ExtensionDisabled"
  ELSE "Ok"

\* The evidence as admit is handed it.
Status(e) == IF e.reply = "fields missing" THEN DefaultView ELSE AgentStatusView(account[e.block])

\* Evidence of the other mode is refused, never read under this mode's rules.
admit(kind, e, t) ==
  IF e.kind # kind THEN "EvidenceMismatch"
  ELSE IF kind = "hos_lease" THEN HosLease_verify(Status(e), e.reply, t)
  ELSE PersonalAccount_verify(PlainStatus(account[e.block], account[e.membership]))

\* The dividing line: could the same request later succeed, nobody rewriting it?
BindingFaults == {"ExtensionDisabled", "CodeHashUnknown", "LeaseExpired", "StateExpired",
                  "Frozen", "StateNotActive", "EvidenceMismatch", "Malformed"}

\* Mutant: a frozen account is taken for one that is gone.
frozen_ends(f) == f \in {"ExtensionDisabled", "LeaseExpired", "StateExpired", "EvidenceMismatch", "Malformed", "Frozen"}

is_terminal(f) == f \in {"ExtensionDisabled", "LeaseExpired", "StateExpired", "EvidenceMismatch", "Malformed"}

-----------------------------------------------------------------------------

Live == [enabled |-> TRUE, code |-> "recognized", by_hash |-> FALSE, frozen |-> "Unfrozen", state |-> "Active"]

Init ==
  /\ mode \in BindingKinds
  /\ account = <<Live>>
  /\ now = 0
  /\ evidence = NoEvidence
  /\ binding = "live"
  /\ fault = "Ok"
  /\ admitted = NoEvidence
  /\ ended_on = NoEvidence

Tick ==
  /\ now < MaxTime
  /\ now' = now + 1
  /\ UNCHANGED <<mode, account, evidence, binding, fault, admitted, ended_on>>

\* The account changes: the owner cuts the executor for good, redeploys, wipes or
\* restores the code; the leased contract freezes, thaws, parks or reactivates.
Change ==
  /\ Len(account) < MaxBlocks
  /\ \E a \in Accounts :
       /\ a.enabled => Latest.enabled
       /\ a.by_hash => mode = "personal_account" /\ a.code # "wiped"
       /\ mode = "hos_lease" => a.code = "recognized"
       /\ mode = "personal_account" => a.frozen = "Unfrozen" /\ a.state = "Active"
       /\ account' = Append(account, a)
  /\ UNCHANGED <<mode, now, evidence, binding, fault, admitted, ended_on>>

\* The caller fetches what status_query(mode) asks for, from nodes that may lag,
\* and caches it: one view of a leased account, two of a personal one.
Observe(b) ==
  /\ \E m \in IF Apart /\ mode = "personal_account" THEN DOMAIN account ELSE {b} :
       \E reply \in IF Reshaped /\ mode = "hos_lease" THEN Replies ELSE {"whole"} :
         evidence' = [kind |-> mode, block |-> b, membership |-> m, reply |-> reply, taken |-> now]
  /\ UNCHANGED <<worldVars, binding, fault, admitted, ended_on>>

\* Mutant: the verdict is cached with the evidence it was reached from.
EvidenceTime == evidence.taken

\* The clock a request's evidence is read under.
RequestTime == now

\* The answer to a request that claims kind.
Answer(kind) ==
  LET f == admit(kind, evidence, RequestTime) IN
  /\ admitted' = IF f = "Ok" THEN [kind |-> kind, evidence |-> evidence, at |-> now] ELSE admitted
  /\ IF kind = mode
     THEN /\ fault' = f
          /\ binding' = IF f = "Ok" THEN "live" ELSE IF is_terminal(f) THEN "ended" ELSE "suspended"
         /\ ended_on' = IF is_terminal(f) THEN evidence ELSE ended_on
     ELSE UNCHANGED <<fault, binding, ended_on>>

\* A request of the binding. A claimed kind is a hint: a request that misnames
\* it is answered too, and the binding is none the worse.
Request(kind) ==
  /\ evidence # NoEvidence /\ binding # "ended"
  /\ Answer(kind)
  /\ UNCHANGED <<worldVars, evidence>>

Next ==
  \/ Tick \/ Change
  \/ \E b \in DOMAIN account : Observe(b)
  \/ \E kind \in BindingKinds : Request(kind)

Spec == Init /\ [][Next]_vars

-----------------------------------------------------------------------------

TypeOK ==
  /\ mode \in BindingKinds
  /\ account \in Seq(Accounts) /\ Len(account) >= 1
  /\ now \in 0..MaxTime
  /\ evidence = NoEvidence \/ (evidence.kind = mode /\ {evidence.block, evidence.membership} \subseteq DOMAIN account
                               /\ evidence.taken <= now)
  /\ binding \in {"live", "suspended", "ended"}
  /\ fault \in BindingFaults \cup {"Ok"}
  /\ admitted = NoEvidence \/ (admitted.kind \in BindingKinds /\ admitted.at \in 0..now)
  /\ ended_on = NoEvidence <=> binding # "ended"

\* A request is admitted under the binding's own kind only, on evidence of an
\* account that was live, each fact at the block it was read at, and before its
\* lease ran out: evidence cached before the lease ended is no pass after it
\* (binding.rs:581-584).
AdmittedWhileLive ==
  admitted # NoEvidence =>
    LET a == account[admitted.evidence.block]
        m == account[admitted.evidence.membership] IN
    /\ admitted.kind = mode
    /\ m.enabled /\ a.code = "recognized" /\ a.frozen = "Unfrozen" /\ a.state = "Active"
    /\ mode = "hos_lease" => admitted.at < LeaseUntil

\* A look at the account now, whole and at one block.
FreshLook ==
  [kind |-> mode, block |-> Len(account), membership |-> Len(account), reply |-> "whole", taken |-> now]

\* The wall has a door: an account that is live, its wallet deployed or referred to
\* by hash, passes a fresh look while its lease runs. "A verifier reading only
\* code_hash would refuse every account installed the RECOMMENDED way" (binding.rs:128).
LiveIsAdmitted ==
  /\ Latest.enabled /\ Latest.code = "recognized" /\ Latest.frozen = "Unfrozen" /\ Latest.state = "Active"
  /\ mode = "hos_lease" => now < LeaseUntil
  => admit(mode, FreshLook, now) = "Ok"

\* The same request could never succeed: whatever happened to the account since
\* its binding was ended, a look at it now would not be admitted. A redeploy, a
\* freeze, a parked account, a node that lags: none of them ends a binding the
\* owner could have restored (binding.rs:276-283, 516-523).
EndedIsOver == binding = "ended" => admit(mode, FreshLook, now) # "Ok"

\* A response other than whole, or two views of two blocks, ended the binding.
EndedOnAPartialLook == ended_on.reply # "whole" \/ ended_on.membership # ended_on.block

\* Whatever responses arrive and wherever they are read, a binding that could be
\* admitted again was ended by one of the two looks above: no age of the evidence,
\* order of changes or clock ends one (binding.rs:276-283).
OnlyPartialLooksMislead ==
  binding = "ended" /\ admit(mode, FreshLook, now) = "Ok" => EndedOnAPartialLook
=============================================================================
