------------------------- MODULE BindingLife_proofs -------------------------
(***************************************************************************)
(* Proofs about BindingLife, for any lease, any clock and any history of   *)
(* the account: requests are admitted only on evidence of a live account,  *)
(* before its lease runs out, and a binding that was ended on a whole look *)
(* at one block could never be admitted again.                             *)
(***************************************************************************)
EXTENDS BindingLife, TLAPS

USE ConstantsAssumption

(***************************************************************************)
(* What an observation and an admission tell.                              *)
(***************************************************************************)

Observations == [kind : {mode}, block : DOMAIN account, membership : DOMAIN account, reply : Replies, taken : 0..now]

\* Evidence of the leased mode passes only a live account with time on its lease.
LEMMA LeaseAdmits ==
  ASSUME NEW e, NEW t, admit("hos_lease", e, t) = "Ok"
  PROVE  /\ e.kind = "hos_lease"
         /\ account[e.block].enabled /\ account[e.block].frozen = "Unfrozen"
         /\ account[e.block].state = "Active" /\ ~(LeaseUntil <= t)
  <1>1. e.kind = "hos_lease" /\ HosLease_verify(Status(e), e.reply, t) = "Ok"
    BY DEF admit
  <1>2. /\ Status(e).extension_enabled /\ Status(e).frozen = "Unfrozen"
        /\ Status(e).state = "Active" /\ ~(Status(e).lease_until <= t)
    BY <1>1 DEF HosLease_verify
  <1>3. Status(e) # DefaultView
    <2>1. DefaultView.extension_enabled = FALSE
      BY DEF DefaultView
    <2> QED BY <1>2, <2>1
  <1>4. Status(e) = AgentStatusView(account[e.block])
    BY <1>3 DEF Status
  <1> QED BY <1>1, <1>2, <1>4 DEF AgentStatusView

\* The hash that is read is of the code that runs, however it was installed.
LEMMA CodeIsRead ==
  ASSUME NEW a, NEW m
  PROVE  PlainStatus(a, m).code_recognized <=> a.code = "recognized"
  BY DEF PlainStatus, view_account, effective_code_hash_b58, NO_CODE_HASH_B58

\* Evidence of the personal mode passes only recognized code with the executor enrolled.
LEMMA PersonalAdmits ==
  ASSUME NEW e, NEW t, admit("personal_account", e, t) = "Ok"
  PROVE  /\ e.kind = "personal_account"
         /\ account[e.membership].enabled /\ account[e.block].code = "recognized"
  <1> DEFINE status == PlainStatus(account[e.block], account[e.membership])
  <1>1. e.kind = "personal_account" /\ PersonalAccount_verify(status) = "Ok"
    BY DEF admit
  <1>2. status.code_recognized /\ status.extension_enabled
    BY <1>1 DEF PersonalAccount_verify
  <1>3. account[e.membership].enabled
    BY <1>2 DEF PlainStatus
  <1> QED BY <1>1, <1>2, <1>3, CodeIsRead

\* What ends a leased binding on whole answers: the executor is cut, or the lease is over.
LEMMA LeaseEnds ==
  ASSUME NEW e, NEW t, e.kind = "hos_lease", e.reply = "whole",
         account[e.block].state \in {"Active", "Parked"},
         is_terminal(admit("hos_lease", e, t))
  PROVE  ~account[e.block].enabled \/ LeaseUntil <= t
  <1>1. admit("hos_lease", e, t) = HosLease_verify(AgentStatusView(account[e.block]), "whole", t)
    BY DEF admit, Status
  <1>2. ASSUME account[e.block].enabled, ~(LeaseUntil <= t)
        PROVE  HosLease_verify(AgentStatusView(account[e.block]), "whole", t) \in {"Frozen", "StateNotActive", "Ok"}
    BY <1>2 DEF HosLease_verify, AgentStatusView
  <1> QED BY <1>1, <1>2 DEF is_terminal

\* What ends a personal one: the executor is cut, or the two views are of two blocks.
LEMMA PersonalEnds ==
  ASSUME NEW e, NEW t, e.kind = "personal_account", is_terminal(admit("personal_account", e, t))
  PROVE  ~account[e.block].enabled \/ e.membership # e.block
  <1> DEFINE status == PlainStatus(account[e.block], account[e.membership])
  <1>1. status.extension_enabled
          = (account[e.membership].enabled /\ account[e.membership].code \in {"recognized", "unlisted"})
    BY DEF PlainStatus
  <1>2. status.code_recognized => account[e.block].code = "recognized"
    BY CodeIsRead
  <1> HIDE DEF status
  <1>3. admit("personal_account", e, t) = PersonalAccount_verify(status)
    BY DEF admit, status
  <1>4. status.code_recognized /\ ~status.extension_enabled
    BY <1>3 DEF PersonalAccount_verify, is_terminal
  <1> QED BY <1>1, <1>2, <1>4

\* Every answer is a fault of the list, or none.
LEMMA AnswersAreFaults ==
  ASSUME NEW kind \in BindingKinds, NEW e, NEW t
  PROVE  admit(kind, e, t) \in BindingFaults \cup {"Ok"}
  BY DEF admit, HosLease_verify, PersonalAccount_verify, BindingFaults

(***************************************************************************)
(* The inductive invariant.                                                *)
(***************************************************************************)

\* The account as its mode allows it to be: leased accounts run the leased code,
\* personal ones have neither freeze nor state; an executor once cut stays cut.
AccountInv ==
  /\ \A b \in DOMAIN account :
       /\ mode = "hos_lease" => account[b].code = "recognized"
       /\ mode = "personal_account" => account[b].frozen = "Unfrozen" /\ account[b].state = "Active"
       /\ Latest.enabled => account[b].enabled

\* A leased account has one view.
OneView == mode = "hos_lease" /\ evidence # NoEvidence => evidence.membership = evidence.block

ShapeInv ==
  /\ evidence = NoEvidence \/ evidence \in Observations
  /\ admitted = NoEvidence \/ admitted.evidence \in Observations

\* A binding is ended for one of three reasons, of which the first two never pass.
EndInv ==
  binding = "ended" =>
    \/ ~Latest.enabled
    \/ mode = "hos_lease" /\ LeaseUntil <= now
    \/ EndedOnAPartialLook

IInv == TypeOK /\ ShapeInv /\ AccountInv /\ OneView /\ AdmittedWhileLive /\ EndInv

LEMMA InitIInv == Init => IInv
  <1> SUFFICES ASSUME Init PROVE IInv
    OBVIOUS
  <1>1. account = <<Live>> /\ Live \in Accounts
    BY DEF Init, Live, Accounts
  <1>2. account \in Seq(Accounts) /\ Len(account) = 1 /\ DOMAIN account = 1..1 /\ account[1] = Live /\ Latest = Live
    BY <1>1 DEF Latest
  <1>3. AccountInv
    BY <1>2 DEF AccountInv, Live
  <1>4. TypeOK
    BY <1>2 DEF Init, TypeOK
  <1> QED BY <1>3, <1>4 DEF Init, IInv, ShapeInv, OneView, EndInv, AdmittedWhileLive

LEMMA TickKeeps ==
  ASSUME IInv, Tick
  PROVE  IInv'
  <1>1. now \in Nat /\ now' = now + 1 /\ now' \in 0..MaxTime /\ UNCHANGED <<mode, account, evidence, binding, fault, admitted, ended_on>>
    BY DEF Tick, IInv, TypeOK
  <1>2. 0..now \subseteq 0..now'
    BY <1>1
  <1>3. ShapeInv'
    <2>1. Observations \subseteq Observations'
      BY <1>1, <1>2 DEF Observations
    <2> QED BY <1>1, <2>1 DEF IInv, ShapeInv
  <1>4. TypeOK'
    <2>1. evidence # NoEvidence => evidence.taken \in Nat
      BY <1>1 DEF IInv, ShapeInv, Observations
    <2>2. evidence' = NoEvidence \/ (/\ evidence'.kind = mode'
                                      /\ {evidence'.block, evidence'.membership} \subseteq DOMAIN account'
                                      /\ evidence'.taken <= now')
      BY <1>1, <2>1 DEF IInv, TypeOK
    <2>3. admitted = NoEvidence \/ admitted.at \in Nat
      BY DEF IInv, TypeOK
    <2> QED BY <1>1, <2>2, <2>3 DEF IInv, TypeOK
  <1>5. AccountInv' /\ AdmittedWhileLive' /\ OneView'
    BY <1>1 DEF IInv, AccountInv, AdmittedWhileLive, Latest, OneView
  <1>6. EndInv'
    BY <1>1 DEF IInv, EndInv, Latest, EndedOnAPartialLook, ConstantsAssumption
  <1> QED BY <1>3, <1>4, <1>5, <1>6 DEF IInv

LEMMA ChangeKeeps ==
  ASSUME IInv, Change
  PROVE  IInv'
  <1>1. PICK a \in Accounts :
          /\ a.enabled => Latest.enabled
          /\ mode = "hos_lease" => a.code = "recognized"
          /\ mode = "personal_account" => a.frozen = "Unfrozen" /\ a.state = "Active"
          /\ account' = Append(account, a)
    BY DEF Change
  <1>2. UNCHANGED <<mode, now, evidence, binding, fault, admitted, ended_on>>
    BY DEF Change
  <1>3. account \in Seq(Accounts) /\ Len(account) \in Nat \ {0} /\ DOMAIN account = 1..Len(account)
    BY DEF IInv, TypeOK
  <1>4. /\ account' \in Seq(Accounts) /\ Len(account') = Len(account) + 1
        /\ DOMAIN account' = 1..(Len(account) + 1)
        /\ account'[Len(account) + 1] = a
        /\ \A b \in DOMAIN account : account'[b] = account[b]
    BY <1>1, <1>3
  <1>5. DOMAIN account \subseteq DOMAIN account' /\ Latest' = a
    BY <1>3, <1>4 DEF Latest
  <1>6. TypeOK'
    BY <1>2, <1>3, <1>4, <1>5 DEF IInv, TypeOK
  <1>7. ShapeInv'
    <2>1. Observations \subseteq Observations'
      BY <1>2, <1>5 DEF Observations
    <2> QED BY <1>2, <2>1 DEF IInv, ShapeInv
  <1>8. AccountInv'
    <2> SUFFICES ASSUME NEW b \in DOMAIN account'
                 PROVE  /\ mode' = "hos_lease" => account'[b].code = "recognized"
                        /\ mode' = "personal_account" => account'[b].frozen = "Unfrozen" /\ account'[b].state = "Active"
                        /\ Latest'.enabled => account'[b].enabled
      BY DEF AccountInv
    <2>1. CASE b \in DOMAIN account
      BY <1>1, <1>2, <1>4, <1>5, <2>1 DEF IInv, AccountInv
    <2>2. CASE b = Len(account) + 1
      BY <1>1, <1>2, <1>4, <1>5, <2>2
    <2> QED BY <1>3, <1>4, <2>1, <2>2
  <1>9. AdmittedWhileLive'
    <2>1. admitted # NoEvidence => /\ account'[admitted.evidence.block] = account[admitted.evidence.block]
                                   /\ account'[admitted.evidence.membership] = account[admitted.evidence.membership]
      BY <1>4 DEF IInv, ShapeInv, Observations
    <2> QED BY <1>2, <2>1 DEF IInv, AdmittedWhileLive
  <1>10. EndInv'
    BY <1>1, <1>2, <1>5 DEF IInv, EndInv, EndedOnAPartialLook
  <1>11. OneView'
    BY <1>2 DEF IInv, OneView
  <1> QED BY <1>6, <1>7, <1>8, <1>9, <1>10, <1>11 DEF IInv

LEMMA ObserveKeeps ==
  ASSUME IInv, NEW b \in DOMAIN account, Observe(b)
  PROVE  IInv'
  <1>1. PICK m \in DOMAIN account, reply \in Replies :
          /\ mode = "hos_lease" => m = b
          /\ evidence' = [kind |-> mode, block |-> b, membership |-> m, reply |-> reply, taken |-> now]
    BY DEF Observe, Replies
  <1>2. UNCHANGED <<mode, account, now, binding, fault, admitted, ended_on>>
    BY DEF Observe, worldVars
  <1>3. now \in Nat /\ now \in 0..now
    BY DEF IInv, TypeOK
  <1>4. evidence' \in Observations /\ Observations' = Observations
    BY <1>1, <1>2, <1>3 DEF Observations
  <1>5. ShapeInv'
    BY <1>2, <1>4 DEF IInv, ShapeInv
  <1>6. TypeOK'
    <2>1. /\ evidence'.kind = mode' /\ evidence'.taken <= now'
          /\ {evidence'.block, evidence'.membership} \subseteq DOMAIN account'
      BY <1>1, <1>2, <1>3
    <2> QED BY <1>2, <2>1 DEF IInv, TypeOK
  <1>7. AccountInv' /\ AdmittedWhileLive' /\ OneView'
    BY <1>1, <1>2 DEF IInv, AccountInv, AdmittedWhileLive, Latest, OneView
  <1>8. EndInv'
    BY <1>2 DEF IInv, EndInv, Latest, EndedOnAPartialLook
  <1> QED BY <1>5, <1>6, <1>7, <1>8 DEF IInv

\* Only a cut executor, a lease that is over or a partial look ends a binding.
LEMMA RequestEnds ==
  ASSUME IInv, NEW kind \in BindingKinds, Request(kind)
  PROVE  EndInv'
  <1>1. evidence \in Observations /\ UNCHANGED <<mode, account, now>>
    BY DEF Request, worldVars, IInv, ShapeInv
  <1>2. /\ binding # "ended"
        /\ binding' = "ended" => kind = mode /\ is_terminal(admit(kind, evidence, now)) /\ ended_on' = evidence
    BY DEF Request, Answer, RequestTime
  <1>3. account[evidence.block] \in Accounts /\ (Latest.enabled => account[evidence.block].enabled)
    BY <1>1 DEF IInv, TypeOK, AccountInv, Observations
  <1>4. ASSUME binding' = "ended", mode = "hos_lease", evidence.reply = "whole"
        PROVE  ~Latest.enabled \/ LeaseUntil <= now
    <2>1. account[evidence.block].state \in {"Active", "Parked"}
      BY <1>3 DEF Accounts
    <2>2. evidence.kind = "hos_lease"
      BY <1>1, <1>4 DEF Observations
    <2> QED BY <1>1, <1>2, <1>3, <1>4, <2>1, <2>2, LeaseEnds
  <1>5. ASSUME binding' = "ended", mode = "personal_account", evidence.membership = evidence.block
        PROVE  ~Latest.enabled
    <2>1. evidence.kind = "personal_account"
      BY <1>1, <1>5 DEF Observations
    <2> QED BY <1>2, <1>3, <1>5, <2>1, PersonalEnds
  <1>6. Latest' = Latest
    BY <1>1 DEF Latest
  <1> QED BY <1>1, <1>2, <1>4, <1>5, <1>6 DEF EndInv, EndedOnAPartialLook, BindingKinds

LEMMA RequestKeeps ==
  ASSUME IInv, NEW kind \in BindingKinds, Request(kind)
  PROVE  IInv'
  <1> DEFINE f == admit(kind, evidence, now)
  <1>1. evidence \in Observations /\ UNCHANGED <<mode, account, now, evidence>>
    BY DEF Request, worldVars, IInv, ShapeInv
  <1>2. /\ admitted' = IF f = "Ok" THEN [kind |-> kind, evidence |-> evidence, at |-> now] ELSE admitted
        /\ fault' = IF kind = mode THEN f ELSE fault
        /\ binding' = IF kind # mode THEN binding
                      ELSE IF f = "Ok" THEN "live" ELSE IF is_terminal(f) THEN "ended" ELSE "suspended"
        /\ ended_on' = IF kind = mode /\ is_terminal(f) THEN evidence ELSE ended_on
        /\ binding # "ended" /\ evidence # NoEvidence
    BY DEF Request, Answer, RequestTime
  <1>3. now \in Nat /\ now \in 0..now /\ f \in BindingFaults \cup {"Ok"}
    BY AnswersAreFaults DEF IInv, TypeOK
  <1>e. EndInv'
    BY RequestEnds
  <1>t. is_terminal(f) => f # "Ok"
    BY DEF is_terminal
  <1>4. f = "Ok" => kind = mode
    BY <1>1, LeaseAdmits, PersonalAdmits DEF Observations, BindingKinds
  <1> HIDE DEF f
  <1>5. TypeOK'
    <2>1. ended_on' = NoEvidence <=> binding' # "ended"
      BY <1>2, <1>t DEF IInv, TypeOK
    <2>2. admitted' = NoEvidence \/ (admitted'.kind \in BindingKinds /\ admitted'.at \in 0..now)
      BY <1>2, <1>3 DEF IInv, TypeOK
    <2> QED BY <1>1, <1>2, <1>3, <2>1, <2>2 DEF IInv, TypeOK
  <1>6. ShapeInv'
    <2>1. Observations' = Observations
      BY <1>1 DEF Observations
    <2> QED BY <1>1, <1>2, <2>1 DEF IInv, ShapeInv
  <1>7. AccountInv' /\ OneView'
    BY <1>1 DEF IInv, AccountInv, Latest, OneView
  <1>8. AdmittedWhileLive'
    <2>1. CASE f # "Ok"
      BY <1>1, <1>2, <2>1 DEF IInv, AdmittedWhileLive
    <2>2. CASE f = "Ok" /\ kind = "hos_lease"
      <3>1. account[evidence.block].code = "recognized"
        BY <1>1, <1>4, <2>2 DEF IInv, AccountInv, Observations
      <3>2. /\ account[evidence.block].enabled /\ account[evidence.block].frozen = "Unfrozen"
            /\ account[evidence.block].state = "Active" /\ ~(LeaseUntil <= now)
        BY <2>2, LeaseAdmits DEF f
      <3>3. LeaseUntil \in Nat
        BY DEF ConstantsAssumption
      <3>4. account[evidence.membership].enabled
        BY <1>2, <1>4, <2>2, <3>2 DEF IInv, OneView
      <3> QED BY <1>1, <1>2, <1>3, <1>4, <2>2, <3>1, <3>2, <3>3, <3>4 DEF AdmittedWhileLive
    <2>3. CASE f = "Ok" /\ kind = "personal_account"
      <3>1. account[evidence.block].frozen = "Unfrozen" /\ account[evidence.block].state = "Active"
        BY <1>1, <1>4, <2>3 DEF IInv, AccountInv, Observations
      <3>2. account[evidence.membership].enabled /\ account[evidence.block].code = "recognized"
        BY <2>3, PersonalAdmits DEF f
      <3> QED BY <1>1, <1>2, <1>4, <2>3, <3>1, <3>2 DEF AdmittedWhileLive
    <2> QED BY <2>1, <2>2, <2>3 DEF BindingKinds
  <1> QED BY <1>5, <1>6, <1>7, <1>8, <1>e DEF IInv

LEMMA NextKeeps ==
  ASSUME IInv, [Next]_vars
  PROVE  IInv'
  <1>1. CASE Tick
    BY <1>1, TickKeeps
  <1>2. CASE Change
    BY <1>2, ChangeKeeps
  <1>3. CASE \E b \in DOMAIN account : Observe(b)
    BY <1>3, ObserveKeeps
  <1>4. CASE \E kind \in BindingKinds : Request(kind)
    BY <1>4, RequestKeeps
  <1>5. CASE UNCHANGED vars
    BY <1>5 DEF vars, IInv, TypeOK, ShapeInv, Observations, AccountInv, OneView, AdmittedWhileLive, Latest, EndInv, EndedOnAPartialLook
  <1> QED BY <1>1, <1>2, <1>3, <1>4, <1>5 DEF Next

LEMMA AlwaysIInv == Spec => []IInv
  <1>1. Init => IInv
    BY InitIInv
  <1>2. IInv /\ [Next]_vars => IInv'
    BY NextKeeps
  <1> QED BY <1>1, <1>2, PTL DEF Spec

\* The binding, its evidence and its answers keep their shape.
THEOREM TypeCorrect == Spec => []TypeOK
  <1>1. IInv => TypeOK
    BY DEF IInv
  <1> QED BY <1>1, AlwaysIInv, PTL

\* A request is admitted under the binding's kind, on evidence of a live account,
\* before the lease runs out (HosLease::verify, PersonalAccount::verify, admit),
\* whatever the account does meanwhile and however long evidence is cached.
THEOREM AdmissionsAreLive == Spec => []AdmittedWhileLive
  <1>1. IInv => AdmittedWhileLive
    BY DEF IInv
  <1> QED BY <1>1, AlwaysIInv, PTL

(***************************************************************************)
(* The end of a binding.                                                   *)
(***************************************************************************)

\* Neither of the two other reasons passes the gates at the latest block.
LEMMA EndedStays ==
  ASSUME IInv
  PROVE  OnlyPartialLooksMislead
  <1> DEFINE e == FreshLook
  <1> SUFFICES ASSUME binding = "ended", admit(mode, e, now) = "Ok"
               PROVE  EndedOnAPartialLook
    BY DEF OnlyPartialLooksMislead
  <1>1. e.block = Len(account) /\ e.membership = Len(account)
    BY DEF FreshLook
  <1> HIDE DEF e
  <1>2. mode = "hos_lease" \/ mode = "personal_account"
    BY DEF IInv, TypeOK, BindingKinds
  <1>3. CASE mode = "hos_lease"
    BY <1>1, <1>3, LeaseAdmits DEF IInv, EndInv, Latest
  <1>4. CASE mode = "personal_account"
    BY <1>1, <1>4, PersonalAdmits DEF IInv, EndInv, Latest
  <1> QED BY <1>2, <1>3, <1>4

\* Whatever the responses and the blocks they are read at: a binding that could be
\* admitted again was ended by a response other than whole or by two views of two
\* blocks (BindingFault::is_terminal's line: "could the same request later succeed,
\* nobody rewriting it?").
THEOREM OnlyPartialLooks == Spec => []OnlyPartialLooksMislead
  <1>1. IInv => OnlyPartialLooksMislead
    BY EndedStays
  <1> QED BY <1>1, AlwaysIInv, PTL

\* A caller that reads a personal account at one block, and nodes that answer whole,
\* leave every look whole.
WholeInv ==
  /\ evidence = NoEvidence \/ (evidence.reply = "whole" /\ evidence.membership = evidence.block)
  /\ binding = "ended" => ~EndedOnAPartialLook

LEMMA WholeKept ==
  ASSUME Reshaped = FALSE, Apart = FALSE, WholeInv, [Next]_vars
  PROVE  WholeInv'
  <1>1. CASE \E b \in DOMAIN account : Observe(b)
    <2> PICK b \in DOMAIN account : Observe(b)
      BY <1>1
    <2>1. evidence'.reply = "whole" /\ evidence'.membership = evidence'.block /\ UNCHANGED <<binding, ended_on>>
      BY DEF Observe
    <2> QED BY <2>1 DEF WholeInv, EndedOnAPartialLook
  <1>2. CASE \E kind \in BindingKinds : Request(kind)
    <2> PICK kind \in BindingKinds : Request(kind)
      BY <1>2
    <2>1. evidence # NoEvidence /\ UNCHANGED evidence /\ (binding' = "ended" => ended_on' = evidence)
      BY DEF Request, Answer
    <2> QED BY <2>1 DEF WholeInv, EndedOnAPartialLook
  <1>3. CASE UNCHANGED <<evidence, binding, ended_on>>
    BY <1>3 DEF WholeInv, EndedOnAPartialLook
  <1> QED BY <1>1, <1>2, <1>3 DEF Next, Tick, Change, vars

\* On whole responses, read at one block, a binding that was ended could never be
\* admitted again, whatever happens to the account after.
THEOREM TerminalIsOver == ASSUME Reshaped = FALSE, Apart = FALSE PROVE Spec => []EndedIsOver
  <1>1. Init => WholeInv
    BY DEF Init, WholeInv
  <1>2. WholeInv /\ [Next]_vars => WholeInv'
    BY WholeKept
  <1>3. WholeInv /\ OnlyPartialLooksMislead => EndedIsOver
    BY DEF WholeInv, OnlyPartialLooksMislead, EndedIsOver
  <1> QED BY <1>1, <1>2, <1>3, OnlyPartialLooks, PTL DEF Spec

\* No live account is refused a fresh look, in either mode and however its wallet
\* was installed; for any lease and any history.
THEOREM LiveIsNeverRefused == Spec => []LiveIsAdmitted
  <1>1. IInv => LiveIsAdmitted
    <2> DEFINE e == FreshLook
    <2> SUFFICES ASSUME IInv, Latest.enabled, Latest.code = "recognized", Latest.frozen = "Unfrozen",
                        Latest.state = "Active", mode = "hos_lease" => now < LeaseUntil
                 PROVE  admit(mode, e, now) = "Ok"
      BY DEF LiveIsAdmitted
    <2>1. /\ mode \in BindingKinds /\ now \in Nat /\ e.reply = "whole" /\ e.kind = mode
          /\ account[e.block] = Latest /\ account[e.membership] = Latest
      BY DEF IInv, TypeOK, Latest, FreshLook
    <2> HIDE DEF e
    <2>2. CASE mode = "hos_lease"
      <3>1. ~(LeaseUntil <= now)
        BY <2>1, <2>2
      <3>2. Status(e) = AgentStatusView(Latest)
        BY <2>1 DEF Status
      <3>3. HosLease_verify(Status(e), e.reply, now) = "Ok"
        BY <2>1, <3>1, <3>2 DEF HosLease_verify, AgentStatusView
      <3> QED BY <2>1, <2>2, <3>3 DEF admit
    <2>3. CASE mode = "personal_account"
      <3>1. PlainStatus(Latest, Latest).code_recognized
        BY CodeIsRead
      <3>2. PlainStatus(Latest, Latest).extension_enabled
        BY DEF PlainStatus
      <3> QED BY <2>1, <2>3, <3>1, <3>2 DEF admit, PersonalAccount_verify
    <2> QED BY <2>1, <2>2, <2>3 DEF BindingKinds
  <1> QED BY <1>1, AlwaysIInv, PTL
=============================================================================
