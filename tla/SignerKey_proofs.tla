-------------------------- MODULE SignerKey_proofs --------------------------
(***************************************************************************)
(* Proofs about SignerKey, for any number of nodes and any length of the   *)
(* chain: a key heard as the owner's did speak for the account, with or    *)
(* without a pinned block; and with a pinned block the verdict is that     *)
(* block's.                                                                *)
(***************************************************************************)
EXTENDS SignerKey, TLAPS

USE DEF Pinned

\* How the two readers read each form of answer.
LEMMA ErrorsRead ==
  ASSUME NEW c, NEW n
  PROVE  /\ (n = "REQUEST_VALIDATION_ERROR" \/ c \in {"UNKNOWN_ACCESS_KEY", "UNKNOWN_ACCOUNT", "INVALID_ACCOUNT"})
              => read_access_key_answer(Error(c, n)) = "Absent"
         /\ ~(n = "REQUEST_VALIDATION_ERROR" \/ c \in {"UNKNOWN_ACCESS_KEY", "UNKNOWN_ACCOUNT", "INVALID_ACCOUNT"})
              => read_access_key_answer(Error(c, n)) = "unread"
         /\ c = "UNKNOWN_ACCOUNT" => read_account_exists(Error(c, n)) = "missing"
         /\ c # "UNKNOWN_ACCOUNT" => read_account_exists(Error(c, n)) = "unread"
  <1> DEFINE r == Error(c, n)
  <1>1. r.kind = "error" /\ r.cause = c /\ r.name = n
    BY DEF Error
  <1>2. read_access_key_answer(r) =
          IF n = "REQUEST_VALIDATION_ERROR" \/ c \in {"UNKNOWN_ACCESS_KEY", "UNKNOWN_ACCOUNT", "INVALID_ACCOUNT"}
          THEN "Absent" ELSE "unread"
    BY <1>1 DEF read_access_key_answer
  <1>3. read_account_exists(r) = IF c = "UNKNOWN_ACCOUNT" THEN "missing" ELSE "unread"
    BY <1>1 DEF read_account_exists
  <1> QED BY <1>2, <1>3

LEMMA OtherFormsRead ==
  /\ read_access_key_answer(Legacy("does not exist")) = "Absent"
  /\ read_access_key_answer(Legacy("other")) = "unread"
  /\ read_access_key_answer(Transport) = "unread"
  /\ read_access_key_answer(Key("full")) = "FullAccess"
  /\ read_access_key_answer(Key("limited")) = "FunctionCall"
  /\ read_access_key_answer(Key("strange")) = "unread"
  /\ read_account_exists(Legacy("does not exist")) = "missing"
  /\ read_account_exists(Legacy("other")) = "unread"
  /\ read_account_exists(Transport) = "unread"
  /\ read_account_exists(Account) = "exists"
  BY DEF Legacy, Transport, Key, Account, read_access_key_answer, read_account_exists

\* What the first read is told of an account in state s.
LEMMA KeyRepliesRead ==
  ASSUME NEW s \in AccountStates, NEW r \in KeyReplies(s), relation = "malformed" => s = "missing"
  PROVE  /\ s = "full" => read_access_key_answer(r) = "FullAccess"
         /\ s = "limited" => read_access_key_answer(r) = "FunctionCall"
         /\ s = "strange" => read_access_key_answer(r) = "unread"
         /\ s \in {"missing", "none"} => read_access_key_answer(r) = "Absent"
  <1>1. CASE s \in {"full", "limited", "strange"}
    <2>1. r = Key(s)
      BY <1>1 DEF KeyReplies
    <2> QED BY <1>1, <2>1, OtherFormsRead
  <1>2. CASE s \in {"missing", "none"}
    <2>1. \/ \E c \in {"INVALID_ACCOUNT", "UNKNOWN_ACCOUNT", "UNKNOWN_ACCESS_KEY"} :
               r = Error(c, "HANDLER_ERROR")
          \/ r = Error("PARSE_ERROR", "REQUEST_VALIDATION_ERROR")
          \/ r = Legacy("does not exist")
      BY <1>2 DEF KeyReplies, NoSuchAccount
    <2>2. \A c \in {"INVALID_ACCOUNT", "UNKNOWN_ACCOUNT", "UNKNOWN_ACCESS_KEY"} :
            read_access_key_answer(Error(c, "HANDLER_ERROR")) = "Absent"
      BY ErrorsRead
    <2>3. read_access_key_answer(Error("PARSE_ERROR", "REQUEST_VALIDATION_ERROR")) = "Absent"
      BY ErrorsRead
    <2> QED BY <1>2, <2>1, <2>2, <2>3, OtherFormsRead
  <1> QED BY <1>1, <1>2 DEF AccountStates

\* What the second read is told of it.
LEMMA AccountRepliesRead ==
  ASSUME NEW s \in AccountStates, NEW r \in AccountReplies(s)
  PROVE  read_account_exists(r) = IF s = "missing" THEN "missing" ELSE "exists"
  <1>1. CASE s = "missing"
    <2>1. r = Error("UNKNOWN_ACCOUNT", "HANDLER_ERROR") \/ r = Legacy("does not exist")
      BY <1>1 DEF AccountReplies, NoSuchAccount
    <2>2. read_account_exists(Error("UNKNOWN_ACCOUNT", "HANDLER_ERROR")) = "missing"
      BY ErrorsRead
    <2> QED BY <1>1, <2>1, <2>2, OtherFormsRead
  <1>2. CASE s # "missing"
    BY <1>2, OtherFormsRead DEF AccountReplies
  <1> QED BY <1>1, <1>2

\* A failure is told apart from both.
LEMMA FailuresUnread ==
  ASSUME NEW r \in Failures
  PROVE  read_access_key_answer(r) = "unread" /\ read_account_exists(r) = "unread"
  <1>1. CASE r \in {Error("UNKNOWN_BLOCK", "HANDLER_ERROR"), Error("none", "INTERNAL_ERROR")}
    BY <1>1, ErrorsRead
  <1>2. CASE r \in {Legacy("other"), Transport}
    BY <1>2, OtherFormsRead
  <1> QED BY <1>1, <1>2 DEF Failures

(***************************************************************************)
(* The inductive invariant and the two queries.                            *)
(***************************************************************************)

\* A malformed request names no account; between the two reads the key is
\* unknown at the block of the first, which is the caller's when there is one.
PathInv ==
  /\ relation = "malformed" => \A b \in DOMAIN chain : chain[b] = "missing"
  /\ (Pinned /\ pc # "idle") => pin \in DOMAIN chain
  /\ pc = "account" =>
       /\ relation = "implicit"
       /\ \E b \in reads : chain[b] \in {"missing", "none"} /\ (Pinned => b = pin)
  /\ pc # "done" => verdict = "none"

IInv == TypeOK /\ PathInv /\ HeardKeySpoke /\ OnlyTheRaceMisleads /\ VerdictOfThePinnedBlock

USE DEF MadeBetweenTheReads

LEMMA BlocksHoldStates ==
  ASSUME TypeOK
  PROVE  /\ DOMAIN chain = 1..Len(chain) /\ Len(chain) \in Nat
         /\ \A b \in DOMAIN chain : chain[b] \in AccountStates
         /\ \A n \in Nodes : head[n] \in DOMAIN chain
  BY DEF TypeOK

\* The first read either says nothing, or says what the key is at its block.
LEMMA ReadKeyStep ==
  ASSUME TypeOK, PathInv, ReadKey
  PROVE  /\ pc = "key" /\ UNCHANGED <<relation, chain, head, pin>>
         /\ \/ pc' = "done" /\ verdict' = "unread" /\ reads' = reads
            \/ \E b \in DOMAIN chain :
                 /\ Pinned => b = pin
                 /\ reads' = reads \cup {b}
                 /\ \/ /\ chain[b] \in {"missing", "none"} /\ relation = "implicit"
                       /\ pc' = "account" /\ verdict' = verdict
                    \/ /\ chain[b] \in {"missing", "none"} /\ relation # "implicit"
                       /\ pc' = "done" /\ verdict' = "Absent"
                    \/ chain[b] = "full" /\ pc' = "done" /\ verdict' = "FullAccess"
                    \/ chain[b] = "limited" /\ pc' = "done" /\ verdict' = "FunctionCall"
                    \/ chain[b] = "strange" /\ pc' = "done" /\ verdict' = "unread"
  <1>0. pc = "key" /\ UNCHANGED <<relation, chain, head, pin>>
    BY DEF ReadKey, worldVars
  <1>1. PICK n \in Nodes :
          LET b == IF Pinned THEN pin ELSE head[n] IN
          \/ \E r \in Failures : judge_key(r) /\ UNCHANGED reads
          \/ b <= head[n] /\ \E r \in KeyReplies(chain[b]) : judge_key(r) /\ reads' = reads \cup {b}
    BY DEF ReadKey, Queried
  <1> DEFINE b == IF Pinned THEN pin ELSE head[n]
  <1>2. b \in DOMAIN chain /\ (Pinned => b = pin) /\ chain[b] \in AccountStates
        /\ (relation = "malformed" => chain[b] = "missing")
    BY <1>0, BlocksHoldStates DEF PathInv
  <1>3. ASSUME NEW r \in Failures, judge_key(r), UNCHANGED reads
        PROVE  pc' = "done" /\ verdict' = "unread" /\ reads' = reads
    BY <1>3, FailuresUnread DEF judge_key, Return
  <1>4. ASSUME NEW r \in KeyReplies(chain[b]), judge_key(r), reads' = reads \cup {b}
        PROVE  \/ /\ chain[b] \in {"missing", "none"} /\ relation = "implicit"
                  /\ pc' = "account" /\ verdict' = verdict
               \/ /\ chain[b] \in {"missing", "none"} /\ relation # "implicit"
                  /\ pc' = "done" /\ verdict' = "Absent"
               \/ chain[b] = "full" /\ pc' = "done" /\ verdict' = "FullAccess"
               \/ chain[b] = "limited" /\ pc' = "done" /\ verdict' = "FunctionCall"
               \/ chain[b] = "strange" /\ pc' = "done" /\ verdict' = "unread"
    <2>1. CASE chain[b] \in {"missing", "none"}
      BY <1>2, <1>4, <2>1, KeyRepliesRead DEF judge_key, Return, is_implicit_of
    <2>2. CASE chain[b] \in {"full", "limited", "strange"}
      BY <1>2, <1>4, <2>2, KeyRepliesRead DEF judge_key, Return
    <2> QED BY <1>2, <2>1, <2>2 DEF AccountStates
  <1> QED BY <1>0, <1>1, <1>2, <1>3, <1>4

\* The second read either says nothing, or whether the account exists at its block.
LEMMA ReadAccountStep ==
  ASSUME TypeOK, PathInv, ReadAccount
  PROVE  /\ pc = "account" /\ pc' = "done" /\ UNCHANGED <<relation, chain, head, pin>>
         /\ \/ verdict' = "unread" /\ reads' = reads
            \/ \E b \in DOMAIN chain :
                 /\ Pinned => b = pin
                 /\ reads' = reads \cup {b}
                 /\ \/ chain[b] = "missing" /\ verdict' = "FullAccess"
                    \/ chain[b] # "missing" /\ verdict' = "Absent"
  <1>0. pc = "account" /\ UNCHANGED <<relation, chain, head, pin>>
    BY DEF ReadAccount, worldVars
  <1>1. PICK n \in Nodes :
          LET b == IF Pinned THEN pin ELSE head[n] IN
          \/ \E r \in Failures : judge_account(r) /\ UNCHANGED reads
          \/ b <= head[n] /\ \E r \in AccountReplies(chain[b]) : judge_account(r) /\ reads' = reads \cup {b}
    BY DEF ReadAccount, Queried
  <1> DEFINE b == IF Pinned THEN pin ELSE head[n]
  <1>2. b \in DOMAIN chain /\ (Pinned => b = pin) /\ chain[b] \in AccountStates
    BY <1>0, BlocksHoldStates DEF PathInv
  <1>3. ASSUME NEW r \in Failures, judge_account(r), UNCHANGED reads
        PROVE  pc' = "done" /\ verdict' = "unread" /\ reads' = reads
    BY <1>3, FailuresUnread DEF judge_account, Return
  <1>4. ASSUME NEW r \in AccountReplies(chain[b]), judge_account(r), reads' = reads \cup {b}
        PROVE  /\ pc' = "done"
               /\ \/ chain[b] = "missing" /\ verdict' = "FullAccess"
                  \/ chain[b] # "missing" /\ verdict' = "Absent"
    BY <1>2, <1>4, AccountRepliesRead DEF judge_account, Return
  <1> QED BY <1>0, <1>1, <1>2, <1>3, <1>4

LEMMA InvHoldsInitially == Init => IInv
  <1> SUFFICES ASSUME Init PROVE IInv
    OBVIOUS
  <1>1. PICK s \in IF relation = "malformed" THEN {"missing"} ELSE AccountStates : chain = <<s>>
    BY DEF Init
  <1>2. chain \in Seq(AccountStates) /\ Len(chain) = 1 /\ DOMAIN chain = 1..1 /\ chain[1] = s
    BY <1>1 DEF AccountStates
  <1>3. relation = "malformed" => \A b \in DOMAIN chain : chain[b] = "missing"
    BY <1>1, <1>2
  <1> QED BY <1>2, <1>3 DEF Init, IInv, TypeOK, PathInv, HeardKeySpoke, OnlyTheRaceMisleads, VerdictOfThePinnedBlock

LEMMA InvIsInductive == IInv /\ [Next]_vars => IInv'
  <1> SUFFICES ASSUME IInv, [Next]_vars PROVE IInv'
    OBVIOUS
  <1> USE DEF IInv
  <1>b. /\ DOMAIN chain = 1..Len(chain) /\ Len(chain) \in Nat /\ Len(chain) >= 1
        /\ \A b \in DOMAIN chain : chain[b] \in AccountStates
        /\ \A n \in Nodes : head[n] \in DOMAIN chain
    BY BlocksHoldStates DEF TypeOK
  <1>1. CASE NewBlock
    <2>1. PICK s \in MayBecome(chain[Len(chain)]) : chain' = Append(chain, s)
      BY <1>1 DEF NewBlock
    <2>2. UNCHANGED <<relation, head, pc, pin, reads, verdict>>
      BY <1>1 DEF NewBlock
    <2>3. s \in AccountStates /\ (relation = "malformed" => s = "missing")
      BY DEF MayBecome, AccountStates
    <2>4. /\ chain' \in Seq(AccountStates) /\ Len(chain') = Len(chain) + 1
          /\ DOMAIN chain' = 1..(Len(chain) + 1)
          /\ \A b \in DOMAIN chain : b \in DOMAIN chain' /\ chain'[b] = chain[b]
          /\ chain'[Len(chain) + 1] = s
      BY <2>1, <2>3, <1>b DEF TypeOK
    <2>5. TypeOK'
      <3>1. head' \in [Nodes -> 1..Len(chain')]
        BY <2>2, <2>4, <1>b DEF TypeOK
      <3>2. pin' \in {0} \cup DOMAIN chain' /\ reads' \subseteq DOMAIN chain'
        BY <2>2, <2>4 DEF TypeOK
      <3> QED BY <2>2, <2>4, <3>1, <3>2, <1>b DEF TypeOK
    <2>6. PathInv'
      <3>1. relation' = "malformed" => \A b \in DOMAIN chain' : chain'[b] = "missing"
        BY <2>2, <2>3, <2>4, <1>b DEF PathInv
      <3>2. (Pinned /\ pc' # "idle") => pin' \in DOMAIN chain'
        BY <2>2, <2>4 DEF PathInv
      <3>3. pc' = "account" =>
              /\ relation' = "implicit"
              /\ \E b \in reads' : chain'[b] \in {"missing", "none"} /\ (Pinned => b = pin')
        BY <2>2, <2>4 DEF PathInv, TypeOK
      <3> QED BY <2>2, <3>1, <3>2, <3>3 DEF PathInv
    <2>7. HeardKeySpoke'
      BY <2>2, <2>4 DEF HeardKeySpoke, Speaks, TypeOK
    <2>8. VerdictOfThePinnedBlock'
      BY <2>2, <2>4 DEF VerdictOfThePinnedBlock, SignerKeyAt, Speaks
    <2>9. OnlyTheRaceMisleads'
      BY <2>2, <2>4 DEF OnlyTheRaceMisleads, Speaks, TypeOK
    <2> QED BY <2>5, <2>6, <2>7, <2>8, <2>9
  <1>2. ASSUME NEW n \in Nodes, CatchUp(n) PROVE IInv'
    <2>1. PICK h \in (head[n] + 1)..Len(chain) : head' = [head EXCEPT ![n] = h]
      BY <1>2 DEF CatchUp
    <2>2. UNCHANGED <<relation, chain, pc, pin, reads, verdict>>
      BY <1>2 DEF CatchUp
    <2>3. h \in 1..Len(chain)
      BY <1>b
    <2>4. head' \in [Nodes -> 1..Len(chain)]
      BY <2>1, <2>3 DEF TypeOK
    <2> QED BY <2>2, <2>4 DEF TypeOK, PathInv, HeardKeySpoke, OnlyTheRaceMisleads, VerdictOfThePinnedBlock, Speaks, SignerKeyAt
  <1>3. CASE Call
    BY <1>3, <1>b DEF Call, worldVars, TypeOK, PathInv, HeardKeySpoke, OnlyTheRaceMisleads, VerdictOfThePinnedBlock
  <1>4. CASE ReadKey
    <2>1. pc = "key" /\ UNCHANGED <<relation, chain, head, pin>>
      BY <1>4, ReadKeyStep
    <2>2. CASE pc' = "done" /\ verdict' = "unread" /\ reads' = reads
      BY <2>1, <2>2 DEF TypeOK, PathInv, HeardKeySpoke, OnlyTheRaceMisleads, VerdictOfThePinnedBlock
    <2>3. ASSUME NEW b \in DOMAIN chain, Pinned => b = pin, reads' = reads \cup {b},
                 \/ /\ chain[b] \in {"missing", "none"} /\ relation = "implicit"
                    /\ pc' = "account" /\ verdict' = verdict
                 \/ /\ chain[b] \in {"missing", "none"} /\ relation # "implicit"
                    /\ pc' = "done" /\ verdict' = "Absent"
                 \/ chain[b] = "full" /\ pc' = "done" /\ verdict' = "FullAccess"
                 \/ chain[b] = "limited" /\ pc' = "done" /\ verdict' = "FunctionCall"
                 \/ chain[b] = "strange" /\ pc' = "done" /\ verdict' = "unread"
          PROVE  IInv'
      <3>1. TypeOK'
        BY <2>1, <2>3 DEF TypeOK
      <3>2. PathInv'
        BY <2>1, <2>3 DEF PathInv
      <3>3. HeardKeySpoke'
        BY <2>1, <2>3 DEF PathInv, HeardKeySpoke, Speaks
      <3>4. VerdictOfThePinnedBlock'
        BY <2>1, <2>3 DEF PathInv, VerdictOfThePinnedBlock, SignerKeyAt, Speaks
      <3>5. OnlyTheRaceMisleads'
        BY <2>1, <2>3 DEF PathInv, OnlyTheRaceMisleads, Speaks
      <3> QED BY <3>1, <3>2, <3>3, <3>4, <3>5
    <2> QED BY <1>4, <2>2, <2>3, ReadKeyStep
  <1>5. CASE ReadAccount
    <2>1. pc = "account" /\ pc' = "done" /\ UNCHANGED <<relation, chain, head, pin>>
      BY <1>5, ReadAccountStep
    <2>2. CASE verdict' = "unread" /\ reads' = reads
      BY <2>1, <2>2 DEF TypeOK, PathInv, HeardKeySpoke, OnlyTheRaceMisleads, VerdictOfThePinnedBlock
    <2>3. ASSUME NEW b \in DOMAIN chain, Pinned => b = pin, reads' = reads \cup {b},
                 \/ chain[b] = "missing" /\ verdict' = "FullAccess"
                 \/ chain[b] # "missing" /\ verdict' = "Absent"
          PROVE  IInv'
      <3>1. TypeOK' /\ PathInv'
        BY <2>1, <2>3 DEF TypeOK, PathInv
      <3>2. HeardKeySpoke'
        BY <2>1, <2>3 DEF PathInv, HeardKeySpoke, Speaks
      <3>3. VerdictOfThePinnedBlock'
        BY <2>1, <2>3 DEF PathInv, VerdictOfThePinnedBlock, SignerKeyAt, Speaks
      <3>4. OnlyTheRaceMisleads'
        <4>1. PICK a \in reads : chain[a] \in {"missing", "none"} /\ (Pinned => a = pin)
          BY <2>1 DEF PathInv
        <4>2. relation = "implicit" /\ chain[b] \in AccountStates
          BY <2>1, <1>b DEF PathInv
        <4> QED BY <2>1, <2>3, <4>1, <4>2 DEF OnlyTheRaceMisleads, Speaks, AccountStates
      <3> QED BY <3>1, <3>2, <3>3, <3>4
    <2> QED BY <1>5, <2>1, <2>2, <2>3, ReadAccountStep
  <1>6. CASE UNCHANGED vars
    BY <1>6 DEF vars, TypeOK, PathInv, HeardKeySpoke, OnlyTheRaceMisleads, VerdictOfThePinnedBlock, Speaks, SignerKeyAt
  <1> QED BY <1>1, <1>2, <1>3, <1>4, <1>5, <1>6 DEF Next

LEMMA Invariance == Spec => []IInv
  BY InvHoldsInitially, InvIsInductive, PTL DEF Spec

(***************************************************************************)
(* The theorems.                                                           *)
(***************************************************************************)

\* The variables keep their types: the verdict is a SignerKey or none at all,
\* never the node's own spelling of a permission.
THEOREM TypeCorrect == Spec => []TypeOK
  <1>1. IInv => TypeOK
    BY DEF IInv
  <1> QED BY <1>1, Invariance, PTL

\* Whatever blocks the two reads see, a key is heard as the owner's only if it
\* spoke for the account at one of them.
THEOREM HeardKeysSpoke == Spec => []HeardKeySpoke
  <1>1. IInv => HeardKeySpoke
    BY DEF IInv
  <1> QED BY <1>1, Invariance, PTL

\* A key that spoke for the account at every block that was read is judged absent
\* only when the account was made between the two reads.
THEOREM OnlyTheRace == Spec => []OnlyTheRaceMisleads
  <1>1. IInv => OnlyTheRaceMisleads
    BY DEF IInv
  <1> QED BY <1>1, Invariance, PTL

\* At one named block the two reads together are the block's own verdict.
THEOREM PinnedVerdicts == Spec => []VerdictOfThePinnedBlock
  <1>1. IInv => VerdictOfThePinnedBlock
    BY DEF IInv
  <1> QED BY <1>1, Invariance, PTL
=============================================================================
