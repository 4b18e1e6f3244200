----------------------------- MODULE SignerKey ------------------------------
(***************************************************************************)
(* signer_key_by (signer_key.rs): does a public key speak for an account?  *)
(* One read asks for the key; when the chain knows no such key and the     *)
(* account is the implicit account of the key, a second read asks whether  *)
(* the account exists. The block reference of both reads is the caller's:  *)
(* one named block (Pinned), or "the latest" each time, which the nodes    *)
(* behind a load balancer answer from their own heads.                     *)
(***************************************************************************)
EXTENDS Naturals, Sequences

CONSTANTS
  Nodes,      \* the RPC nodes behind the load balancer
  MaxBlocks   \* bound on the length of the chain

ASSUME ConstantsAssumption ==
  Nodes # {} /\ MaxBlocks \in Nat \ {0}

VARIABLES
  relation,   \* "implicit": the account is the key's implicit account; "named"; "malformed"
  chain,      \* chain[b]: the account and this key on it, at block b
  head,       \* head[n]: the last block node n has
  pc,         \* the driver: "idle", "key" (1st read), "account" (2nd), "done"
  pin,        \* the block the caller named for both reads, 0 if it named none
  reads,      \* history: the blocks the answers came from
  verdict     \* "none", a SignerKey, or "unread"

worldVars == <<relation, chain, head>>
vars == <<relation, chain, head, pc, pin, reads, verdict>>

\* The caller added one block to both reads.
Pinned == pin # 0

\* No account; or the account without the key, with it for function calls only,
\* with it for everything, with it under a permission this build does not know.
AccountStates == {"missing", "none", "limited", "full", "strange"}

\* An implicit account comes into being with exactly its key as a full-access
\* key; after that its keys come and go, and the account may be deleted.
MayBecome(s) ==
  IF relation = "malformed" THEN {"missing"}
  ELSE IF s = "missing" /\ relation = "implicit" THEN {"missing", "full"}
  ELSE AccountStates

Init ==
  /\ relation \in {"implicit", "named", "malformed"}
  /\ chain \in {<<s>> : s \in IF relation = "malformed" THEN {"missing"} ELSE AccountStates}
  /\ head = [n \in Nodes |-> 1]
  /\ pc = "idle"
  /\ pin = 0
  /\ reads = {}
  /\ verdict = "none"

NewBlock ==
  /\ Len(chain) < MaxBlocks
  /\ \E s \in MayBecome(chain[Len(chain)]) : chain' = Append(chain, s)
  /\ UNCHANGED <<relation, head, pc, pin, reads, verdict>>

CatchUp(n) ==
  /\ \E h \in (head[n] + 1)..Len(chain) : head' = [head EXCEPT ![n] = h]
  /\ UNCHANGED <<relation, chain, pc, pin, reads, verdict>>

-----------------------------------------------------------------------------
(* The answers of a node and how they are read.                            *)

Error(cause, name)  == [kind |-> "error", cause |-> cause, name |-> name]
Legacy(says)        == [kind |-> "legacy", says |-> says]
Key(permission)     == [kind |-> "key", permission |-> permission]
Account             == [kind |-> "account"]
Transport           == [kind |-> "transport"]
Failures == {Error("UNKNOWN_BLOCK", "HANDLER_ERROR"), Error("none", "INTERNAL_ERROR"),
             Legacy("other"), Transport}

NoSuchAccount == {Error("UNKNOWN_ACCOUNT", "HANDLER_ERROR"), Legacy("does not exist")}

\* What view_access_key answers of an account in state s.
KeyReplies(s) ==
  CASE relation = "malformed" -> {Error("INVALID_ACCOUNT", "HANDLER_ERROR"),
                                  Error("PARSE_ERROR", "REQUEST_VALIDATION_ERROR")}
    [] relation # "malformed" /\ s = "missing" -> NoSuchAccount
    [] relation # "malformed" /\ s = "none" -> {Error("UNKNOWN_ACCESS_KEY", "HANDLER_ERROR"),
                                                Legacy("does not exist")}
    [] OTHER -> {Key(s)}

\* What view_account answers of an account in state s.
AccountReplies(s) == IF s = "missing" THEN NoSuchAccount ELSE {Account}

\* Mutant: the permission is passed on as the node spelled it.
PermissionAsSpelled(r) ==
  CASE r.kind = "error" -> IF r.cause = "none" THEN "unread" ELSE "Absent"
    [] r.kind = "key"   -> r.permission
    [] OTHER            -> "unread"

read_access_key_answer(r) ==
  CASE r.kind = "error" ->
         IF r.name = "REQUEST_VALIDATION_ERROR"
            \/ r.cause \in {"UNKNOWN_ACCESS_KEY", "UNKNOWN_ACCOUNT", "INVALID_ACCOUNT"}
         THEN "Absent" ELSE "unread"
    [] r.kind = "legacy" -> IF r.says = "does not exist" THEN "Absent" ELSE "unread"
    [] r.kind = "key" ->
         CASE r.permission = "full"    -> "FullAccess"
           [] r.permission = "limited" -> "FunctionCall"
           [] OTHER                    -> "unread"
    [] OTHER -> "unread"

\* Mutant: any error of the node means the account does not exist.
AnyErrorIsAbsence(r) == IF r.kind = "account" THEN "exists" ELSE "missing"

read_account_exists(r) ==
  CASE r.kind = "error"   -> IF r.cause = "UNKNOWN_ACCOUNT" THEN "missing" ELSE "unread"
    [] r.kind = "legacy"  -> IF r.says = "does not exist" THEN "missing" ELSE "unread"
    [] r.kind = "account" -> "exists"
    [] OTHER              -> "unread"

is_implicit_of == relation = "implicit"

-----------------------------------------------------------------------------
(* The driver.                                                             *)

Call ==
  /\ pc = "idle"
  /\ pc' = "key"
  /\ pin' \in {0} \cup DOMAIN chain
  /\ UNCHANGED <<worldVars, reads, verdict>>

Return(v) == pc' = "done" /\ verdict' = v

\* One query to some node, at the caller's block or at the node's latest: the
\* block it was answered from, and the answer. A node without the caller's
\* block says so, as any failure may.
Queried(replies(_), judged(_)) ==
  \E n \in Nodes :
    LET b == IF Pinned THEN pin ELSE head[n] IN
    \/ \E r \in Failures : judged(r) /\ UNCHANGED reads
    \/ b <= head[n] /\ \E r \in replies(chain[b]) : judged(r) /\ reads' = reads \cup {b}

\* Mutant: no second read: a missing account is not told from a missing key.
AbsentIsAbsent(r) == Return(read_access_key_answer(r))

judge_key(r) ==
  IF read_access_key_answer(r) = "Absent" /\ is_implicit_of
  THEN pc' = "account" /\ UNCHANGED verdict
  ELSE Return(read_access_key_answer(r))

judge_account(r) ==
  CASE read_account_exists(r) = "exists"  -> Return("Absent")
    [] read_account_exists(r) = "missing" -> Return("FullAccess")
    [] OTHER                              -> Return("unread")

ReadKey ==
  /\ pc = "key"
  /\ Queried(KeyReplies, judge_key)
  /\ UNCHANGED <<worldVars, pin>>

ReadAccount ==
  /\ pc = "account"
  /\ Queried(AccountReplies, judge_account)
  /\ UNCHANGED <<worldVars, pin>>

Next ==
  \/ NewBlock
  \/ \E n \in Nodes : CatchUp(n)
  \/ Call
  \/ ReadKey
  \/ ReadAccount

Spec == Init /\ [][Next]_vars

-----------------------------------------------------------------------------

TypeOK ==
  /\ relation \in {"implicit", "named", "malformed"}
  /\ chain \in Seq(AccountStates) /\ Len(chain) >= 1
  /\ head \in [Nodes -> 1..Len(chain)]
  /\ pc \in {"idle", "key", "account", "done"}
  /\ pin \in {0} \cup DOMAIN chain
  /\ reads \subseteq DOMAIN chain
  /\ verdict \in {"none", "FullAccess", "FunctionCall", "Absent", "unread"}

\* What the key is to an account in state s: a full-access key, or the key of
\* an implicit account not made yet, speaks for it (signer_key.rs:3-11).
Speaks(s) == s = "full" \/ (s = "missing" /\ relation = "implicit")

\* A key heard as the owner's spoke for the account at a block that was read: a
\* function-call key, a key taken away and a node that cannot answer are never
\* heard, whatever blocks the two reads see.
HeardKeySpoke ==
  verdict = "FullAccess" => \E b \in reads : Speaks(chain[b])

\* A key judged absent was silent at a block that was read: the key of an
\* account being made between the reads is not mistaken for one taken away
\* (signer_key.rs:99-101).
AbsentKeyWasSilent ==
  verdict = "Absent" => \E b \in reads : ~Speaks(chain[b])

\* The account of the key was made between the two reads: missing at the block of
\* one, with its key at the block of the other.
MadeBetweenTheReads ==
  /\ ~Pinned /\ relation = "implicit"
  /\ \E a, b \in reads : chain[a] = "missing" /\ chain[b] = "full"

\* Nothing else takes a speaking key for a silent one: not a lagging node, not
\* an account deleted or re-keyed meanwhile, not an answer that cannot be read
\* (signer_key.rs:99-101).
OnlyTheRaceMisleads ==
  (verdict = "Absent" /\ \A b \in reads : Speaks(chain[b])) => MadeBetweenTheReads

SignerKeyAt(s) ==
  CASE Speaks(s)     -> "FullAccess"
    [] s = "limited" -> "FunctionCall"
    [] OTHER         -> "Absent"

\* When the caller names one block, both reads together say what the chain says
\* at that block: no change of the account between the reads, and no lagging
\* node, changes the answer.
VerdictOfThePinnedBlock ==
  (Pinned /\ verdict \in {"FullAccess", "FunctionCall", "Absent"}) =>
    pin \in DOMAIN chain /\ verdict = SignerKeyAt(chain[pin]) /\ chain[pin] # "strange"
=============================================================================
