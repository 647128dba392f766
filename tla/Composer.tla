------------------------------ MODULE Composer ------------------------------
(***************************************************************************)
(* The browser's writes and its view of a task: the hooks of                *)
(* client/src/hooks/useProofRelay.ts with lib/preflight.ts, lib/fees.ts and  *)
(* lib/api.ts.  The API, the wallet, the contract and the node are around    *)
(* them and answer as they like.                                             *)
(*                                                                         *)
(* A preparation is what it changes of the form: a subset of Fields.  Of the  *)
(* text there are two: the echo in the answer, and the manifest that the hash *)
(* and the pointer stand for, whose bytes the browser does not have.  The     *)
(* contract refuses a gated write while it is paused, and that is its only   *)
(* reason here.  Sessions are SignIn's.                                      *)
(***************************************************************************)
EXTENDS Integers, Sequences, FiniteSets

CONSTANTS
  Accounts, NoAccount,
  Writes,           \* the writes a user makes: a subset of AllWrites
  MaxClicks,        \* bound: writes begun
  MaxTurns          \* bound: accounts switched, pauses, unpauses

AllWrites == {"createTask", "openChallenge", "claimReward", "withdrawStake", "withdraw"}
ASSUME ComposerAssumption ==
  NoAccount \notin Accounts /\ Writes \subseteq AllWrites /\ {MaxClicks, MaxTurns} \subseteq Nat

VARIABLES
  account,      \* the account the wallet is on
  chainPaused,       \* the contract's flag
  turns,
  write,        \* the write under way
  txs,          \* what reached the chain: [n, what, from, creator, changed, fate]
  told,         \* per write: what its user was told last
  viewed        \* a task: [status, indexed] at the server, [page, whole] in the browser

composerVars == <<account, chainPaused, turns, write, txs, told, viewed>>

Fields == {"bounty", "verifierCount", "pointer", "echo", "manifest", "sources", "windows"}
Prepared == {"createTask", "openChallenge"}
Gated == {"createTask", "openChallenge"}
Idle == [at |-> "idle"]

ComposerInit ==
  /\ account \in Accounts /\ chainPaused = FALSE /\ turns = 0
  /\ write = Idle /\ txs = <<>> /\ told = <<>>
  /\ viewed = [status |-> "OPEN", indexed |-> FALSE, page |-> "OPEN", whole |-> FALSE]

Current == Len(told)
Tell(what) == told' = [told EXCEPT ![Current] = what]
Ends(what) == write' = Idle /\ Tell(what)
World == <<account, chainPaused, turns, viewed>>

-----------------------------------------------------------------------------
(* The runner.  The hook's account is the one of the click.                   *)
Click(what) ==
  /\ write = Idle /\ Current < MaxClicks
  /\ IF account = NoAccount
     THEN told' = Append(told, "unsent") /\ UNCHANGED write
     ELSE /\ told' = Append(told, "waiting")
          /\ write' = [at |-> IF what \in Prepared THEN "preparing" ELSE "checking",
                       what |-> what, creator |-> account, changed |-> {}]
  /\ UNCHANGED <<txs, World>>

(* What assertPreparedMatchesInput compares of a new task: the arguments with  *)
(* the form, which always names a number of verifiers, and with the answer's   *)
(* own hash and pointer; the echo with the form.  No hash is recomputed.       *)
Compared == {"bounty", "verifierCount", "pointer", "echo"}

Matches(changed) == changed \cap Compared = {}

PreparationArrives(changed) ==
  /\ write.at = "preparing"
  /\ IF write.what = "createTask" /\ ~Matches(changed)
     THEN Ends("unsent")
     ELSE write' = [write EXCEPT !.at = "checking", !.changed = changed] /\ UNCHANGED told
  /\ UNCHANGED <<txs, World>>

(* toApiError, or no answer at all.                                           *)
PreparationFails ==
  /\ write.at = "preparing" /\ Ends("unsent") /\ UNCHANGED <<txs, World>>

Refused(what) == chainPaused /\ what \in Gated

(* preflightWrite, and the fee pair, which falls back on its floor.           *)
Preflight(reachable) ==
  /\ write.at = "checking"
  /\ IF ~reachable \/ Refused(write.what) THEN Ends("unsent")
     ELSE write' = [write EXCEPT !.at = "signing"] /\ UNCHANGED told
  /\ UNCHANGED <<txs, World>>

(* The wallet signs with the account it is on now.                            *)
Broadcasts ==
  /\ write.at = "signing" /\ account # NoAccount
  /\ txs' = Append(txs, [n |-> Current, what |-> write.what, from |-> account,
                         creator |-> write.creator, changed |-> write.changed,
                         fate |-> "pending"])
  /\ UNCHANGED World

Sign == Broadcasts /\ write' = [write EXCEPT !.at = "confirming"] /\ UNCHANGED told

(* The wallet's answer does not come back: a call that failed, as if refused.  *)
AnswerLost == Broadcasts /\ Ends("refused")

Declines ==
  /\ write.at = "signing" /\ Ends("refused") /\ UNCHANGED <<txs, World>>

MineWrite(i) ==
  /\ txs[i].fate = "pending"
  /\ txs' = [txs EXCEPT ![i].fate = IF Refused(txs[i].what) THEN "reverted" ELSE "mined"]
  /\ UNCHANGED <<write, told, World>>

(* confirm, with the replay that finds the reason.                            *)
Confirmed ==
  /\ write.at = "confirming"
  /\ LET fate == txs[Len(txs)].fate
     IN \/ fate = "reverted" /\ Ends("reverted")
        \/ fate = "mined" /\ write.what # "createTask" /\ Ends("done")
        \/ /\ fate = "mined" /\ write.what = "createTask"
           /\ write' = [write EXCEPT !.at = "syncing"] /\ UNCHANGED told
  /\ UNCHANGED <<txs, World>>

(* Mutant: a wait that ran out is reported as a transaction that failed. *)
ReceiptTimesOut_Failed ==
  /\ write.at = "confirming" /\ Ends("reverted") /\ UNCHANGED <<txs, World>>

(* 180 seconds without a receipt.                                             *)
ReceiptTimesOut ==
  /\ write.at = "confirming" /\ Ends("unconfirmed") /\ UNCHANGED <<txs, World>>

(* The indexer is nudged; whether it listens changes nothing here.            *)
Nudged ==
  /\ write.at = "syncing" /\ Ends("done") /\ UNCHANGED <<txs, World>>

-----------------------------------------------------------------------------
(* Around it.                                                                *)
SwitchWallet(a) ==
  /\ turns < MaxTurns /\ a # account
  /\ account' = a /\ turns' = turns + 1 /\ UNCHANGED <<chainPaused, write, txs, told, viewed>>

PauseOrUnpause ==
  /\ turns < MaxTurns /\ chainPaused' = ~chainPaused /\ turns' = turns + 1
  /\ UNCHANGED <<account, write, txs, told, viewed>>

(* A task settles; its row follows the struct, its timeline the logs.         *)
Settles ==
  /\ viewed.status = "OPEN" /\ viewed' = [viewed EXCEPT !.status = "FINALIZED"]
  /\ UNCHANGED <<account, chainPaused, turns, write, txs, told>>

LogsIndexed ==
  /\ viewed.status = "FINALIZED" /\ ~viewed.indexed
  /\ viewed' = [viewed EXCEPT !.indexed = TRUE]
  /\ UNCHANGED <<account, chainPaused, turns, write, txs, told>>

IsTerminalTask(status) == status \in {"FINALIZED", "EXPIRED", "CANCELLED"}

(* useTask.                                                                   *)
PollTask ==
  /\ ~IsTerminalTask(viewed.page)
  /\ viewed' = [viewed EXCEPT !.page = viewed.status, !.whole = viewed.indexed]
  /\ UNCHANGED <<account, chainPaused, turns, write, txs, told>>

ComposerNext ==
  \/ \E what \in Writes : Click(what)
  \/ \E changed \in {{}} \cup {{f} : f \in Fields} : PreparationArrives(changed)
  \/ \E reachable \in BOOLEAN : Preflight(reachable)
  \/ PreparationFails \/ Sign \/ AnswerLost \/ Declines \/ Confirmed \/ ReceiptTimesOut \/ Nudged
  \/ \E i \in 1..Len(txs) : MineWrite(i)
  \/ \E a \in Accounts \cup {NoAccount} : SwitchWallet(a)
  \/ PauseOrUnpause \/ Settles \/ LogsIndexed \/ PollTask

ComposerSpec == ComposerInit /\ [][ComposerNext]_composerVars

-----------------------------------------------------------------------------
(* A user is not misled about money.  "Nothing was sent" and "nothing was     *)
(* signed" are said of no write the chain ever sees; a write reported done    *)
(* was mined and one reported reverted was not; one click is at most one      *)
(* transaction; and whatever the API answered, a task that carries a write's   *)
(* bounty has the bounty and the number of verifiers that were typed.         *)
ToldIsTrue ==
  /\ \A i \in 1..Len(txs) :
       LET tx == txs[i]
           word == told[tx.n]
       IN /\ word # "unsent"
          /\ word = "done" => tx.fate = "mined"
          /\ word = "reverted" => tx.fate = "reverted"
          /\ tx.what = "createTask" => tx.changed \cap {"bounty", "verifierCount"} = {}
  /\ \A i, j \in 1..Len(txs) : txs[i].n = txs[j].n => i = j

Posted == {i \in 1..Len(txs) : txs[i].what = "createTask" /\ txs[i].fate = "mined"}

(* useProofRelay.ts, of what is compared before signing: "an API that swapped *)
(* a claim, dropped a source, or raised the bounty".                          *)
TextAsTyped == \A i \in Posted : "manifest" \notin txs[i].changed
SourcesAsAsked == \A i \in Posted : "sources" \notin txs[i].changed

(* VerificationTasks.tsx, of a wallet's call that failed: "Nothing was         *)
(* escrowed - no value left your wallet".                                     *)
RefusedIsUnposted == \A i \in Posted : told[txs[i].n] # "refused"

(* api.ts: the key is there "so a retried submit cannot double-charge".  A    *)
(* user who is never told of a task has not posted one.                       *)
UnconfirmedIsUnposted == \A i \in Posted : told[txs[i].n] # "unconfirmed"

(* The account a task was prepared for is the one that pays for it.           *)
PreparedForPayer == \A i \in Posted : txs[i].from = txs[i].creator

(* useTask stops polling when "nothing about it can change after that".       *)
PageIsWhole == IsTerminalTask(viewed.page) => viewed.whole
=============================================================================
