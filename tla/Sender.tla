-------------------------------- MODULE Sender --------------------------------
(***************************************************************************)
(* The chain client as more than one loop of a process uses it with one key  *)
(* (packages/chain-client/src/client.ts): the read before a call, with its   *)
(* retries; the fees, the estimate and the simulation; the nonce; the        *)
(* broadcast; and the wait for a receipt the node may not have yet.          *)
(*                                                                         *)
(* Every loop makes the same call, which only one of them can make: whoever  *)
(* comes second reverts.  Settlement has what the callers do with the answer. *)
(***************************************************************************)
EXTENDS Integers, FiniteSets, FiniteSetsExt, Functions

CONSTANTS
  Senders,        \* the loops that share the key
  ReadAttempts, \* of withRetry
  MIN_PRIORITY_FEE,
  SuggestedTips,   \* what the node may suggest, 0 when it does not answer
  MaxBlips,     \* bound: calls of the node that fail
  MaxSends      \* bound: sends of a loop

ASSUME SenderAssumption ==
  /\ ReadAttempts \in Nat \ {0} /\ MIN_PRIORITY_FEE \in Nat
  /\ SuggestedTips \subseteq Nat /\ MaxBlips \in Nat /\ MaxSends \in Nat

VARIABLES
  outgoing,  \* per loop: where its send is, its nonce, tip and tries
  sends,     \* per loop: sends begun
  given,     \* the last nonce the nonce manager gave
  mempool,   \* nonce -> [loop, tip]: what the node has and has not mined
  minedTxs,  \* per mined nonce: [loop, ok]
  blips

senderVars == <<outgoing, sends, given, mempool, minedTxs, blips>>
node == <<mempool, minedTxs>>

NoSend == [at |-> "idle", nonce |-> 0, tip |-> 0, tries |-> 0]

SenderInit ==
  /\ outgoing = [l \in Senders |-> NoSend] /\ sends = [l \in Senders |-> 0]
  /\ given = 0 /\ mempool = <<>> /\ minedTxs = <<>> /\ blips = 0

SendIs(l, send) == outgoing' = [outgoing EXCEPT ![l] = send]
Blip == blips < MaxBlips /\ blips' = blips + 1
PendingTx == Cardinality(DOMAIN minedTxs) + Cardinality(DOMAIN mempool)
Filed(table, n, entry) ==
  [x \in DOMAIN table \cup {n} |-> IF x = n THEN entry ELSE table[x]]
Done == \E n \in DOMAIN minedTxs : minedTxs[n].ok

-----------------------------------------------------------------------------
StartSend(l) ==
  /\ outgoing[l].at \in {"idle", "unavailable", "refused"} /\ sends[l] < MaxSends
  /\ sends' = [sends EXCEPT ![l] = @ + 1] /\ SendIs(l, [NoSend EXCEPT !.at = "reading"])
  /\ UNCHANGED <<given, node, blips>>

(* read: a transport failure is tried again, and the last one is the answer.  *)
ReadContract(l) ==
  /\ outgoing[l].at = "reading"
  /\ \/ SendIs(l, [outgoing[l] EXCEPT !.at = "read"]) /\ UNCHANGED blips
     \/ /\ Blip
        /\ SendIs(l, [outgoing[l] EXCEPT !.tries = @ + 1,
                        !.at = IF @ = "reading" /\ outgoing[l].tries + 1 = ReadAttempts
                               THEN "unavailable" ELSE @])
  /\ UNCHANGED <<sends, given, node>>

(* feeOverrides: the tip of the node, and never less than its minimum.        *)
Tip(suggested) == Max({suggested, MIN_PRIORITY_FEE})

(* The estimate and the simulation, on the state there is; isRevert tells a   *)
(* rejected call from a node that did not answer.                             *)
Simulate(l) ==
  /\ outgoing[l].at = "read"
  /\ \/ /\ UNCHANGED blips
        /\ \E suggested \in SuggestedTips :
             SendIs(l, [outgoing[l] EXCEPT !.tip = Tip(suggested),
                                           !.at = IF Done THEN "reverted" ELSE "simulated"])
     \/ Blip /\ SendIs(l, [outgoing[l] EXCEPT !.at = "unavailable"])
  /\ UNCHANGED <<sends, given, node>>

(* Mutant: every call asks the node for its pending count. *)
NextNonce_PerCall == PendingTx + 1

(* "One key is shared by more than one loop": the nonce manager gives each    *)
(* number once, and none the node has seen.                                   *)
NextNonce == Max({given, PendingTx}) + 1

TakeNonce(l) ==
  /\ outgoing[l].at = "simulated"
  /\ SendIs(l, [outgoing[l] EXCEPT !.at = "signed", !.nonce = NextNonce])
  /\ given' = NextNonce /\ UNCHANGED <<sends, node, blips>>

(* The node refuses a low tip, and a nonce that is taken; isRevert has both    *)
(* for transport.  An answer that is lost says nothing of whether the          *)
(* transaction arrived.                                                      *)
Accepted(l) ==
  /\ outgoing[l].tip >= MIN_PRIORITY_FEE
  /\ outgoing[l].nonce \notin DOMAIN mempool \cup DOMAIN minedTxs

BroadcastTx(l) ==
  /\ outgoing[l].at = "signed"
  /\ \E arrives, answered \in BOOLEAN :
       /\ IF arrives /\ answered THEN UNCHANGED blips ELSE Blip
       /\ mempool' = IF arrives /\ Accepted(l)
                     THEN Filed(mempool, outgoing[l].nonce, [loop |-> l, tip |-> outgoing[l].tip])
                     ELSE mempool
       /\ SendIs(l, [outgoing[l] EXCEPT
            !.at = IF ~(arrives /\ answered) THEN "unavailable"
                   ELSE IF Accepted(l) THEN "waiting" ELSE "refused"])
  /\ UNCHANGED <<sends, given, minedTxs>>

(* Transactions of an account are mined in the order of their nonces.          *)
MineNext ==
  LET n == Cardinality(DOMAIN minedTxs) + 1 IN
  /\ n \in DOMAIN mempool
  /\ minedTxs' = Filed(minedTxs, n, [loop |-> mempool[n].loop, ok |-> ~Done])
  /\ mempool' = Restrict(mempool, DOMAIN mempool \ {n})
  /\ UNCHANGED <<outgoing, sends, given, blips>>

(* waitForReceipt: a receipt that is not found is waited for until the         *)
(* deadline.                                                                 *)
ReceiptFound(l) ==
  /\ outgoing[l].at = "waiting" /\ outgoing[l].nonce \in DOMAIN minedTxs
  /\ SendIs(l, [outgoing[l] EXCEPT !.at = IF minedTxs[outgoing[l].nonce].ok THEN "sent" ELSE "reverted"])
  /\ UNCHANGED <<sends, given, node, blips>>

ReceiptDeadline(l) ==
  /\ outgoing[l].at = "waiting" /\ SendIs(l, [outgoing[l] EXCEPT !.at = "unavailable"])
  /\ UNCHANGED <<sends, given, node, blips>>

SenderNext ==
  \/ MineNext
  \/ \E l \in Senders :
       \/ StartSend(l) \/ ReadContract(l) \/ Simulate(l) \/ TakeNonce(l) \/ BroadcastTx(l)
       \/ ReceiptFound(l) \/ ReceiptDeadline(l)

SenderSpec == SenderInit /\ [][SenderNext]_senderVars

-----------------------------------------------------------------------------
(* A loop's send is never refused for the nonce another loop of the process   *)
(* holds ("a settlement lost to a race with itself"), nor takes its receipt    *)
(* for its own.                                                              *)
NeverLostToItself ==
  \A l \in Senders :
    /\ outgoing[l].at # "refused"
    /\ (outgoing[l].at = "sent") => minedTxs[outgoing[l].nonce].loop = l
=============================================================================
