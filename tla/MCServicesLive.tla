-------------------------- MODULE MCServicesLive --------------------------
(* Instances for TLC of the parts that go on by themselves: the loops, and *)
(* the requests somebody waits for.  As in MCServices a behaviour is that  *)
(* of one part, and each part brings the fairness of its own module, for   *)
(* the behaviours in which it is the one that moves.                       *)
EXTENDS JobQueue, VerifierWorker, MCIdempotency, Storage, Directory, Earnings, Keeper

CONSTANTS k1, k2, w1, w2   \* jobs, and workers of the queue

VARIABLE part

Parts == {"queue", "worker", "idempotency", "storage", "directory", "earnings", "keeper"}

-----------------------------------------------------------------------------
(* Two rounds to close, one of them later, a consensus and a dispute.      *)
MCStageOf == <<"Revealing", "Revealing", "Consensus", "Disputed">>
MCDueAt == <<0, 1, 0, 0>>

-----------------------------------------------------------------------------
LiveInit ==
  /\ part \in Parts
  /\ Init /\ WorkerInit /\ IdemInit /\ StoreInit /\ DirectoryInit /\ EarnInit /\ KeeperInit
  /\ part # "worker" => approved
  /\ part # "keeper" => keeper.at = "disabled"

(* All parts but p rest. *)
Rest(p) ==
  /\ UNCHANGED part
  /\ p # "queue" => UNCHANGED queueVars
  /\ p # "worker" => UNCHANGED workerVars
  /\ p # "idempotency" => UNCHANGED idemVars
  /\ p # "storage" => UNCHANGED storeVars
  /\ p # "directory" => UNCHANGED directoryVars
  /\ p # "earnings" => UNCHANGED earnVars
  /\ p # "keeper" => UNCHANGED keeperVars

LiveNext ==
  \/ part = "queue" /\ Next /\ Rest("queue")
  \/ part = "worker" /\ WorkerNext /\ Rest("worker")
  \/ part = "idempotency" /\ IdemNext /\ Rest("idempotency")
  \/ part = "storage" /\ StoreNext /\ Rest("storage")
  \/ part = "directory" /\ DirectoryNext /\ Rest("directory")
  \/ part = "earnings" /\ EarnNext /\ Rest("earnings")
  \/ part = "keeper" /\ KeeperNext /\ Rest("keeper")

liveVars ==
  <<part, queueVars, workerVars, idemVars, storeVars, directoryVars, earnVars, keeperVars>>

-----------------------------------------------------------------------------
(* JobQueue!Fairness: a lease runs out, a worker reaps and reports, a      *)
(* claimable job is claimed.                                               *)
QueueFairness ==
  /\ \A key \in Keys : WF_queueVars(part = "queue" /\ LeaseRunsOut(key))
  /\ \A u \in Workers :
        /\ WF_queueVars(part = "queue" /\ Reap(u))
        /\ WF_queueVars(part = "queue" /\ \E key \in Keys :
              Complete(u, key) \/ \E retryable \in BOOLEAN : Fail(u, key, retryable))
  /\ \A key \in Keys :
        WF_queueVars(part = "queue" /\ \E u \in Workers, S \in SUBSET Keys :
                       key \in S /\ Claim(u, S))

(* VerifierWorker!WorkerFairness: the loop runs, the chain mines, time     *)
(* passes until the commit deadline.                                       *)
CommitterFairness ==
  /\ WF_workerVars(part = "worker" /\ WorksOn)
  /\ WF_workerVars(part = "worker" /\ \E tx \in mempool : Mine(tx))
  /\ WF_workerVars(part = "worker" /\ chainTime <= CommitDeadline /\ BlockTime)

(* A handler goes on, a client sends its question again, and time passes.  *)
ClientFairness ==
  /\ WF_idemVars(part = "idempotency" /\ TimePasses)
  /\ \A c \in Clients : WF_idemVars(part = "idempotency" /\ WithIdempotency(c))

(* A call goes on, were it only by its deadline.                           *)
CallFairness == \A c \in Calls : WF_storeVars(part = "storage" /\ Proceeds(c))

(* The worker's loop.                                                      *)
EarnerFairness == WF_earnVars(part = "earnings" /\ EarnerWorks)

(* The keeper's loop, the clock and the indexer.                           *)
KeepersFairness ==
  /\ WF_keeperVars(part = "keeper" /\ KeeperPasses)
  /\ WF_keeperVars(part = "keeper" /\ Minute)
  /\ \A t \in Overdue : WF_keeperVars(part = "keeper" /\ IndexRow(t))

LiveSpec ==
  /\ LiveInit /\ [][LiveNext]_liveVars
  /\ QueueFairness /\ CommitterFairness /\ ClientFairness /\ CallFairness
  /\ EarnerFairness /\ KeepersFairness
=============================================================================
