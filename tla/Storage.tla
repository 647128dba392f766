------------------------------- MODULE Storage -------------------------------
(***************************************************************************)
(* One object, put and fetched through the 0G Storage adapter               *)
(* (packages/storage-adapter) and served by the two routes that prove it    *)
(* first (services/verified-object.ts, routes/reports.ts, artifacts.ts).    *)
(*                                                                         *)
(* The calls of a process overlap.  The SDK they share prints to the        *)
(* console, which is swapped while it works, and it may hang: a call gives  *)
(* up on it at a deadline, and leaves it running.                           *)
(***************************************************************************)
EXTENDS Integers

CONSTANTS
  Calls,
  Attempts,     \* of withRetry
  Real,         \* the process's own console
  MaxCrashes

ASSUME StorageAssumption ==
  /\ Attempts \in Nat \ {0} /\ MaxCrashes \in Nat
  /\ Real \notin Calls \X (1..Attempts)

VARIABLES
  files,         \* the object's file in the local store: "none", "torn" or "whole"
  network,      \* whether the network holds the object
  rootKnown,    \* roots: whether the process remembers the object's merkle root
  indexed,      \* the copy in the artifact index: "none", "right" or "corrupt"
  call,         \* per call: operation, where it stands, what it has read, its answer
  work,         \* per attempt of a call: its SDK work, and the console that work saw
  console,      \* whose console.log is: Real, or the collector of a piece of work
  swapDepth,
  crashes

storeVars == <<files, network, rootKnown, indexed, call, work, console, swapDepth, crashes>>
objectVars == <<files, network, rootKnown, indexed, crashes>>
consoleVars == <<work, console, swapDepth>>

CallWorks == Calls \X (1..Attempts)
Request(op, at, pointer, cached) ==
  [op |-> op, at |-> at, attempt |-> 1, pointer |-> pointer, cached |-> cached, answer |-> "none"]
CallIdle == Request("none", "idle", "none", "none")
NoWork == [at |-> "off", saw |-> Real]

StoreInit ==
  /\ files = "none" /\ network = FALSE /\ rootKnown = FALSE /\ indexed = "none"
  /\ call = [c \in Calls |-> CallIdle]
  /\ work = [w \in CallWorks |-> NoWork] /\ console = Real /\ swapDepth = 0
  /\ crashes = 0

Goes(c, at) == call' = [call EXCEPT ![c].at = at]
Answers(c, answer) == call' = [call EXCEPT ![c].at = "over", ![c].answer = answer]

-----------------------------------------------------------------------------
(* Only the outermost of the calls that overlap swaps the console.            *)
EnterQuietly(w) ==
  IF swapDepth > 0
  THEN /\ swapDepth' = swapDepth + 1 /\ UNCHANGED console
       /\ work' = [work EXCEPT ![w].at = "inner"]
  ELSE /\ swapDepth' = 1 /\ console' = w
       /\ work' = [work EXCEPT ![w] = [at |-> "outer", saw |-> console]]

LeaveQuietly(w) ==
  /\ work' = [work EXCEPT ![w] = NoWork]
  /\ IF work[w].at = "outer"
     THEN swapDepth' = 0 /\ console' = work[w].saw
     ELSE swapDepth' = swapDepth - 1 /\ UNCHANGED console

Sdk(c) == <<c, call[c].attempt>>

(* withRetry: the next attempt, until there is none.                          *)
Retries(c, exhausted) ==
  IF call[c].attempt < Attempts
  THEN call' = [call EXCEPT ![c].at = "attempt", ![c].attempt = @ + 1]
  ELSE exhausted

GivesUp(c) ==
  Retries(c, IF call[c].op = "put" THEN Answers(c, "upload_failed") ELSE Goes(c, "gateway"))

StartSdk(c) ==
  /\ call[c].at = "attempt"
  /\ EnterQuietly(Sdk(c)) /\ Goes(c, "sdk")
  /\ UNCHANGED objectVars

(* An upload fails, or a download throws.                                     *)
SdkFails(c) ==
  /\ call[c].at = "sdk"
  /\ LeaveQuietly(Sdk(c)) /\ GivesUp(c)
  /\ UNCHANGED objectVars

(* Mutant: nothing races the SDK.                                             *)
Deadline_None(c) == FALSE /\ UNCHANGED storeVars

(* withDeadline: the race is lost, and the work goes on.                      *)
Deadline(c) ==
  /\ call[c].at = "sdk"
  /\ GivesUp(c)
  /\ UNCHANGED <<objectVars, consoleVars>>

(* Work nobody waits for returns; an upload may still have gone through.      *)
LateReturn(w) ==
  /\ work[w].at # "off"
  /\ ~(call[w[1]].at = "sdk" /\ call[w[1]].attempt = w[2])
  /\ LeaveQuietly(w)
  /\ network' \in {network, network \/ call[w[1]].op = "put"}
  /\ UNCHANGED <<files, rootKnown, indexed, call, crashes>>

-----------------------------------------------------------------------------
(* A slot is used again when no work of its last call is left.                *)
Vacant(c) == call[c].at \in {"idle", "over"} /\ \A a \in 1..Attempts : work[<<c, a>>].at = "off"

Put(c) ==
  /\ Vacant(c)
  /\ call' = [call EXCEPT ![c] = Request("put", "stat", "none", "none")]
  /\ UNCHANGED <<objectVars, consoleVars>>

Uploads(c) == IF rootKnown THEN Answers(c, "stored") ELSE Goes(c, "attempt")

(* The local mirror first: a file that is there is taken for the object.      *)
Stat(c) ==
  /\ call[c].at = "stat"
  /\ IF files = "none" THEN Goes(c, "write") ELSE Uploads(c)
  /\ UNCHANGED <<objectVars, consoleVars>>

OpenFile(c) ==
  /\ call[c].at = "write"
  /\ files' = "torn" /\ Goes(c, "writing")
  /\ UNCHANGED <<network, rootKnown, indexed, crashes, consoleVars>>

WriteFile(c) ==
  /\ call[c].at = "writing"
  /\ files' = "whole" /\ Uploads(c)
  /\ UNCHANGED <<network, rootKnown, indexed, crashes, consoleVars>>

Uploaded(c) ==
  /\ call[c].at = "sdk" /\ call[c].op = "put"
  /\ LeaveQuietly(Sdk(c)) /\ Answers(c, "stored")
  /\ network' = TRUE /\ rootKnown' = TRUE
  /\ UNCHANGED <<files, indexed, crashes>>

-----------------------------------------------------------------------------
(* A route: the pointer is a hint the chain published, and may be another's.  *)
RequestObject(c, pointer) ==
  /\ Vacant(c)
  /\ call' = [call EXCEPT ![c] =
       IF pointer = "none" /\ indexed = "none"
       THEN [Request("get", "over", pointer, indexed) EXCEPT !.answer = "not_found"]
       ELSE Request("get", IF pointer = "none" THEN "local" ELSE "attempt", pointer, indexed)]
  /\ UNCHANGED <<objectVars, consoleVars>>

(* fetchVerifiedObject: bytes are hashed; a mismatch is a verdict, a failure  *)
(* falls back to the indexed copy, which is hashed again.                     *)
VerifiedObject(c, right) == Answers(c, IF right THEN "storage" ELSE "mismatch")

Degraded(c) ==
  Answers(c, CASE call[c].cached = "none" -> "unavailable"
               [] call[c].cached = "corrupt" -> "mismatch"
               [] call[c].cached = "right" -> "copy")

Reachable(c) == call[c].pointer = "other" \/ network

Downloaded(c) ==
  /\ call[c].at = "sdk" /\ call[c].op = "get" /\ Reachable(c)
  /\ LeaveQuietly(Sdk(c))
  /\ VerifiedObject(c, call[c].pointer = "0g")
  /\ UNCHANGED objectVars

(* A download that hands its error back instead of throwing it is not tried   *)
(* again, and nor is an object above the cap.                                 *)
DownloadRefused(c) ==
  /\ call[c].at = "sdk" /\ call[c].op = "get"
  /\ LeaveQuietly(Sdk(c)) /\ Goes(c, "gateway")
  /\ UNCHANGED objectVars

DownloadFromGateway(c) ==
  /\ call[c].at = "gateway"
  /\ \/ Reachable(c) /\ VerifiedObject(c, call[c].pointer = "0g")
     \/ Goes(c, "by_root")
  /\ UNCHANGED <<objectVars, consoleVars>>

LocalGet(c) == IF files = "none" THEN Degraded(c) ELSE VerifiedObject(c, files = "whole")

CacheByRoot(c) ==
  /\ call[c].at = "by_root"
  /\ IF rootKnown /\ call[c].pointer = "0g" THEN LocalGet(c) ELSE Degraded(c)
  /\ UNCHANGED <<objectVars, consoleVars>>

ReadLocal(c) ==
  /\ call[c].at = "local"
  /\ LocalGet(c)
  /\ UNCHANGED <<objectVars, consoleVars>>

-----------------------------------------------------------------------------
(* The artifact sync keeps a copy it proved; a row may rot since.             *)
IndexCopy ==
  /\ indexed' = (CASE indexed = "none" -> "right" [] OTHER -> "corrupt")
  /\ indexed # "corrupt"
  /\ UNCHANGED <<files, network, rootKnown, call, crashes, consoleVars>>

CrashStore ==
  /\ crashes < MaxCrashes /\ crashes' = crashes + 1
  /\ rootKnown' = FALSE
  /\ call' = [c \in Calls |-> CallIdle]
  /\ work' = [w \in CallWorks |-> NoWork] /\ console' = Real /\ swapDepth' = 0
  /\ UNCHANGED <<files, network, indexed>>

CallStep(c) ==
  \/ Stat(c) \/ OpenFile(c) \/ WriteFile(c) \/ StartSdk(c)
  \/ SdkFails(c) \/ Deadline(c) \/ Uploaded(c)
  \/ Downloaded(c) \/ DownloadRefused(c) \/ DownloadFromGateway(c) \/ CacheByRoot(c) \/ ReadLocal(c)

StoreNext ==
  \/ \E c \in Calls : Put(c) \/ CallStep(c)
  \/ \E c \in Calls, pointer \in {"0g", "other", "none"} : RequestObject(c, pointer)
  \/ \E w \in CallWorks : LateReturn(w)
  \/ IndexCopy \/ CrashStore

StoreSpec == StoreInit /\ [][StoreNext]_storeVars

(* What the process does by itself.  Nothing says that the SDK returns.       *)
Proceeds(c) ==
  \/ Stat(c) \/ OpenFile(c) \/ WriteFile(c) \/ StartSdk(c) \/ Deadline(c)
  \/ DownloadFromGateway(c) \/ CacheByRoot(c) \/ ReadLocal(c)

-----------------------------------------------------------------------------
(* withDeadline: the SDK "has no timeout of its own and its finality wait is  *)
(* an unbounded loop"; still every put and every request comes to an answer.  *)
EveryCallEnds == \A c \in Calls : call[c].at # "idle" ~> call[c].at \in {"idle", "over"}

(* The comment of `quietly`: "Only the outermost call swaps; the inner ones   *)
(* share its capture", so that "nested calls do not restore each other's".    *)
(* When no SDK work is left the console is the process's own.                 *)
ConsoleComesBack == (\A w \in CallWorks : work[w].at = "off") => console = Real
=============================================================================
