--------------------------- MODULE MiningMessenger ---------------------------
(***************************************************************************)
(* The requests a node makes of other miners (HTTPMiningMessenger) as a    *)
(* value: requests wait in one queue for each kind, a pool of threads      *)
(* carries them out, and the pool is only looked at when a request is      *)
(* added or one has been answered.                                         *)
(*                                                                         *)
(*   pending  the requests that wait, a queue for every kind               *)
(*   running  the requests that have a thread, a bag                       *)
(*   leaving  threads that gave their answer and are not idle yet          *)
(*                                                                         *)
(* Every choice of pumpQueues is random, so an operation gives the set of  *)
(* the messengers that may result.                                         *)
(***************************************************************************)
EXTENDS BlockTreeData, SequencesExt

CONSTANTS
  Url,      \* addresses of other miners
  Threads   \* capacity of mThreadPool

ASSUME MessengerAssumption == Threads \in Nat \ {0}

(* REQUEST_BLOCK, REQUEST_HEADERS, REQUEST_MINER_INFO, REQUEST_EXTEND_NETWORK *)
Kind == {"block", "headers", "info", "network"}

BlockRequest(u, b) == [kind |-> "block", url |-> u, hash |-> b]
HeadersRequest(u, h) == [kind |-> "headers", url |-> u, height |-> h]
InfoRequest(u) == [kind |-> "info", url |-> u]
NetworkRequest(u) == [kind |-> "network", url |-> u]

(* getQueueRawWeight: the share of the threads each kind is meant to have. *)
Weight(k) == CASE k = "block" -> 8 [] k = "headers" -> 6 [] OTHER -> 1
TotalWeight == 16

NoRequests == [pending |-> [k \in Kind |-> <<>>], running |-> EmptyBag, leaving |-> 0]

(* The tasks of the threads: a request and which of its copies. *)
Tasks(m) == UNION { {r} \X (1..m.running[r]) : r \in DOMAIN m.running }

(* mTotalActive, and the mActiveCount of one queue. *)
TotalActive(m) == Cardinality(Tasks(m))
ActiveCount(m, k) == Cardinality({ t \in Tasks(m) : t[1].kind = k })

(* mThreadPool.available () *)
AvailableThreads(m) == Threads - TotalActive(m) - m.leaving

Waiting(m) == { k \in Kind : m.pending[k] # <<>> }

(* sendRequest: the first request of each of the queues ks gets a thread. *)
Start(m, ks) ==
  [pending |-> [k \in Kind |-> IF k \in ks THEN Tail(m.pending[k]) ELSE m.pending[k]],
   running |-> m.running (+) SetToBag({ Head(m.pending[k]) : k \in ks }),
   leaving |-> m.leaving]

(***************************************************************************)
(* One round of pumpQueues: the queues that have less than their share of  *)
(* the threads, or else all that wait, are served once each, in random     *)
(* order, as long as threads are left.                                     *)
(***************************************************************************)
PumpRound(m) ==
  LET resources == TotalActive(m) + AvailableThreads(m)
      under == { k \in Waiting(m) : ActiveCount(m, k) * TotalWeight < Weight(k) * resources }
      queues == IF under # {} THEN under ELSE Waiting(m)
      served == Min({ AvailableThreads(m), Cardinality(queues) })
  IN  IF Waiting(m) = {} \/ AvailableThreads(m) = 0 THEN {m}
      ELSE { Start(m, ks) : ks \in kSubset(served, queues) }

(* pumpQueues: every round that can start a request starts one. *)
PumpQueues(m) ==
  LET after[i \in 0..Threads] == IF i = 0 THEN {m} ELSE UNION { PumpRound(n) : n \in after[i - 1] }
  IN  after[Threads]

(* AbstractMiningMessenger_sendRequest *)
SendRequest(m, r) == PumpQueues([m EXCEPT !.pending[r.kind] = Append(@, r)])

(* sendRequests: everything the step asked for, in the order it did. *)
SendRequests(m, requests) ==
  LET after[i \in 0..Len(requests)] ==
        IF i = 0 THEN {m} ELSE UNION { SendRequest(n, requests[i]) : n \in after[i - 1] }
  IN  after[Len(requests)]

(* completeRequest runs on the thread that carried the request out. *)
CompleteRequest(m, r) ==
  PumpQueues([pending |-> m.pending, running |-> m.running (-) SetToBag({r}),
              leaving |-> m.leaving + 1])

(* That thread becomes idle; nobody is told. *)
ThreadIdle(m) == [m EXCEPT !.leaving = @ - 1]

(* The requests that have not been answered. *)
Unanswered(m) == BagToSet(m.running) \cup UNION { ToSet(m.pending[k]) : k \in Kind }

(* How often a request is being carried out, and how often it waits. *)
TimesRunning(m, r) == IF r \in DOMAIN m.running THEN m.running[r] ELSE 0
TimesWaiting(m, r) == Cardinality({ i \in DOMAIN m.pending[r.kind] : m.pending[r.kind][i] = r })

(* How often a request has been made and not been answered. *)
TimesAsked(m, r) == TimesRunning(m, r) + TimesWaiting(m, r)

=============================================================================
