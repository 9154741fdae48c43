-------------------------------- MODULE Sync --------------------------------
(***************************************************************************)
(* How a node learns the chains of other miners (Miner::step up to the     *)
(* choice of the best branch): remote miners, block searches, the search   *)
(* for more miners, and the messenger they all use, composed.              *)
(*                                                                         *)
(* The other miners answer in any order.  Their chains grow, they may move *)
(* to another branch or to another network, and fail to answer; the node   *)
(* may be restarted, and it may abort.                                     *)
(***************************************************************************)
EXTENDS MiningMessenger, BlockSearchPool, RemoteMiner

CONSTANTS
  Own,          \* addresses that lead back to this node
  Seeds,        \* addresses the node is started with
  Chain,        \* what the chain of another miner may end in
  Lookahead,    \* mConsensusLookaheadHeight
  Rank(_),      \* which of several branches is best: the subject of Mining
  Late,         \* whether a step may find threads that are not idle yet
  MaxFaults     \* bound on failed and cut answers, reorgs of other miners and restarts

ASSUME SyncAssumption ==
  /\ Own \cup Seeds \subseteq Url /\ IsFiniteSet(Url)
  /\ \A b \in Block : IsFiniteSet(Path(b))
  /\ Lookahead \in Nat /\ MaxFaults \in Nat
  /\ Late \in BOOLEAN
  /\ Chain \subseteq Block \cup {Foreign}

VARIABLES
  remote,     \* mRemoteMinersByURL
  completed,  \* mCompletedURLs
  tree,       \* mBlockTree
  tag,        \* the rows of the tags of the remote miners
  pool,       \* mBlockSearchPool
  searching,  \* mNetworkSearch
  best,       \* mBestBranchTag
  messenger,  \* mMessenger: requests on their way
  inbox,      \* mResponseQueue
  up,         \* whether the process of the node runs
  chain,      \* the chain every other miner is on
  moved,      \* the miners that have left the branch they were on
  faults      \* how much has gone wrong so far

node == <<remote, completed, tree, tag, pool, searching, best, up>>
world == <<chain, moved, faults>>
vars == <<node, messenger, inbox, world>>

Remotes == DOMAIN remote

Init ==
  /\ remote = [u \in Seeds |-> Unknown]
  /\ completed = Seeds
  /\ tree = GenesisTree
  /\ tag = [u \in Url |-> None]
  /\ pool = NoSearch
  /\ searching = FALSE
  /\ best = Genesis
  /\ messenger = NoRequests
  /\ inbox = <<>>
  /\ up = TRUE
  /\ chain \in [Url \ Own -> Chain]
  /\ moved = {}
  /\ faults = 0

-----------------------------------------------------------------------------
(* receiveResponses *)

(* The part of the node's state that answers change. *)
Before == [remote |-> remote, completed |-> completed, tree |-> tree, tag |-> tag,
           pool |-> pool, searching |-> searching]

(* What an answer means to the remote miner it is from. *)
Hears(n, u, a) ==
  LET r == n.remote[u]
      s == HeadersAnswered(r, n.tag[u], n.tree, a.headers)
  IN  CASE a.error -> [n EXCEPT !.remote[u] = ErrorAnswered(r)]
        [] ~a.error /\ a.request.kind = "info" ->
             [n EXCEPT !.remote[u] = InfoAnswered(r, n.tag[u], a.ours)]
        [] ~a.error /\ a.request.kind = "headers" ->
             [n EXCEPT !.remote[u] = s.remote, !.tag[u] = s.row, !.tree = s.tree]
        [] OTHER -> n

(* The answer to a block request reaches the tree, then the search. *)
HearsOfBlock(n, u, a) ==
  IF a.request.kind # "block" THEN n
  ELSE [n EXCEPT !.tree = IF a.found THEN StoreBlock(@, a.request.hash) ELSE @,
                 !.pool = UpdateBlockSearch(@, u, a.request.hash, a.found)]

(* A search for miners that is over only if it found some. *)
HearsOfMinersIfNew(n, a) ==
  LET new == a.urls \ n.completed
  IN  IF a.request.kind # "network" \/ new = {} THEN n
      ELSE [n EXCEPT !.searching = FALSE,
                     !.completed = @ \cup new,
                     !.remote = [u \in new \cup DOMAIN n.remote |->
                                   IF u \in new THEN Unknown ELSE n.remote[u]]]

(* affirmRemoteMiner, and the new RemoteMiner that the same step makes of it. *)
HearsOfMiners(n, a) ==
  LET new == a.urls \ n.completed
  IN  IF a.request.kind # "network" THEN n
      ELSE [n EXCEPT !.searching = FALSE,
                     !.completed = @ \cup new,
                     !.remote = [u \in new \cup DOMAIN n.remote |->
                                   IF u \in new THEN Unknown ELSE n.remote[u]]]

(***************************************************************************)
(* AbstractMiningMessengerClient_receiveResponse.  A remote miner that     *)
(* turns out to be this node is dropped; its address stays known.          *)
(***************************************************************************)
Receive(n, a) ==
  LET u == a.request.url
  IN  CASE u \notin DOMAIN n.remote -> n
        [] u \in DOMAIN n.remote /\ a.own ->
             [n EXCEPT !.remote = [v \in DOMAIN @ \ {u} |-> @[v]]]
        [] OTHER -> Hears(HearsOfMiners(HearsOfBlock(n, u, a), a), u, a)

(* receiveResponses: what the first k answers, in the order they came, make of the node. *)
Heard(k) ==
  LET after[i \in 0..k] ==
        IF i = 0 THEN {Before} ELSE { Receive(n, inbox[i]) : n \in after[i - 1] }
  IN  after[k]

Received == Heard(Len(inbox))

(* The headers that end the process: what ReadsAbsentParent says of one of them. *)
Aborts(n, a) ==
  LET u == a.request.url
  IN  /\ u \in DOMAIN n.remote /\ ~a.own /\ ~a.error /\ a.request.kind = "headers"
      /\ HeadersAnswered(n.remote[u], n.tag[u], n.tree, a.headers).going = "aborted"

AbortsAt(k) == \E n \in Heard(k - 1) : Aborts(n, inbox[k])

-----------------------------------------------------------------------------
(* A step. *)

(* The branch a tag stands on without the missing blocks at its end. *)
Trim(T, b) == CHOOSE c \in Path(b) \ T.missing :
                \A d \in Path(b) \ T.missing : d \in Path(c)

(* Where the ledger of a branch ends: with its last complete block. *)
LedgerOf(T, b) == CHOOSE c \in Path(b) \cap T.complete :
                    \A d \in Path(b) \cap T.complete : d \in Path(c)

(* The tree when the blocks of a sequence are set missing. *)
SetAllMissing(T, lost) ==
  LET after[i \in 0..Len(lost)] == IF i = 0 THEN T ELSE SetMissing(after[i - 1], lost[i])
  IN  after[Len(lost)]

(* updateRemoteMiners: the requests, in some order of the remote miners. *)
RequestsOf(remotes, limit) ==
  LET offline == { u \in DOMAIN remotes : remotes[u].state = "OFFLINE" }
      behind == { u \in DOMAIN remotes : /\ remotes[u].state = "ONLINE"
                                         /\ Updated(remotes[u], limit).state = "WAITING_FOR_HEADERS" }
  IN  SetToSeq({ InfoRequest(u) : u \in offline } \cup
               { HeadersRequest(u, remotes[u].height) : u \in behind })

(* The searches, the tree and the requests that the outcomes f leave. *)
AfterSearches(P, T, f) ==
  LET over == { b \in DOMAIN f : f[b].end # "no" }
      lost == SetToSeq({ b \in DOMAIN f : f[b].end = "missing" })
      going == { b \in DOMAIN f : f[b].end = "no" }
      search == [b \in Searched(P) |-> IF b \in going THEN f[b].search ELSE P.search[b]]
  IN  [pool |-> Erase([search |-> search, waiting |-> P.waiting], over),
       tree |-> SetAllMissing(T, lost),
       requests |-> SetToSeq(UNION { { BlockRequest(u, b) : u \in f[b].asked } : b \in going })]

(* BlockSearchPool::update: every active search goes on, in any way it may. *)
UpdateSearches(P, T, remotes, online) ==
  LET ends(b) == StepSearch(P.search[b], b, T, remotes, online)
  IN  { AfterSearches(P, T, f) :
          f \in { g \in [ActiveSearches(P) -> UNION { ends(b) : b \in ActiveSearches(P) }] :
                    \A b \in ActiveSearches(P) : g[b] \in ends(b) } }

(* updateBlockSearches: branches with missing blocks, and always the best. *)
Affirmed(P, T, tips) ==
  LET all == Append(tips, best)
      after[i \in 0..Len(all)] == IF i = 0 THEN P ELSE AffirmBranchSearch(after[i - 1], T, all[i])
  IN  after[Len(all)]

(* updateBestBranch: nothing else on offer is better. *)
IsBest(b, leaves) == b \in leaves /\ \A c \in leaves : Rank(c) <= Rank(b)

(***************************************************************************)
(* Miner::step: every answer is taken in, remote miners, block searches    *)
(* and the search for miners go on, a best branch is chosen, and then the  *)
(* requests go out.                                                        *)
(***************************************************************************)
Step ==
  /\ up /\ \A k \in DOMAIN inbox : ~AbortsAt(k)
  /\ \E n \in Received :
       LET online == { u \in DOMAIN n.remote : IsOnline(n.remote[u]) }
           limit == Height(LedgerOf(tree, best)) + 1 + Lookahead
           cursor(u) == Cursor(n.remote[u], n.tag[u])
           missing == SetToSeq({ cursor(u) : u \in online } \cap n.tree.missing)
           tips == ({best} \cup { cursor(u) : u \in online }) \ {None}
           polls == IF n.searching \/ online = {} THEN {<<>>}
                    ELSE { <<NetworkRequest(u)>> : u \in online }
       IN  /\ Late \/ messenger.leaving = 0
           /\ remote' = [u \in DOMAIN n.remote |-> Updated(n.remote[u], limit)]
           /\ completed' = n.completed
           /\ tag' = n.tag
           /\ inbox' = <<>>
           /\ \E P \in Activated(Affirmed(n.pool, n.tree, missing)), poll \in polls :
              \E after \in UpdateSearches(P, n.tree, DOMAIN n.remote, online) :
                /\ pool' = after.pool
                /\ tree' = after.tree
                /\ \E leaves \in { { Trim(after.tree, b) : b \in tips } } :
                     \E b \in leaves : IsBest(b, leaves) /\ best' = b
                /\ searching' = (n.searching \/ poll # <<>>)
                /\ \E requests \in {RequestsOf(n.remote, limit) \o after.requests \o poll} :
                     messenger' \in SendRequests(messenger, requests)
           /\ UNCHANGED <<up, world>>

-----------------------------------------------------------------------------
(* The threads of the messenger and the miners they talk to. *)

Answer(r, error, own, ours, headers, found, urls) ==
  [request |-> r, error |-> error, own |-> own, ours |-> ours,
   headers |-> headers, found |-> found, urls |-> urls]

Failed(r) == Answer(r, TRUE, FALSE, FALSE, <<>>, FALSE, {})

(***************************************************************************)
(* What the miner at the other end answers: headers from the height asked  *)
(* for on, and the block that was asked for or none.                       *)
(***************************************************************************)
Answers(r) ==
  LET tip == chain[r.url]
  IN  CASE r.kind = "info" /\ r.url \in Own -> { Answer(r, FALSE, TRUE, TRUE, <<>>, FALSE, {}) }
        [] r.kind = "info" /\ r.url \notin Own ->
             { Answer(r, FALSE, FALSE, tip # Foreign, <<>>, FALSE, {}) }
        [] r.kind = "headers" ->
             { Answer(r, FALSE, FALSE, FALSE, IF tip = Foreign THEN <<Foreign>> ELSE HeadersFrom(tip, r.height), FALSE, {}) }
        [] r.kind = "block" ->
             { Answer(r, FALSE, FALSE, FALSE, <<>>, tip # Foreign /\ r.hash \in Path(tip), {}) }
        [] OTHER -> { Answer(r, FALSE, FALSE, FALSE, <<>>, FALSE, Url) }

(* A thread ends its request with an answer. *)
Finish(r) ==
  /\ r \in DOMAIN messenger.running
  /\ \E a \in Answers(r) : inbox' = Append(inbox, a)
  /\ messenger' \in CompleteRequest(messenger, r)
  /\ UNCHANGED <<node, world>>

Fault == faults < MaxFaults /\ faults' = faults + 1

(***************************************************************************)
(* Headers that are not read to their end: from one on they are missing,   *)
(* or from the future by the clock of the node.                            *)
(***************************************************************************)
Cut(a) == { [a EXCEPT !.headers = SubSeq(@, 1, k)] : k \in 0..(Len(a.headers) - 1) }

(* A thread ends its request with an error, after a timeout, or with headers cut short. *)
Fail(r) ==
  /\ r \in DOMAIN messenger.running
  /\ Fault
  /\ \E a \in {Failed(r)} \cup (IF r.kind = "headers" THEN UNION { Cut(b) : b \in Answers(r) } ELSE {}) :
       inbox' = Append(inbox, a)
  /\ messenger' \in CompleteRequest(messenger, r)
  /\ UNCHANGED <<node, chain, moved>>

Idle ==
  /\ messenger.leaving > 0
  /\ messenger' = ThreadIdle(messenger)
  /\ UNCHANGED <<node, inbox, world>>

(* Whether a chain that ends in b goes on from c. *)
GoesOnFrom(b, c) == b # Foreign /\ c \in Path(b)

(* Another miner extends its chain. *)
Grow(u, b) ==
  /\ b # chain[u] /\ GoesOnFrom(b, chain[u])
  /\ chain' = [chain EXCEPT ![u] = b]
  /\ UNCHANGED <<node, messenger, inbox, moved, faults>>

(* Another miner moves to another branch, or to another network. *)
Reorg(u, b) ==
  /\ Fault
  /\ b # chain[u] /\ ~GoesOnFrom(b, chain[u])
  /\ chain' = [chain EXCEPT ![u] = b]
  /\ moved' = moved \cup {u}
  /\ UNCHANGED <<node, messenger, inbox>>

(***************************************************************************)
(* What the process ends with: the tree and its tags are in SQLite, the    *)
(* ledger with its last complete block too, the known addresses in         *)
(* miners.json (unless the end left it unreadable), and the rest is gone,  *)
(* the answers to what had been asked with it.                             *)
(***************************************************************************)
Forget ==
  /\ \E known \in {Seeds, Seeds \cup Remotes} :
       remote' = [u \in known |-> Unknown] /\ completed' = known
  /\ pool' = NoSearch
  /\ searching' = FALSE
  /\ messenger' = NoRequests
  /\ inbox' = <<>>
  /\ best' = LedgerOf(tree, best)

(* A crash and restart. *)
Restart ==
  /\ up /\ Fault
  /\ Forget
  /\ UNCHANGED <<tree, tag, up, chain, moved>>

(***************************************************************************)
(* A step that reads a header without a known parent ends the process.     *)
(* What the answers before it, and the headers before it, have brought is  *)
(* in the tree.                                                            *)
(***************************************************************************)
Abort ==
  /\ up
  /\ \E k \in DOMAIN inbox :
       /\ AbortsAt(k) /\ \A i \in 1..(k - 1) : ~AbortsAt(i)
       /\ \E n \in Heard(k - 1) :
            tree' = Receive(n, inbox[k]).tree /\ tag' = Receive(n, inbox[k]).tag
  /\ up' = FALSE
  /\ Forget
  /\ UNCHANGED world

(* The node is started again. *)
StartAgain ==
  /\ ~up
  /\ up' = TRUE
  /\ UNCHANGED <<remote, completed, tree, tag, pool, searching, best, messenger, inbox, world>>

Request ==
  [kind : {"info", "network"}, url : Url] \cup
  [kind : {"headers"}, url : Url, height : { Height(b) : b \in Block }] \cup
  [kind : {"block"}, url : Url, hash : Block]

Next ==
  \/ Step
  \/ \E r \in Request : Finish(r) \/ Fail(r)
  \/ Idle
  \/ \E u \in Url \ Own, b \in Chain : Grow(u, b) \/ Reorg(u, b)
  \/ Restart
  \/ Abort
  \/ StartAgain

(***************************************************************************)
(* Steps follow each other, whatever they read, and a request always comes *)
(* to an end.  Nothing has to start a node that has aborted again.         *)
(***************************************************************************)
Fairness ==
  /\ WF_vars(Step \/ Abort)
  /\ WF_vars(Idle)
  /\ \A r \in Request : WF_vars(Finish(r))

Spec == Init /\ [][Next]_vars /\ Fairness

-----------------------------------------------------------------------------
(* Properties *)

(* What the node knows of a miner, of the answers it gets, and of a search. *)
RemoteState == [state : MinerState, height : { Height(b) : b \in Block },
                named : BOOLEAN, attached : BOOLEAN]

Response == [request : Request, error : BOOLEAN, own : BOOLEAN, ours : BOOLEAN,
             headers : Seq(Block \cup {Foreign}), found : BOOLEAN, urls : SUBSET Url]

SearchState == [active : SUBSET Url, completed : SUBSET Url, retries : 0..MaxRetries]

(* A pool that searches for nothing but blocks of a tree. *)
PoolOK(P, T) ==
  /\ P = [search |-> P.search, waiting |-> P.waiting]
  /\ P.search \in [Searched(P) -> SearchState]
  /\ Searched(P) \subseteq T.nodes /\ P.waiting \subseteq Searched(P)

(* A messenger with no more at work than it has threads. *)
MessengerOK(m) ==
  /\ m = [pending |-> m.pending, running |-> m.running, leaving |-> m.leaving]
  /\ m.pending \in [Kind -> Seq(Request)]
  /\ \A k \in Kind : \A r \in ToSet(m.pending[k]) : r.kind = k
  /\ DOMAIN m.running \subseteq Request /\ m.running \in [DOMAIN m.running -> Nat \ {0}]
  /\ m.leaving \in Nat /\ TotalActive(m) + m.leaving <= Threads

(* Every part of the node's state has its kind; tags and searches name known blocks. *)
TypeOK ==
  /\ Seeds \subseteq completed /\ Remotes \subseteq completed /\ completed \subseteq Url
  /\ remote \in [Remotes -> RemoteState]
  /\ WellFormed(tree)
  /\ best \in tree.nodes
  /\ tag \in [Url -> tree.nodes \cup {None}]
  /\ PoolOK(pool, tree)
  /\ searching \in BOOLEAN
  /\ MessengerOK(messenger)
  /\ inbox \in Seq(Response)
  /\ up \in BOOLEAN /\ moved \subseteq Url \ Own
  /\ chain \in [Url \ Own -> Chain] /\ faults \in 0..MaxFaults

Seen == { inbox[i].request : i \in DOMAIN inbox }
InFlight == Unanswered(messenger) \cup Seen

(***************************************************************************)
(* Whoever waits for an answer has a request under way.  The states        *)
(* WAITING_FOR_INFO and WAITING_FOR_HEADERS of a remote miner and the flag *)
(* mNetworkSearch are left only by an answer: a request that is dropped,   *)
(* or an answer that is passed over, would silence them for good.          *)
(***************************************************************************)
NobodyWaitsInVain ==
  /\ \A u \in Remotes :
       /\ remote[u].state = "WAITING_FOR_INFO" => InfoRequest(u) \in InFlight
       /\ remote[u].state = "WAITING_FOR_HEADERS" =>
            \E r \in InFlight : r.kind = "headers" /\ r.url = u
  /\ searching => \E r \in InFlight : r.kind = "network" /\ r.url \in Remotes

(* How many copies of a request are on their way, there or back. *)
Copies(r) == TimesAsked(messenger, r) + Cardinality({ i \in DOMAIN inbox : inbox[i].request = r })

(***************************************************************************)
(* The miners a search holds for asked are exactly those a request for its *)
(* block is under way to, one to each.  BlockSearch::step asserts one half *)
(* of it when an answer arrives; a request too many would make a late      *)
(* answer end in that assertion, one too few would keep the search for     *)
(* ever.  Searches may end and start again while requests are under way.   *)
(***************************************************************************)
SearchesMatchRequests ==
  \A b \in Searched(pool), u \in Url :
    Copies(BlockRequest(u, b)) = IF u \in pool.search[b].active THEN 1 ELSE 0

(* The answers on hand in which a miner does not have the block. *)
AnsweredWithout(b) == { u \in Url : \E i \in DOMAIN inbox :
                          inbox[i].request = BlockRequest(u, b) /\ ~inbox[i].found }

(***************************************************************************)
(* A block that is given up as missing was asked for, in vain and once     *)
(* again, from every miner that is online when it is given up, or it lies  *)
(* above one that was.  With nobody online, nobody has to be asked.        *)
(***************************************************************************)
GivesUpForAReason ==
  [][ LET online == { u \in DOMAIN remote' : IsOnline(remote'[u]) }
          GivenUp(a) == /\ a \in Searched(pool)
                        /\ pool.search[a].retries = MaxRetries
                        /\ online \subseteq pool.search[a].completed \cup AnsweredWithout(a)
      IN  \A b \in tree'.missing \ tree.missing :
            online = {} \/ \E a \in Path(b) : GivenUp(a) \/ a \in tree.missing ]_vars

(***************************************************************************)
(* BlockTreeCursor.cpp:80: "assert ( this->mHeader );" The node is not     *)
(* ended by the headers of another miner.                                  *)
(***************************************************************************)
NeverAborts == up

(***************************************************************************)
(* The assertion only fails on a miner that has left its branch: as long   *)
(* as the others' chains just grow, every header read stands on a known    *)
(* one, however answers are lost, cut short, late or read twice, whatever  *)
(* is refused, and across restarts, which read tags and heights anew.      *)
(***************************************************************************)
AbortsOnlyOnReorg == ~up => moved # {}

(***************************************************************************)
(* While the node stays up, its view of every other miner ends up at the   *)
(* tip of that miner's chain, however often requests fail, and also after  *)
(* a change of branch that does not end the process.  It may stop earlier  *)
(* only where the headers are as far ahead of the ledger as                *)
(* mConsensusLookaheadHeight lets them be.                                 *)
(***************************************************************************)
CaughtUp ==
  <>[]up =>
    \A u \in Url \ Own :
      <>[](u \in Remotes /\ (chain[u] = Foreign \/ remote[u].state = "ERROR"
             \/ Cursor(remote[u], tag[u]) = chain[u]
             \/ remote[u].height >= Height(LedgerOf(tree, best)) + 1 + Lookahead))

(***************************************************************************)
(* While the node stays up, the bodies of the best branch are obtained in  *)
(* the end, or the branch is given up for one whose bodies are: searches   *)
(* neither stall nor give up and take up the same branch for ever.         *)
(***************************************************************************)
BestBecomesComplete == <>[]up => <>[](best \in tree.complete)

=============================================================================
