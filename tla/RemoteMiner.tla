----------------------------- MODULE RemoteMiner -----------------------------
(***************************************************************************)
(* What a node knows of one other miner (RemoteMiner), as a value, and how *)
(* the answers of that miner change it:                                    *)
(*                                                                         *)
(*   state     MinerState                                                  *)
(*   height    mHeight: where the next headers are asked from              *)
(*   named     the miner's ID is known, and the tag has its name           *)
(*   attached  the tag is attached to the tree (mTag.mTree)                *)
(*                                                                         *)
(* The tags themselves are rows of the tree's database.  mRewind is left   *)
(* out: only MISSING_PARENT sets it, which checkAppend never returns.      *)
(***************************************************************************)
EXTENDS BlockTreeData, SequencesExt

CONSTANTS
  Foreign,     \* the genesis block of another network, which has no more blocks
  Refused,     \* blocks whose release or time does not fit their parent's
  None,        \* a tag without a cursor
  Batch        \* HEADER_BATCH_SIZE

ASSUME RemoteMinerAssumption ==
  /\ Foreign \notin Block
  /\ None \notin Block
  /\ Batch \in Nat \ {0}

MinerState == {"OFFLINE", "WAITING_FOR_INFO", "ONLINE", "WAITING_FOR_HEADERS", "ERROR"}

Unknown == [state |-> "OFFLINE", height |-> 0, named |-> FALSE, attached |-> FALSE]

IsOnline(r) == r.state \in {"ONLINE", "WAITING_FOR_HEADERS"}

Height(b) == Cardinality(Path(b)) - 1

(* *mTag: the block the tag stands on, if it is attached. *)
Cursor(r, row) == IF r.attached THEN row ELSE None

(* setError *)
SetError(r) == [r EXCEPT !.state = "ERROR", !.attached = FALSE]

(***************************************************************************)
(* A remote miner with its tag, in a tree, and how reading goes: on to the *)
(* next header, over, or aborted by an assertion.                          *)
(***************************************************************************)
Going == {"on", "over", "aborted"}

Reading(r, row, T, going) == [remote |-> r, row |-> row, tree |-> T, going |-> going]

(* An append that does not look for the parent. *)
AppendsAnywhere(T, b) == b \in T.nodes \/ b \notin Refused

(* checkAppend: ALREADY_EXISTS or APPEND_OK. *)
Appends(T, b) == b \in T.nodes \/ (b \notin Refused /\ Parent(b) \in T.nodes)

(***************************************************************************)
(* checkAppend reads the release of the parent before it asks whether the  *)
(* parent is there: the cursor of an unknown parent has no header, which   *)
(* getHeader asserts.                                                      *)
(***************************************************************************)
ReadsAbsentParent(T, b) == b \notin T.nodes /\ Parent(b) \notin T.nodes

(* A miner whose tag has been moved to b, but not the height to ask from. *)
ConnectedInPlace(r, b) == [r EXCEPT !.attached = TRUE]

(* A miner whose tag has been moved to b. *)
Connected(r, b) == [r EXCEPT !.attached = TRUE, !.height = Height(b)]

(***************************************************************************)
(* One header in processHeaders.  Only one that connects moves the tag and *)
(* lets the next be read.                                                  *)
(***************************************************************************)
ProcessHeader(s, b) ==
  LET r == s.remote
  IN  CASE s.going # "on" -> s
        [] s.going = "on" /\ b = Foreign -> Reading(SetError(r), s.row, s.tree, "over")
        [] s.going = "on" /\ b # Foreign /\ Appends(s.tree, b) ->
             Reading(Connected(r, b), b, AffirmHeader(s.tree, b), "on")
        [] s.going = "on" /\ b # Foreign /\ ReadsAbsentParent(s.tree, b) ->
             Reading(r, s.row, s.tree, "aborted")
        [] OTHER -> Reading(r, s.row, s.tree, "over")

ProcessHeaders(r, row, T, headers) ==
  LET after[i \in 0..Len(headers)] ==
        IF i = 0 THEN Reading(r, row, T, "on") ELSE ProcessHeader(after[i - 1], headers[i])
  IN  after[Len(headers)]

(* An answer to a request that was not waited for is not read. *)
HeadersAnswered(r, row, T, headers) ==
  IF r.state # "WAITING_FOR_HEADERS" THEN Reading(r, row, T, "over")
  ELSE LET s == ProcessHeaders(r, row, T, headers)
       IN  [s EXCEPT !.remote.state = "ONLINE"]

(* The first ID of a miner attaches its tag; the same ID again does not. *)
InfoAnswered(r, row, ours) ==
  LET named == IF r.named THEN r ELSE [r EXCEPT !.named = TRUE, !.attached = TRUE]
      at == Cursor(named, row)
  IN  CASE r.state # "WAITING_FOR_INFO" -> r
        [] r.state = "WAITING_FOR_INFO" /\ ~ours -> SetError(r)
        [] OTHER -> [named EXCEPT !.state = "ONLINE",
                                  !.height = IF at = None THEN @ ELSE Height(at)]

(* Any answer that is an error. *)
ErrorAnswered(r) == [r EXCEPT !.state = "OFFLINE"]

(* An update that counts the headers it asks for as read. *)
UpdatedAhead(r, heightLimit) ==
  CASE r.state = "OFFLINE" -> [r EXCEPT !.state = "WAITING_FOR_INFO"]
    [] r.state = "ONLINE" /\ r.height < heightLimit ->
         [r EXCEPT !.state = "WAITING_FOR_HEADERS", !.height = @ + Batch]
    [] OTHER -> r

(* update: what is asked of the miner next, if anything. *)
Updated(r, heightLimit) ==
  CASE r.state = "OFFLINE" -> [r EXCEPT !.state = "WAITING_FOR_INFO"]
    [] r.state = "ONLINE" /\ r.height < heightLimit -> [r EXCEPT !.state = "WAITING_FOR_HEADERS"]
    [] OTHER -> r

(***************************************************************************)
(* The headers a miner with the chain that ends in tip answers with        *)
(* (ConsensusBlockHeaderListHandler).                                      *)
(***************************************************************************)
HeadersFrom(tip, height) ==
  LET base == Min({height, Height(tip)})
      top == Min({base + Batch - 1, Height(tip)})
      at(h) == CHOOSE b \in Path(tip) : Height(b) = h
  IN  [i \in 1..(top - base + 1) |-> at(base + i - 1)]

=============================================================================
