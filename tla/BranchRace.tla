----------------------------- MODULE BranchRace -----------------------------
(***************************************************************************)
(* Two branches grow from the genesis block, in any order and at any pace  *)
(* the block delay allows, and are compared after every block.  The        *)
(* network decides charms: a miner has one charm above a given past, and   *)
(* different miners have different ones.                                   *)
(***************************************************************************)
EXTENDS BranchOrder

CONSTANTS
  Miners,      \* how many miners there are
  Delay,       \* getBlockDelayInSeconds
  MaxHeight,   \* bound on the height of a branch
  MaxTime      \* bound on the time of a block

ASSUME RaceAssumption ==
  Miners \in Nat \ {0} /\ Delay \in Nat /\ MaxHeight \in Nat /\ MaxTime \in Nat

(* Miners are identified with the charms they draw. *)
Miner == 0..(Miners - 1)

VARIABLES left, right

vars == <<left, right>>

Header == [by : Miner, at : 0..MaxTime, charm : Miner, provisional : {FALSE}]

TypeOK == left \in Seq(Header) /\ right \in Seq(Header)

Init == left = <<>> /\ right = <<>>

(***************************************************************************)
(* What getNextCharm gives miner m above block b: a permutation of the     *)
(* charms that turns with the height, so that no miner always wins.        *)
(***************************************************************************)
NextCharm(b, m) == (m + (Len(b) % 2)) % Miners

(* Blocks that may follow b: not before its block delay has passed. *)
NextBlocks(b) ==
  { Append(b, [by |-> m, at |-> t, charm |-> NextCharm(b, m), provisional |-> FALSE]) :
      m \in Miner, t \in (Time(b) + Delay)..MaxTime }

ExtendLeft ==
  /\ Len(left) < MaxHeight
  /\ left' \in NextBlocks(left)
  /\ UNCHANGED right

ExtendRight ==
  /\ Len(right) < MaxHeight
  /\ right' \in NextBlocks(right)
  /\ UNCHANGED left

Next == ExtendLeft \/ ExtendRight

Spec == Init /\ [][Next]_vars

-----------------------------------------------------------------------------

(***************************************************************************)
(* The two nodes that hold the branches in opposite roles agree: comparing *)
(* the other way round gives the opposite answer.                          *)
(***************************************************************************)
Antisymmetric == Compare(left, right) + Compare(right, left) = 0

(***************************************************************************)
(* Two different branches are only tied when one miner declared both       *)
(* blocks above the fork; branches of different miners always decide, with *)
(* no further block needed.                                                *)
(***************************************************************************)
TieMeansEquivocation ==
  Compare(left, right) = 0 /\ left # right =>
    LET root == RootHeight(left, right)
    IN  left[root + 1].by = right[root + 1].by

(***************************************************************************)
(* Rewriting old blocks takes blocks, not charm: a branch of n blocks      *)
(* above the fork never beats a longer one that spans n rewrite windows.   *)
(***************************************************************************)
RewritesCostBlocks ==
  LET root == RootHeight(left, right)
      n == Len(right) - root
  IN  /\ n > 0
      /\ Len(left) > Len(right)
      /\ Time(left) - left[root + 1].at >= n * Window
      => Compare(left, right) = -1

(***************************************************************************)
(* Extending the leader settles nothing against it: a branch that is ahead *)
(* and not the shorter one stays ahead when it alone grows, so the nodes   *)
(* that mine on what they hold to be best never drive it behind.  A shorter*)
(* leader has no such promise: its next block is one more to be scored.    *)
(***************************************************************************)
Leads(a, b) == Compare(a, b) = -1 /\ Len(a) >= Len(b)

LeadGrows ==
  [][ /\ Leads(left, right) /\ right' = right => Leads(left', right')
      /\ Leads(right, left) /\ left' = left => Leads(right', left') ]_vars

=============================================================================
