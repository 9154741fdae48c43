--------------------------- MODULE BlockTreeSampler ---------------------------
(***************************************************************************)
(* What most branches share (BlockTreeSampler): the leaves of a tree are   *)
(* merged downwards, height by height, until one node stands for more than *)
(* half of them.                                                           *)
(***************************************************************************)
EXTENDS BranchOrder, SequencesExt

(* A node and its mLeaves, as places among the leaves of the sampler; a     *)
(* node without leaves has been erased.                                     *)
SamplerNode(root, leaves) == [root |-> root, leaves |-> leaves]

Sampling(nodes, found) == [nodes |-> nodes, found |-> found]

(* Nodes behind the i-th that have the same root. *)
Twins(nodes, i) == { j \in DOMAIN nodes : j > i /\ nodes[j].leaves # {} /\ nodes[j].root = nodes[i].root }

(* A merge that erases the twins before their leaves are moved. *)
MergedLeavesLost(nodes, i) == nodes[i].leaves

(* The i-th node takes over their leaves. *)
MergedLeaves(nodes, i) == UNION { nodes[j].leaves : j \in {i} \cup Twins(nodes, i) }

(***************************************************************************)
(* One turn of the outer loop: a node at this height merges the equal ones *)
(* behind it, is the sample if it is large enough, and otherwise moves on  *)
(* to its parent.                                                          *)
(***************************************************************************)
Visit(s, i, height, minSize) ==
  LET node == s.nodes[i]
      leaves == MergedLeaves(s.nodes, i)
      twins == Twins(s.nodes, i)
      erased == [j \in DOMAIN s.nodes |->
                   IF j \in twins THEN SamplerNode(s.nodes[j].root, {}) ELSE s.nodes[j]]
      below == SamplerNode(IF height > 0 THEN Front(node.root) ELSE node.root, leaves)
  IN  IF s.found # {} \/ node.leaves = {} \/ Len(node.root) # height THEN s
      ELSE IF Cardinality(leaves) > minSize THEN Sampling(s.nodes, {node.root})
      ELSE Sampling([erased EXCEPT ![i] = below], {})

(* The outer loop at one height. *)
Pass(s, height, minSize) ==
  LET visited[i \in 0..Len(s.nodes)] ==
        IF i = 0 THEN s ELSE Visit(visited[i - 1], i, height, minSize)
  IN  visited[Len(s.nodes)]

(***************************************************************************)
(* sample: from the greatest height down.  Nothing is found if the loop    *)
(* ends at the genesis block, where the code asserts that it does not.     *)
(***************************************************************************)
Sample(leaves) ==
  LET top == Max({ Len(leaves[i]) : i \in DOMAIN leaves })
      start == Sampling([i \in DOMAIN leaves |-> SamplerNode(leaves[i], {i})], {})
      passed[k \in 0..(top + 1)] ==
        IF k = 0 THEN start ELSE Pass(passed[k - 1], top + 1 - k, Len(leaves) \div 2)
  IN  passed[top + 1].found

=============================================================================
