--------------------------- MODULE MCBlockChannel ----------------------------
(***************************************************************************)
(* The block channel with a chain of three blocks and a cache for two of   *)
(* them, and the hash links of a fork.  The initial state says which of    *)
(* the two a behaviour is about; the other keeps its initial state.        *)
(***************************************************************************)
EXTENDS BlockChannel

CONSTANTS b1, b2, b3, c2

VARIABLE part

mcVars == <<part, vars, fork>>

MCPrev == [b \in Blocks |-> CASE b = b1 -> Origin [] b = b2 -> b1 [] b = b3 -> b2]
MCHeight == [b \in Blocks \cup {Origin} |->
               CASE b = Origin -> 0 [] b = b1 -> 1 [] b = b2 -> 2 [] b = b3 -> 3]
MCChainId == [b \in Blocks \cup {Origin} |-> 1]
MCRank == [b \in Blocks |-> CASE b = b1 -> 1 [] b = b2 -> 2 [] b = b3 -> 3]
MCSize == [b \in Blocks |-> IF b = b2 THEN 2 ELSE 1]

\* The same chain with a second block after the first one; peers answer
\* overlapping lists.
MCHashPrev == [b \in Hashes |->
    CASE b = Origin -> NoHash [] b = b1 -> Origin [] b \in {b2, c2} -> b1 [] b = b3 -> b2]
MCLists == {<<b3, b2>>, <<b2, b1, Origin>>, <<c2, b1>>, <<b1, Origin>>}

MCInit == part \in {"channel", "links"} /\ Init /\ ForkInit

MCNext ==
    /\ UNCHANGED part
    /\ \/ part = "channel" /\ Next /\ UNCHANGED fork
       \/ part = "links" /\ ForkNext /\ UNCHANGED vars

MCSpec == MCInit /\ [][MCNext]_mcVars /\ Fairness
===============================================================================
