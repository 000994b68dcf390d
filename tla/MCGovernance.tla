----------------------------- MODULE MCGovernance ------------------------------
(* Governance with two voters, of whom one outweighs the other.              *)
EXTENDS Governance

MCPower == [u \in Voters |-> IF u = "ann" THEN 3 ELSE 2]
================================================================================
