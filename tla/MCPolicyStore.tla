---------------------------- MODULE MCPolicyStore ----------------------------
(* PolicyStore on a small instance: one address with an address-wide key and   *)
(* one endpoint's key, two writes, lifetimes shorter and longer than the       *)
(* cache's age.                                                                *)
EXTENDS PolicyStore

CONSTANTS a1, e1
MCTtl == {1, 3}
=============================================================================
