----------------------------- MODULE Addresses -----------------------------
(***************************************************************************)
(* What all contracts have in common: the addresses they store.            *)
(*                                                                         *)
(* An account sends calls, a key pair or a contract.  An agent signs and   *)
(* never sends: others submit for it.  A slot nobody has written, and an   *)
(* entry of a mapping that was never made, hold address(0); the contracts  *)
(* take it for "not registered", "no wallet" and "no guardian".            *)
(***************************************************************************)
EXTENDS Integers

CONSTANTS Account, Agent, ZeroAddress

ASSUME ZeroAddressAssumption == ZeroAddress \notin Account \cup Agent

\* A slot for an owner or a guardian.
Address == Account \cup {ZeroAddress}

\* A slot for an agent.
AgentAddress == Agent \cup {ZeroAddress}
=============================================================================
