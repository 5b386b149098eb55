----------------------------- MODULE MCTenantDb -----------------------------
(***************************************************************************)
(* Small instances of TenantDb: calls of two churches and a lookup of none  *)
(* that share the clients.                                                 *)
(***************************************************************************)
EXTENDS TenantDb

CONSTANTS a1, b1, churchA, churchB

MCChurchOf == [c \in Scoped |-> IF c = b1 THEN churchB ELSE churchA]
=============================================================================
