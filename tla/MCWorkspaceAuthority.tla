------------------------ MODULE MCWorkspaceAuthority ------------------------
(* Small instances of WorkspaceAuthority for TLC. *)
EXTENDS WorkspaceAuthority, TLC

CONSTANTS n1, n2, h1, h2, l1

\* A handler on each of two nodes and the lease loop of the first.
Placement == h1 :> n1 @@ h2 :> n2 @@ l1 :> n1
=============================================================================
