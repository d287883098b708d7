----------------------------- MODULE MCNotifier -----------------------------
(***************************************************************************)
(* Two monitors of two tenants, of which only the first has alert          *)
(* channels: the second tenant's incidents have nobody to go to.           *)
(***************************************************************************)
EXTENDS Notifier, TLC

CONSTANTS m1, m2, t1, t2

MCTenantOf == m1 :> t1 @@ m2 :> t2
MCOwnerOf == [c \in Channels |-> t1]
=============================================================================
