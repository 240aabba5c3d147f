------------------------------ MODULE MCSdHost ------------------------------
(***************************************************************************)
(* SdHost with one card of every kind that the driver treats in its own    *)
(* way, transfers of one and two blocks, and two card addresses, so that   *)
(* an address kept from an earlier identification differs from the new.    *)
(***************************************************************************)
EXTENDS SdHost
=============================================================================
