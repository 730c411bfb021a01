------------------------------ MODULE MCVendor ------------------------------
(***************************************************************************)
(* Vendor for TLC: two kinds of goods and their prices.                    *)
(***************************************************************************)
EXTENDS Vendor, TLC

CONSTANTS k1, k2

Prices == (k1 :> 2) @@ (k2 :> 1)
=============================================================================
