------------------------------- MODULE MCSdCard -------------------------------
(* Two cards with a volume, one of them in a partition, and one without.    *)
EXTENDS SdCard, TLC

CONSTANTS c1, c2, c3

MCLayout == (c1 :> "fat") @@ (c2 :> "mbr") @@ (c3 :> "blank")
=============================================================================
