--------------------------- MODULE MCDeliveryStore ---------------------------
(* TLC instance of DeliveryStore: the tables under an arbitrary client. *)
EXTENDS DeliveryStore, TLC

MCMessages == 1 .. 2
MCInstants == {0}
MCProviderIds == {1}
=============================================================================
