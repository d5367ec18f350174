--------------------------- MODULE MCHistoryDelivery ---------------------------
(* Instances of HistoryDelivery for TLC. *)
EXTENDS HistoryDelivery, TLC

\* Clients and requests are interchangeable.
DeliverySymmetry == Permutations(Clients) \cup Permutations(Requests)
================================================================================
