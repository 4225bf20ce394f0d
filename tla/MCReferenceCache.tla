--------------------------- MODULE MCReferenceCache ---------------------------
(* Instances of ReferenceCache for TLC: severity codes, which have descriptions, *)
(* categories, which are names, and stations.                                    *)
EXTENDS ReferenceCache

CONSTANTS good, planned, bank

MCMetadata == <<"severity_codes", "disruption_categories">>
MCKindOf == (good :> "severity_codes") @@ (planned :> "disruption_categories") @@ (bank :> "stations")
===============================================================================
