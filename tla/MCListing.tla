-------------------------------- MODULE MCListing --------------------------------
(* Small instances of Listing for TLC.                                        *)
EXTENDS Listing

CONSTANTS v1beta2, v1beta1

(* opstreeVersions: two versions, the newer first.                            *)
TwoVersions == <<v1beta2, v1beta1>>

================================================================================
