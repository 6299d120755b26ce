----------------------------- MODULE MCCatalog -----------------------------
(* Bounds for VideoCatalog. *)
EXTENDS VideoCatalog
CONSTANTS v1, v2, v3, v4
Videos3 == {v1, v2, v3}
Videos4 == {v1, v2, v3, v4}
=============================================================================
