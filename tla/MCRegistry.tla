----------------------------- MODULE MCRegistry -----------------------------
(* Small instances of Registry: two or three names, one of them one that    *)
(* cannot be registered.                                                    *)
EXTENDS Registry
CONSTANTS alice, bob, odd, k1, k2, cut
=============================================================================
