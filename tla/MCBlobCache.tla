----------------------------- MODULE MCBlobCache -----------------------------
(* BlobCache for TLC: a key with two contents of one length and a longer    *)
(* one, and a key with the longer one.                                       *)
EXTENDS BlobCache, TLC
CONSTANTS v1, v2, v3, k1, k2
MCSize == v1 :> 1 @@ v2 :> 1 @@ v3 :> 2
MCContents == k1 :> {v1, v2, v3} @@ k2 :> {v3}
=============================================================================
