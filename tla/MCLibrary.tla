----------------------------- MODULE MCLibrary -----------------------------
(* Small instances of Library for TLC. *)
EXTENDS Library, TLC

CONSTANTS u1, u2, v1, v2, v3

\* u1 sends two clips that share a hashtag, u2 one.
MCOwner  == (v1 :> u1) @@ (v2 :> u1) @@ (v3 :> u2)
MCTagsOf == (v1 :> {"arm"}) @@ (v2 :> {"arm", "leg"}) @@ (v3 :> {"leg"})

\* Two clips of u1; u2 sends nothing, and taps what is not theirs.
MCOwnerOfTwo == (v1 :> u1) @@ (v2 :> u1)
MCTagsOfTwo  == (v1 :> {"arm"}) @@ (v2 :> {"arm", "leg"})
=============================================================================
