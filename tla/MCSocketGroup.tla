--------------------------- MODULE MCSocketGroup ---------------------------
(* Small instances of SocketGroup for TLC: two groups, the second one limited. *)
EXTENDS SocketGroup

CONSTANTS s1, s2, s3

MCSockets == <<s1, s2, s3>>
MCGroups == <<0, 1>>
MCGroupOf == (s1 :> 0) @@ (s2 :> 0) @@ (s3 :> 1)
=============================================================================
