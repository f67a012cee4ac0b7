--------------------------- MODULE MC_NpmLocalRegistry ---------------------------
(* Two uploads of different versions under dist-tag latest, a re-upload   *)
(* of one with no dist-tag, a latest deletion, a deletion naming no tag    *)
(* and a metadata read, all concurrent.                                    *)
EXTENDS NpmLocalRegistry, TLC

CONSTANTS u1, u2, u3, d1, d2, r1, v1, v2, latest

MCUploaders == {u1, u2, u3}
MCVersionOf == (u1 :> v1) @@ (u2 :> v2) @@ (u3 :> v2)
MCDistTagsOf == (u1 :> <<latest>>) @@ (u2 :> <<latest>>) @@ (u3 :> <<>>)
MCDeleters == {d1, d2}
MCDeleteTagsOf == (d1 :> <<latest>>) @@ (d2 :> <<>>)
MCReaders == {r1}
MCVersions == {v1, v2}
MCTagNames == {latest}
=============================================================================
