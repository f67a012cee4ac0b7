--------------------------- MODULE MC_GitspaceListAll ---------------------------
(***************************************************************************)
(* Three configs over two spaces, the first space listed twice and not    *)
(* adjacently, so that a stale path of either of its configs and either  *)
(* map order are explored.                                                 *)
(***************************************************************************)
EXTENDS GitspaceListAll

CONSTANTS s1, s2

MCSpaces == {s1, s2}
MCConfigSpace == <<s1, s2, s1>>

=============================================================================
