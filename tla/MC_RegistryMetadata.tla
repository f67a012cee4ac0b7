-------------------------- MODULE MC_RegistryMetadata --------------------------
(* References of up to three segments over two names; trigger lists of up  *)
(* to four over three triggers; two spaces, the first known by two paths, *)
(* and a path the space store does not know; three upstream registries,   *)
(* one with a RegID that does not parse, and proxy lists of up to two.     *)
EXTENDS RegistryMetadata

CONSTANTS a, b, t1, t2, t3, u1, u2, u3, ux

MCSegments == {a, b}
MCTriggers == {t1, t2, t3}
MCSpacePaths == {"s1", "s1alias", "s2", "gone"}
MCPathSpace == [p \in {"s1", "s1alias", "s2"} |-> IF p = "s2" THEN 2 ELSE 1]
MCPrimaryPath == [id \in {1, 2} |-> IF id = 1 THEN "s1" ELSE "s2"]
MCSpaceIDArgs == {0, 2, 3}
MCBadRegID == -1
MCUpstreams == {u1, u2, u3, ux}
MCUpstreamRepos == << [ident |-> u1, id |-> 11], [ident |-> u2, id |-> -1],
                      [ident |-> u3, id |-> 13] >>
=============================================================================
