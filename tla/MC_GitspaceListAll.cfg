\* ListAllGitspaces: complete, ordered, per-space listing.
CONSTANTS
  s1 = s1
  s2 = s2
  Spaces <- MCSpaces
  ConfigSpace <- MCConfigSpace
SPECIFICATION Spec
\* A listing call ends: "done" is final.
CHECK_DEADLOCK FALSE
INVARIANTS
  TypeOK
  ListsViewableSpacesWhole
