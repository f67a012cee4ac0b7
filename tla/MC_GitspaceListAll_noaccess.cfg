\* ListAllGitspaces lists configs of spaces the caller may not view.
CONSTANTS
  s1 = s1
  s2 = s2
  Spaces <- MCSpaces
  ConfigSpace <- MCConfigSpace
SPECIFICATION Spec
CHECK_DEADLOCK FALSE
INVARIANT ListsOnlyViewable
