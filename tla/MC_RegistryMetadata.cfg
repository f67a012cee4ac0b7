CONSTANTS
  a = a
  b = b
  t1 = t1
  t2 = t2
  t3 = t3
  u1 = u1
  u2 = u2
  u3 = u3
  ux = ux
  Segments <- MCSegments
  Triggers <- MCTriggers
  MaxRefLen = 3
  MaxTriggers = 4
  SpacePaths <- MCSpacePaths
  PathSpace <- MCPathSpace
  PrimaryPath <- MCPrimaryPath
  SpaceIDArgs <- MCSpaceIDArgs
  Upstreams <- MCUpstreams
  MaxProxies = 2
  UpstreamRepos <- MCUpstreamRepos
  BadRegID <- MCBadRegID
SPECIFICATION Spec
INVARIANTS
  TypeOK
  DedupMatchesReference
  SecretSpaceRoundTrip
  UpstreamIDsAreListed
