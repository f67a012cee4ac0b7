CONSTANTS
  u1 = u1
  u2 = u2
  u3 = u3
  d1 = d1
  d2 = d2
  r1 = r1
  v1 = v1
  v2 = v2
  latest = latest
  NoVersion = NoVersion
  Uploaders <- MCUploaders
  VersionOf <- MCVersionOf
  DistTagsOf <- MCDistTagsOf
  Deleters <- MCDeleters
  DeleteTagsOf <- MCDeleteTagsOf
  Readers <- MCReaders
  Versions <- MCVersions
  TagNames <- MCTagNames
SPECIFICATION Spec
INVARIANTS
  TypeOK
