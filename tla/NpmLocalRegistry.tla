---------------------------- MODULE NpmLocalRegistry ----------------------------
(***************************************************************************)
(* The npm local registry of src/registry/app/pkg/npm/local.go, for one   *)
(* package: uploads (UploadPackageFile, then AddTag), dist-tag deletion    *)
(* (DeleteTag) and package metadata reads (GetPackageMetadata) run by     *)
(* concurrent requests.  Every store call is a step of its own and none   *)
(* of them share a transaction.  The artifact store holds the uploaded    *)
(* versions, the tag store maps a dist-tag to a version.                  *)
(***************************************************************************)
EXTENDS Naturals, Sequences, FiniteSets

CONSTANTS
  Uploaders,     \* UploadPackageFile requests
  VersionOf,     \* uploader -> the version it publishes
  DistTagsOf,    \* uploader -> its info.DistTags
  Deleters,      \* DeleteTag requests
  DeleteTagsOf,  \* deleter -> its info.DistTags
  Readers,       \* GetPackageMetadata requests
  Versions,      \* package versions
  TagNames,      \* dist-tag names
  NoVersion      \* a dist-tag that names no version

ASSUME VersionOf \in [Uploaders -> Versions]
ASSUME DistTagsOf \in [Uploaders -> Seq(TagNames)]
ASSUME DeleteTagsOf \in [Deleters -> Seq(TagNames)]
ASSUME NoVersion \notin Versions

Actors == Uploaders \cup Deleters \cup Readers

VARIABLES
  artifacts,  \* versions the artifact store holds
  tags,       \* the tag store: dist-tag -> version
  pc,         \* where each request is
  seen,       \* reader -> the versions of its artifact read
  result      \* request -> what it returned

vars == <<artifacts, tags, pc, seen, result>>

\* What a request returned.
NoResult == [kind |-> "none", versions |-> {}, distTags |-> {}]
ErrResult == [kind |-> "error", versions |-> {}, distTags |-> {}]
OkResult == [kind |-> "ok", versions |-> {}, distTags |-> {}]

Init ==
  /\ artifacts = {}
  /\ tags = [t \in TagNames |-> NoVersion]
  /\ pc = [a \in Actors |-> CASE a \in Uploaders -> "upload"
                              [] a \in Deleters -> "delete"
                              [] a \in Readers -> "artifacts"]
  /\ seen = [r \in Readers |-> {}]
  /\ result = [a \in Actors |-> NoResult]

\* Request a returns r.
Return(a, r) ==
  /\ pc' = [pc EXCEPT ![a] = "done"]
  /\ result' = [result EXCEPT ![a] = r]

\* ListTags (lines 287-299): the dist-tags, as the set of tag-version pairs.
ListTags == {<<t, tags[t]>> : t \in {n \in TagNames : tags[n] # NoVersion}}

\* Lines 116-123: localBase.Upload stores the file and the version's
\* artifact, or fails.
Upload(u) ==
  /\ pc[u] = "upload"
  /\ \/ /\ artifacts' = artifacts \cup {VersionOf[u]}
        /\ pc' = [pc EXCEPT ![u] = "lookup"]
        /\ UNCHANGED result
     \/ /\ Return(u, ErrResult)
        /\ UNCHANGED artifacts
  /\ UNCHANGED <<tags, seen>>

\* Lines 124-128 with AddTag lines 302-314: find the image and the version's
\* artifact (GetByName fails for a version the store does not hold); with no
\* dist-tag AddTag returns the nil error and the upload succeeds.
AddTagLookup(u) ==
  /\ pc[u] = "lookup"
  /\ \/ /\ VersionOf[u] \in artifacts
        /\ Len(DistTagsOf[u]) > 0
        /\ pc' = [pc EXCEPT ![u] = "tag"]
        /\ UNCHANGED result
     \/ /\ VersionOf[u] \in artifacts
        /\ Len(DistTagsOf[u]) = 0
        /\ Return(u, OkResult)
     \/ Return(u, ErrResult)
  /\ UNCHANGED <<artifacts, tags, seen>>

\* Lines 315-323: the first dist-tag is pointed at the version.
CreateTag(u) ==
  /\ pc[u] = "tag"
  /\ \/ /\ tags' = [tags EXCEPT ![DistTagsOf[u][1]] = VersionOf[u]]
        /\ pc' = [pc EXCEPT ![u] = "list"]
        /\ UNCHANGED result
     \/ /\ Return(u, ErrResult)
        /\ UNCHANGED tags
  /\ UNCHANGED <<artifacts, seen>>

\* Line 324 and lines 125-128: AddTag ends with ListTags; its error fails the
\* upload, whose tag and artifact stay.
AddTagList(u) ==
  /\ pc[u] = "list"
  /\ \/ Return(u, OkResult)
     \/ Return(u, ErrResult)
  /\ UNCHANGED <<artifacts, tags, seen>>

\* Lines 327-336: DeleteTag refuses an empty dist-tag list, deletes the
\* first one and lists the rest.
DeleteTag(d) ==
  /\ pc[d] = "delete"
  /\ \/ /\ Len(DeleteTagsOf[d]) = 0
        /\ Return(d, ErrResult)
        /\ UNCHANGED tags
     \/ /\ Len(DeleteTagsOf[d]) > 0
        /\ tags' = [tags EXCEPT ![DeleteTagsOf[d][1]] = NoVersion]
        /\ \/ Return(d, [OkResult EXCEPT !.distTags = {<<t, tags'[t]>> :
                           t \in {n \in TagNames : tags'[n] # NoVersion}}])
           \/ Return(d, ErrResult)
     \/ /\ Return(d, ErrResult)
        /\ UNCHANGED tags
  /\ UNCHANGED <<artifacts, seen>>

\* Lines 147-159: the versions map, one entry per listed artifact.
ArtifactVersions(arts) == arts

\* Mutant of ReadArtifacts: an empty artifact list is not NotFound.
ReadArtifactsNoNotFound(r) ==
  /\ pc[r] = "artifacts"
  /\ \/ /\ seen' = [seen EXCEPT ![r] = ArtifactVersions(artifacts)]
        /\ pc' = [pc EXCEPT ![r] = "tags"]
        /\ UNCHANGED result
     \/ /\ Return(r, ErrResult)
        /\ UNCHANGED seen
  /\ UNCHANGED <<artifacts, tags>>

\* Lines 134-146: GetByRegistryIDAndImage; none found is NotFound.
ReadArtifacts(r) ==
  /\ pc[r] = "artifacts"
  /\ \/ /\ artifacts # {}
        /\ seen' = [seen EXCEPT ![r] = ArtifactVersions(artifacts)]
        /\ pc' = [pc EXCEPT ![r] = "tags"]
        /\ UNCHANGED result
     \/ /\ artifacts = {}
        /\ Return(r, ErrResult)
        /\ UNCHANGED seen
     \/ /\ Return(r, ErrResult)
        /\ UNCHANGED seen
  /\ UNCHANGED <<artifacts, tags>>

\* Lines 160-166: ListTags, read after the artifacts and outside any
\* transaction with them; the metadata combines both reads.
ReadTags(r) ==
  /\ pc[r] = "tags"
  /\ \/ Return(r, [kind |-> "ok", versions |-> seen[r], distTags |-> ListTags])
     \/ Return(r, ErrResult)
  /\ UNCHANGED <<artifacts, tags, seen>>

\* Every request has returned.
Finished ==
  /\ \A a \in Actors : pc[a] = "done"
  /\ UNCHANGED vars

Next ==
  \/ \E u \in Uploaders : Upload(u) \/ AddTagLookup(u) \/ CreateTag(u) \/ AddTagList(u)
  \/ \E d \in Deleters : DeleteTag(d)
  \/ \E r \in Readers : ReadArtifacts(r) \/ ReadTags(r)
  \/ Finished

Spec == Init /\ [][Next]_vars

-----------------------------------------------------------------------------
(***************************************************************************)
(* Properties.                                                             *)
(***************************************************************************)

Results == [kind : {"none", "error", "ok"}, versions : SUBSET Versions,
            distTags : SUBSET (TagNames \X Versions)]

\* Types; a dist-tag names a version the artifact store holds, and a
\* metadata read past its artifact query has found some.
TypeOK ==
  /\ artifacts \subseteq Versions
  /\ tags \in [TagNames -> Versions \cup {NoVersion}]
  /\ \A t \in TagNames : tags[t] # NoVersion => tags[t] \in artifacts
  /\ pc \in [Actors -> {"upload", "lookup", "tag", "list", "delete",
                        "artifacts", "tags", "done"}]
  /\ seen \in [Readers -> SUBSET Versions]
  /\ \A r \in Readers : pc[r] = "tags" => seen[r] # {}
  /\ result \in [Actors -> Results]

=============================================================================
