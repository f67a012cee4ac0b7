----------------------------- MODULE GitspaceListAll -----------------------------
(***************************************************************************)
(* ListAllGitspaces of src/app/api/controller/gitspace/list_all.go: list   *)
(* every gitspace config, resolve the space of each (keyed by SpaceID,    *)
(* looked up by the config's SpacePath), check the caller's view          *)
(* permission once per resolved space, in Go's random map order, and keep *)
(* the configs of the authorized spaces in list order.  One action per    *)
(* loop iteration; the space finder and the authorizer are                *)
(* nondeterministic collaborators, with a fixed truth per space and       *)
(* transient errors.                                                       *)
(***************************************************************************)
EXTENDS Naturals, Sequences, SequencesExt, FiniteSets

CONSTANTS
  Spaces,        \* space IDs
  ConfigSpace    \* the listed configs, as the sequence of their SpaceIDs

ASSUME ConfigSpace \in Seq(Spaces)

N == Len(ConfigSpace)
Idx == 1..N
Perms == {"view", "no_access"}
Phases == {"list", "spaces", "auth", "done"}

VARIABLES
  exists,      \* space -> whether the space finder knows it
  perm,        \* space -> the caller's gitspace-view permission on it
  pathOK,      \* config -> whether its SpacePath resolves (not stale)
  phase,       \* where ListAllGitspaces is
  idx,         \* the next config of the space-resolution loop
  spacesMap,   \* SpaceIDs resolved so far
  checked,     \* SpaceIDs whose permission has been checked
  authorized,  \* authorizedSpaceIDs
  result,      \* the returned configs, as indices into ConfigSpace
  err          \* whether the call returned an error

vars == <<exists, perm, pathOK, phase, idx, spacesMap, checked, authorized,
          result, err>>

Init ==
  /\ exists \in [Spaces -> BOOLEAN]
  /\ perm \in [Spaces -> Perms]
  /\ pathOK \in [Idx -> BOOLEAN]
  /\ phase = "list"
  /\ idx = 1
  /\ spacesMap = {}
  /\ checked = {}
  /\ authorized = {}
  /\ result = <<>>
  /\ err = FALSE

World == <<exists, perm, pathOK>>

\* Lines 69-71: an error leaves the call with a nil result.
Fail ==
  /\ phase' = "done"
  /\ err' = TRUE
  /\ result' = <<>>

\* Lines 36-40: ListGitspacesWithInstance inside the read-only transaction;
\* an empty list skips the loop.
ListGitspaces ==
  /\ phase = "list"
  /\ \/ /\ phase' = IF N = 0 THEN "auth" ELSE "spaces"
        /\ UNCHANGED <<err, result>>
     \/ Fail
  /\ UNCHANGED <<World, idx, spacesMap, checked, authorized>>

\* Mutant of ResolveSpace: NotFound ends the loop (break, not continue).
ResolveSpaceBreak ==
  LET s == ConfigSpace[idx]
      next == IF idx = N THEN "auth" ELSE "spaces"
  IN /\ phase = "spaces"
     /\ idx \in Idx
     /\ \/ /\ s \in spacesMap
           /\ UNCHANGED spacesMap
           /\ phase' = next
           /\ UNCHANGED <<err, result>>
        \/ /\ s \notin spacesMap
           /\ \/ /\ exists[s] /\ pathOK[idx]
                 /\ spacesMap' = spacesMap \cup {s}
                 /\ phase' = next
                 /\ UNCHANGED <<err, result>>
              \/ /\ ~(exists[s] /\ pathOK[idx])
                 /\ UNCHANGED spacesMap
                 /\ phase' = "auth"
                 /\ UNCHANGED <<err, result>>
              \/ /\ Fail
                 /\ UNCHANGED spacesMap
     /\ idx' = idx + 1
     /\ UNCHANGED <<World, checked, authorized>>

\* Lines 43-55: one iteration of the space-resolution loop.  A space already
\* in the map is not looked up again; NotFound skips the config; any other
\* error fails the call.
ResolveSpace ==
  LET s == ConfigSpace[idx]
      next == IF idx = N THEN "auth" ELSE "spaces"
  IN /\ phase = "spaces"
     /\ idx \in Idx
     /\ \/ /\ s \in spacesMap
           /\ UNCHANGED spacesMap
           /\ phase' = next
           /\ UNCHANGED <<err, result>>
        \/ /\ s \notin spacesMap
           /\ \/ /\ exists[s] /\ pathOK[idx]
                 /\ spacesMap' = spacesMap \cup {s}
                 /\ phase' = next
                 /\ UNCHANGED <<err, result>>
              \/ /\ ~(exists[s] /\ pathOK[idx])
                 /\ UNCHANGED spacesMap
                 /\ phase' = next
                 /\ UNCHANGED <<err, result>>
              \/ /\ Fail
                 /\ UNCHANGED spacesMap
     /\ idx' = idx + 1
     /\ UNCHANGED <<World, checked, authorized>>

\* Mutant of MarkAuthorized: every resolved space is recorded at once.
MarkAuthorizedAll(s, p) == spacesMap

\* Line 111 as written: the space is recorded authorized after any check
\* that did not fail with an error other than no-access.
MarkAuthorized(s, p) == authorized \cup {s}

\* Lines 103-112: one iteration of getAuthorizedSpaces, over the map in any
\* order.
AuthorizeSpace ==
  /\ phase = "auth"
  /\ \E s \in spacesMap \ checked :
       \/ /\ checked' = checked \cup {s}
          /\ authorized' = MarkAuthorized(s, perm[s])
          /\ UNCHANGED <<phase, err, result>>
       \/ /\ Fail
          /\ UNCHANGED <<checked, authorized>>
  /\ UNCHANGED <<World, idx, spacesMap>>

\* Lines 76-94: keep the configs whose SpaceID is authorized, in list order.
FilterConfigs(auth) == SelectSeq([i \in Idx |-> i], LAMBDA i : ConfigSpace[i] \in auth)

\* Lines 57-73: once every space is checked, filter and return.
ReturnList ==
  /\ phase = "auth"
  /\ checked = spacesMap
  /\ result' = FilterConfigs(authorized)
  /\ phase' = "done"
  /\ UNCHANGED <<World, idx, spacesMap, checked, authorized, err>>

Next ==
  \/ ListGitspaces
  \/ ResolveSpace
  \/ AuthorizeSpace
  \/ ReturnList

Spec == Init /\ [][Next]_vars

-----------------------------------------------------------------------------
(***************************************************************************)
(* Properties.                                                             *)
(***************************************************************************)

TypeOK ==
  /\ exists \in [Spaces -> BOOLEAN]
  /\ perm \in [Spaces -> Perms]
  /\ pathOK \in [Idx -> BOOLEAN]
  /\ phase \in Phases
  /\ idx \in 1..(N + 1)
  /\ spacesMap \subseteq Spaces
  /\ checked \subseteq spacesMap
  /\ authorized \subseteq checked
  /\ result \in Seq(Idx)
  /\ err \in BOOLEAN

\* A space is resolvable when it exists and one of its configs carries a
\* SpacePath that resolves.
Resolvable(s) == exists[s] /\ \E i \in Idx : ConfigSpace[i] = s /\ pathOK[i]

\* A successful listing returns, in list order, every config of every
\* resolvable space the caller may view, and two configs of one space are
\* listed together or not at all, whichever of them carries a stale
\* SpacePath and wherever it stands in the list (the map is keyed by
\* SpaceID, looked up by path, and the loop skips NotFound).
ListsViewableSpacesWhole ==
  (phase = "done" /\ ~err) =>
    /\ \A i \in Idx :
         (Resolvable(ConfigSpace[i]) /\ perm[ConfigSpace[i]] = "view")
           => \E k \in DOMAIN result : result[k] = i
    /\ \A k1, k2 \in DOMAIN result : k1 < k2 => result[k1] < result[k2]
    /\ \A i, j \in Idx :
         ConfigSpace[i] = ConfigSpace[j] =>
           ((\E k \in DOMAIN result : result[k] = i) <=>
            (\E k \in DOMAIN result : result[k] = j))

\* getAuthorizedSpaces and the view permission it checks: a successful
\* listing returns only configs of spaces the caller may view.
ListsOnlyViewable ==
  (phase = "done" /\ ~err) =>
    \A k \in DOMAIN result : perm[ConfigSpace[result[k]]] = "view"

=============================================================================
