----------------------------- MODULE RegistryMetadata -----------------------------
(***************************************************************************)
(* Request resolution of the registry metadata API,                        *)
(* src/registry/app/api/controller/metadata/base.go.                       *)
(*                                                                         *)
(* GetRegistryRequestBaseInfo is a sequence of steps: derive the parent    *)
(* reference (from the registry reference when none is given), split off   *)
(* the root, then find the root space, the parent space and the registry, *)
(* each a store call that can fail.  A reference is a sequence of path     *)
(* segments; paths.DisectLeaf and paths.DisectRoot split it at its last   *)
(* and first separator.                                                    *)
(*                                                                         *)
(* The controller serves one request per behaviour, of one of three       *)
(* kinds: the base-info resolution above; a webhook request, built into   *)
(* a types.Webhook by mapToWebhook (its triggers de-duplicated by          *)
(* deduplicateTriggers) and, once stored, mapped back into the API        *)
(* response by mapToWebhookResponseEntity; and setUpstreamProxyIDs, which *)
(* resolves a virtual registry's upstream proxy identifiers to registry   *)
(* IDs.  Store lookups outside this file are nondeterministic outcomes.   *)
(***************************************************************************)
EXTENDS Integers, Sequences, SequencesExt

CONSTANTS
  Segments,      \* path segments
  MaxRefLen,     \* longest reference, in segments
  Triggers,      \* webhook trigger values
  MaxTriggers,   \* longest trigger list
  SpacePaths,    \* space paths a webhook request may name
  PathSpace,     \* space path -> space ID, for the paths the space store knows
  PrimaryPath,   \* space ID -> its primary path
  SpaceIDArgs,   \* SecretSpaceId values a webhook request may carry
  Upstreams,     \* upstream proxy identifiers a virtual registry may list
  MaxProxies,    \* longest upstream proxy list
  UpstreamRepos, \* GetAll: the parent's upstream registries, in id order
  BadRegID       \* stands for a RegID strconv.ParseInt refuses

ASSUME DOMAIN PathSpace \subseteq SpacePaths
ASSUME UpstreamRepos \in Seq([ident : Upstreams, id : Nat \cup {BadRegID}])
ASSUME BadRegID \in Int \ Nat

Nil == "nil"

Refs == BoundedSeq(Segments, MaxRefLen)
Empty == <<>>

\* What a store lookup returns.
Outcomes == {"ok", "not_found", "db_error"}

\* The error a failed request wraps: a store outcome, or nothing ("nil").
Causes == {"not_found", "db_error", "nil"}

VARIABLES
  kind,       \* the request served: "base", "webhook" or "upstream"
  parentGiven, \* the request came with a parent reference
  parentRef,  \* the request's parent reference (after line 103)
  regRef,     \* the request's registry reference
  phase,      \* where GetRegistryRequestBaseInfo is
  root,       \* rootIdentifier
  err,        \* the function's err variable, as the cause it holds
  result,     \* what it returned
  triggers,   \* the trigger list of a webhook request
  hook,       \* the webhook request's SecretSpacePath and SecretSpaceId
  stored,     \* the types.Webhook mapToWebhook built
  resp,       \* the api.Webhook mapToWebhookResponseEntity returned
  dto,        \* the registry request of setUpstreamProxyIDs
  regProxies  \* the registry's UpstreamProxies

vars == <<kind, parentGiven, parentRef, regRef, phase, root, err, result, triggers,
          hook, stored, resp, dto, regProxies>>

NoResult == [kind |-> "none", cause |-> "nil", parent |-> Empty, root |-> Empty, reg |-> Empty]

\* The variables of the webhook and upstream requests, which the base-info
\* steps leave alone.
WebhookAndUpstream == <<kind, triggers, hook, stored, resp, dto, regProxies>>

NoHook == [triggers |-> Empty, spaceID |-> 0]
\* A response's spaceID is 0 when SecretSpaceId is left out.
NoResp == [kind |-> "none", triggers |-> Empty, spaceID |-> 0, spacePath |-> Nil]

\* The inputs of one request: its references, or its webhook, or its
\* registry request; the inputs of the other kinds keep a fixed value.
Init ==
  /\ kind \in {"base", "webhook", "upstream"}
  /\ parentRef \in IF kind = "base" THEN Refs ELSE {Empty}
  /\ regRef \in IF kind = "base" THEN Refs ELSE {Empty}
  /\ parentGiven = (parentRef # Empty)
  /\ phase = "checks"
  /\ root = Empty
  /\ err = "nil"
  /\ result = NoResult
  /\ triggers \in IF kind = "webhook" THEN BoundedSeq(Triggers, MaxTriggers) ELSE {Empty}
  /\ hook \in IF kind = "webhook"
               THEN [path : SpacePaths \cup {Nil, ""}, hasID : BOOLEAN, id : SpaceIDArgs]
               ELSE {[path |-> Nil, hasID |-> FALSE, id |-> 0]}
  /\ stored = NoHook
  /\ resp = NoResp
  /\ dto \in IF kind = "upstream"
              THEN {d \in [virtual : BOOLEAN, configOK : BOOLEAN, hasProxies : BOOLEAN,
                            proxies : BoundedSeq(Upstreams, MaxProxies)] :
                      d.hasProxies \/ d.proxies = Empty}
              ELSE {[virtual |-> FALSE, configOK |-> FALSE, hasProxies |-> FALSE,
                     proxies |-> Empty]}
  /\ regProxies \in IF kind = "upstream" THEN {Empty, <<0>>} ELSE {Empty}

\* fmt.Errorf("...: %w", e): the returned error wraps e.
Fail(cause) ==
  /\ phase' = "done"
  /\ result' = [NoResult EXCEPT !.kind = "error", !.cause = cause]

\* Lines 102-104 with paths.DisectLeaf: the reference without its last
\* segment.
DisectLeafParent(r) == IF r = Empty THEN Empty ELSE Front(r)

\* Lines 101-113: with no parent reference, the registry reference's parent
\* is used; none at all is an error; the root is the first segment
\* (paths.DisectRoot fails only on an empty reference, ruled out here).
Checks ==
  /\ kind = "base"
  /\ phase = "checks"
  /\ LET p == IF parentRef = Empty /\ regRef # Empty
                THEN DisectLeafParent(regRef) ELSE parentRef
     IN /\ parentRef' = p
        /\ \/ /\ p = Empty
              /\ Fail("nil")
              /\ UNCHANGED root
           \/ /\ p # Empty
              /\ root' = SubSeq(p, 1, 1)
              /\ phase' = "root"
              /\ UNCHANGED result
  /\ UNCHANGED <<WebhookAndUpstream, parentGiven, regRef, err>>

\* Mutant of FindRoot: the lookup's error is not checked.
FindRootNoErrCheck ==
  /\ phase = "root"
  /\ \E o \in Outcomes :
       /\ err' = IF o = "ok" THEN "nil" ELSE o
       /\ phase' = "parent"
       /\ UNCHANGED result
  /\ UNCHANGED <<WebhookAndUpstream, parentGiven, parentRef, regRef, root>>

\* Lines 115-118: SpaceFinder.FindByRef(rootIdentifier).
FindRoot ==
  /\ phase = "root"
  /\ \E o \in Outcomes :
       /\ err' = IF o = "ok" THEN "nil" ELSE o
       /\ IF o = "ok" THEN phase' = "parent" /\ UNCHANGED result
                      ELSE Fail(o)
  /\ UNCHANGED <<WebhookAndUpstream, parentGiven, parentRef, regRef, root>>

\* Lines 119-124: SpaceFinder.FindByRef(parentRef).
FindParent ==
  /\ phase = "parent"
  /\ \E o \in Outcomes :
       /\ err' = IF o = "ok" THEN "nil" ELSE o
       /\ IF o = "ok" THEN phase' = "registry" /\ UNCHANGED result
                      ELSE Fail(o)
  /\ UNCHANGED <<WebhookAndUpstream, parentGiven, parentRef, regRef, root>>

\* The base info returned: the registry is the leaf of the registry reference.
BaseInfo == [kind |-> "ok", cause |-> "nil", parent |-> parentRef, root |-> root,
             reg |-> IF regRef = Empty THEN Empty ELSE <<Last(regRef)>>]

\* Lines 126-148: with a registry reference, GetByParentIDAndName under the
\* parent; its failure is reported wrapping err, the variable of line 119,
\* not getRegistryErr.
FindRegistry ==
  /\ phase = "registry"
  /\ \/ /\ regRef = Empty
        /\ phase' = "done"
        /\ result' = BaseInfo
     \/ /\ regRef # Empty
        /\ \E o \in Outcomes :
             IF o = "ok" THEN phase' = "done" /\ result' = BaseInfo
                         ELSE Fail(err)
  /\ UNCHANGED <<WebhookAndUpstream, parentGiven, parentRef, regRef, root, err>>

(***************************************************************************)
(* deduplicateTriggers (lines 505-522).                                     *)
(***************************************************************************)

\* Mutant of DeduplicateTriggers: a repeated trigger is kept (no continue).
DeduplicateTriggersKeep(in) == in

\* The loop of lines 513-519: keep a trigger the first time it is seen.
RECURSIVE Dedup(_, _, _)
Dedup(in, seen, out) ==
  IF in = Empty THEN out
  ELSE IF Head(in) \in seen THEN Dedup(Tail(in), seen, out)
       ELSE Dedup(Tail(in), seen \cup {Head(in)}, Append(out, Head(in)))

DeduplicateTriggers(in) == IF Len(in) = 0 THEN Empty ELSE Dedup(in, {}, Empty)

\* Reference: the triggers at the positions where they first occur.
FirstOccurrences(in) ==
  LET first == {i \in DOMAIN in : \A j \in 1..(i - 1) : in[j] # in[i]}
  IN [k \in 1..Cardinality(first) |->
        in[CHOOSE i \in first : Cardinality({j \in first : j <= i}) = k]]

\* The variables of the base-info steps.
BaseVars == <<parentGiven, parentRef, regRef, root, err, result>>

\* Mutant of SecretSpaceOf: SecretSpaceId is preferred over the path.
SecretSpaceOfIDFirst(h, resolved) ==
  IF h.hasID THEN h.id
  ELSE IF h.path \notin {Nil, ""} THEN resolved ELSE 0

\* Lines 493-501: a non-empty SecretSpacePath is resolved by getSecretSpaceID;
\* otherwise SecretSpaceId is taken as given; otherwise the ID stays 0.
SecretSpaceOf(h, resolved) ==
  IF h.path \notin {Nil, ""} THEN resolved
  ELSE IF h.hasID THEN h.id ELSE 0

\* Lines 467-503: mapToWebhook.  getSecretSpaceID fails for a path the space
\* store does not know, or on a store error; the request is then refused.
MapToWebhook ==
  /\ kind = "webhook"
  /\ phase = "checks"
  /\ LET named == hook.path \notin {Nil, ""}
     IN \/ /\ ~named \/ hook.path \in DOMAIN PathSpace
           /\ stored' = [triggers |-> DeduplicateTriggers(triggers),
                         spaceID |-> SecretSpaceOf(hook, IF named THEN PathSpace[hook.path] ELSE 0)]
           /\ phase' = "stored"
           /\ UNCHANGED resp
        \/ /\ named
           /\ resp' = [NoResp EXCEPT !.kind = "error"]
           /\ phase' = "done"
           /\ UNCHANGED stored
  /\ UNCHANGED <<BaseVars, kind, triggers, hook, dto, regProxies>>

\* Lines 422-465: mapToWebhookResponseEntity on the stored webhook.  A
\* positive SecretSpaceID is reported with its primary path, which
\* FindPrimaryBySpaceID may fail to find.
MapToWebhookResponse ==
  /\ kind = "webhook"
  /\ phase = "stored"
  /\ LET id == stored.spaceID
     IN \/ /\ id <= 0 \/ id \in DOMAIN PrimaryPath
           /\ resp' = [kind |-> "ok", triggers |-> stored.triggers,
                       spaceID |-> IF id > 0 THEN id ELSE 0,
                       spacePath |-> IF id > 0 THEN PrimaryPath[id] ELSE Nil]
        \/ /\ id > 0
           /\ resp' = [NoResp EXCEPT !.kind = "error"]
  /\ phase' = "done"
  /\ UNCHANGED <<BaseVars, kind, triggers, hook, stored, dto, regProxies>>

\* Mutant of UpstreamProxyIDs: the loop misses the last registry listed.
UpstreamProxyIDsSkipLast(repos, proxies) ==
  LET matches(r) == SelectSeq(proxies, LAMBDA p : p = r.ident)
  IN FlattenSeq([k \in 1..(Len(repos) - 1) |->
                   IF repos[k].id = BadRegID THEN Empty
                   ELSE [j \in DOMAIN matches(repos[k]) |-> repos[k].id]])

\* Lines 271-282: for each registry, in the order GetAll returned them, its
\* ID once per time the request lists its identifier; a RegID that does
\* not parse is skipped.
UpstreamProxyIDs(repos, proxies) ==
  LET matches(r) == SelectSeq(proxies, LAMBDA p : p = r.ident)
  IN FlattenSeq([k \in 1..Len(repos) |->
                   IF repos[k].id = BadRegID THEN Empty
                   ELSE [j \in DOMAIN matches(repos[k]) |-> repos[k].id]])

\* Lines 234-286: setUpstreamProxyIDs.  Only a virtual registry request with
\* a readable config gets this far; with no upstream proxies listed nothing
\* is done; GetAll may fail; otherwise UpstreamProxies is replaced.
SetUpstreamProxyIDs ==
  /\ kind = "upstream"
  /\ phase = "checks"
  /\ phase' = "done"
  /\ \/ /\ ~(dto.virtual /\ dto.configOK)
        /\ resp' = [NoResp EXCEPT !.kind = "error"]
        /\ UNCHANGED regProxies
     \/ /\ dto.virtual /\ dto.configOK
        /\ ~dto.hasProxies \/ dto.proxies = Empty
        /\ resp' = [NoResp EXCEPT !.kind = "ok"]
        /\ UNCHANGED regProxies
     \/ /\ dto.virtual /\ dto.configOK
        /\ dto.hasProxies /\ dto.proxies # Empty
        /\ \/ /\ regProxies' = UpstreamProxyIDs(UpstreamRepos, dto.proxies)
              /\ resp' = [NoResp EXCEPT !.kind = "ok"]
           \/ /\ resp' = [NoResp EXCEPT !.kind = "error"]
              /\ UNCHANGED regProxies
  /\ UNCHANGED <<BaseVars, kind, triggers, hook, stored, dto>>

\* The request has returned.
Finished ==
  /\ phase = "done"
  /\ UNCHANGED vars

Next ==
  \/ Checks \/ FindRoot \/ FindParent \/ FindRegistry
  \/ MapToWebhook \/ MapToWebhookResponse
  \/ SetUpstreamProxyIDs
  \/ Finished

Spec == Init /\ [][Next]_vars

-----------------------------------------------------------------------------
(***************************************************************************)
(* Properties.                                                             *)
(***************************************************************************)

Results == [kind : {"none", "ok", "error"}, cause : Causes, parent : Refs,
            root : Refs, reg : Refs]

\* Types; a request that got past its checks has a non-empty parent, and one
\* past a lookup holds that lookup's nil error.
TypeOK ==
  /\ parentGiven \in BOOLEAN
  /\ parentRef \in Refs
  /\ regRef \in Refs
  /\ kind \in {"base", "webhook", "upstream"}
  /\ phase \in {"checks", "root", "parent", "registry", "stored", "done"}
  /\ root \in Refs
  /\ err \in Causes
  /\ result \in Results
  /\ triggers \in Seq(Triggers)
  /\ stored \in [triggers : Seq(Triggers), spaceID : Int]
  /\ resp \in [kind : {"none", "ok", "error"}, triggers : Seq(Triggers),
               spaceID : Int, spacePath : SpacePaths \cup {Nil}]
  /\ regProxies \in Seq(Nat)
  /\ phase \in {"root", "parent", "registry"} => parentRef # Empty
  /\ phase \in {"parent", "registry"} => err = "nil"

\* A webhook created and read back lists each trigger of the request once,
\* at its first position (deduplicateTriggers), for every trigger list up
\* to MaxTriggers long.
DedupMatchesReference ==
  resp.kind = "ok" => resp.triggers = FirstOccurrences(triggers)

\* The secret space a webhook request names: its path when it gives one,
\* else its positive SecretSpaceId; 0 for none.
NamedSpace ==
  IF hook.path \notin {Nil, ""} THEN PathSpace[hook.path]
  ELSE IF hook.hasID /\ hook.id > 0 THEN hook.id ELSE 0

\* mapToWebhook then mapToWebhookResponseEntity: a webhook read back reports
\* the secret space its request named, by ID and by that space's primary
\* path, and reports none when the request named none, whichever of path
\* and ID the request gave.
SecretSpaceRoundTrip ==
  resp.kind = "ok" =>
    /\ resp.spaceID = NamedSpace
    /\ resp.spacePath = IF NamedSpace = 0 THEN Nil ELSE PrimaryPath[NamedSpace]

\* setUpstreamProxyIDs: after a successful call that listed upstream
\* proxies, the registry's upstream IDs are the IDs of exactly those
\* listed upstream registries whose RegID parses.
UpstreamIDsAreListed ==
  (kind = "upstream" /\ resp.kind = "ok" /\ dto.proxies # Empty) =>
    ToSet(regProxies) = {r.id : r \in {q \in ToSet(UpstreamRepos) :
                                         q.ident \in ToSet(dto.proxies) /\ q.id # BadRegID}}

\* Every error GetRegistryRequestBaseInfo returns for a failed store call
\* wraps that call's error, so a caller can tell NotFound from a failure.
ErrorWrapsCause ==
  (result.kind = "error" /\ parentRef # Empty) => result.cause # "nil"

=============================================================================
