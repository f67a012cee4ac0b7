# TLA+ models of gitness controllers: gitspace orchestrator, pull requests, registry

This directory holds TLA+ models of the code under `src/`. Each module is checked with TLC.
The centre of the system is the gitspace lifecycle orchestrator in
`src/app/gitspace/orchestrator/orchestrator_resume.go`. The other source files are smaller
controllers: list-all, PR create, infra provider create, the npm registry and registry
metadata parsing. Each has a module of its own; they share no state, because in the code
they interact only through the database.

## 1. Inventory

### Components, state and operations

| Component | Source | State it keeps | Operations |
|---|---|---|---|
| Lifecycle orchestrator | `orchestrator_resume.go` | none between calls; in a call: the `GitspaceInstance` the config points to (state, access key, URL, last-used), the descriptor copy, the emitted events | `ResumeStartGitspace` (6 blocking stages), `ResumeStopGitspace`, `ResumeDeleteGitspace`, `ResumeCleanupInstanceResources` |
| Secret resolver selector | `getSecretResolver` (same file) | registry of resolvers (outside src) | access type → scheme (`password`, `jwt`, `ssh`, default `password`) → resolver or error |
| IDE selector and URL | `generateIDEURL`, `ide/ide.go` | registry of IDE services (outside src) | port tie-break, proxy-host override, URL per IDE type |
| Collaborators (not in src/) | spec section 6 | infrastructure record (adapter), container, SCM, event timeline | `ResumeProvision/Stop/Deprovision/CleanupInstance`, `Status`, `CreateAndStartGitspace`, `GetSCMRepoDetails`, `Emit` |
| List-all gitspaces | `app/api/controller/gitspace/list_all.go` | read-only tx; map space → path; map space → authorized | list configs, resolve spaces, authorize per space, filter |
| PR create | `app/api/controller/pullreq/pr_create.go` | repo `PullReqSeq`, PRs, reviewers, labels, activities, the git head ref | validate, checks outside tx, `TxOptLock` closure (seq++, create PR, reviewers, labels, ref), events after commit |
| Infra provider create | `app/api/controller/infraprovider/create.go` | config store, resource store | create config, re-read it, validate provider, create resources one by one, list |
| npm local registry | `registry/app/pkg/npm/local.go` | artifacts, package tags | upload and tag, metadata, search, list/add/delete tag |
| Registry metadata | `registry/.../metadata/base.go` | the registry's `UpstreamProxies` | base-info resolution, webhook mapping both ways, upstream proxy IDs, trigger de-duplication |
| Wiring, generated code, enums | `wire.go` ×2, `merge.pb.go`, `public_key.go`, `stage.go`, `pr_branch_candidates.go` | none | none that changes state (not modelled) |

### How the parts interact

An external scheduler holds a gitspace config and an infrastructure descriptor. It calls one
`Resume*` operation and then persists the instance state that comes back. Inside a call the
orchestrator makes blocking calls, in a fixed order, to the secret resolver, the IDE
factory, the infrastructure adapter, the SCM client and the container orchestrator. Around
each stage it emits events, best effort. The descriptor (`types.Infrastructure`) is passed
**by value**, so no adapter call can change the status the orchestrator later checks. The
instance, in contrast, is a **pointer** shared with the caller's config: the orchestrator
changes it in place.

### What is hard

* Partial failure: stages run in order with no compensation. An SCM failure after
  provisioning emits no failure event, and a container failure leaves the infrastructure
  provisioned.
* Ordering of the event trail: seven events per start, with exactly one `*Failed` event
  for the stage that stopped the call.
* Stale state: the status check reads the descriptor copy, not the adapter's post-call
  record.
* Unsupported IDE types reach `generateIDEURL`, which has no error path.
* Concurrency in the other controllers: PR create runs its duplicate check outside the
  transaction, has an optimistic-lock retry, and writes a git ref inside the transaction.
  The list-all authorization loop and the non-transactional infra-provider create are
  single-request logic with partial failures.

### Properties that make each component correct

* Orchestrator: each event trail is a prefix of the spec's order, followed by at most one
  failure event. Errors are attributed to a stage. `Running` only when every stage
  succeeded and the status was `Provisioned`. Each call leaves Error or its own success
  state (the refinement).
* List-all: a gitspace is listed only if its space exists and the user may view it.
* PR create: concurrent creates behave as the abstract numbering spec
  `PullReqNumbering` (one number after another, at most one open PR per pair, one
  `Created` event each). A committed PR always has its head ref. Its activities are
  numbered within the sequence it reserved.
* Infra provider create: a failed create leaves no half-created config, or the retry
  still works.
* npm registry: a dist-tag only ever names a stored version, however uploads, tag
  deletions and reads interleave.

## 2. Plan

Done (sitting 1):

1. **GitspaceOrchestrator** and its abstract contract **GitspaceLifecycle**: the four
   `Resume*` operations, stage by stage. The orchestrator refines the contract under
   `state <- stored, requested <- op, infraStatus <- desc.status`.
2. **GitspaceListAll**: `ListAllGitspaces` with space lookups and authorization per space.
3. **PullReqCreate**: concurrent `Create` calls on one repository, including the
   `TxOptLock` retry, the row lock and the git ref written outside the transaction.
4. **InfraProviderCreate**: the non-transactional create sequence with caller retries.
5. **NpmLocalRegistry**: concurrent uploads, dist-tag deletion and metadata reads.
6. **RegistryMetadata**: `GetRegistryRequestBaseInfo` and `deduplicateTriggers`, the
   latter as a RECURSIVE operator checked against a reference definition.

Done (sitting 2):

7. **PullReqNumbering**: the abstract numbering contract. `PullReqCreate` refines it under
   a projection of its PRs; this replaces two invariants that said less.
8. PR activities: reviewers and labels, and the activity orders they reserve
   (`pr_create.go` 182-183, 249-396). This showed the off-by-one of run
   `pr_create_activity`.
9. RegistryMetadata: `mapToWebhook`, `mapToWebhookResponseEntity` and
   `setUpstreamProxyIDs`, as two more request kinds.

Done (sitting 3):

10. The numbering contract's liveness (`LiveSpec`), checked through the refinement.
11. `pr_create` grown to four clients, two per branch pair.
12. Two hazards added: the `Created` event lost by a stop after commit, and `latest` tag
    order under concurrent npm uploads.

Reviewed in sitting 4: no pass-run property was found to restate a single guard or
assignment. `pr_branch_candidates.go` turned out to be HTTP glue around
`PRBranchCandidates`, a controller method not in this repository. It stays not modelled
(section 4).

After review:

* Removed `QuietReadConsistent` (npm). A read no write overlapped sees one snapshot, so it
  only repeated `TypeOK`.
* Removed `BaseInfoFromRegistryRef`. It held by the sequence identity behind
  `DisectLeafParent`.
* Replaced `pr_create`'s state constraint with the retry-count cap described under
  PullReqCreate. The liveness mutant is now the missing re-fetch.
* Removed four hazards that this code does not have:
  * the event order of one start, which is straight-line code;
  * a missing port key, which the container orchestrator's contract rules out;
  * two concurrent calls on one gitspace, which the scheduler excludes;
  * a second config of one identifier, which contradicts the unique identifier.

Left open:

* npm `SearchPackage` and `mapToPackageSearch` (`local.go` 169-243), if the artifact
  DAO's `SearchLatestByName` and `CountLatestByName` can be pinned down from the spec.

## 3. Modules and runs

### GitspaceOrchestrator (`GitspaceOrchestrator.tla`, `MC_GitspaceOrchestrator.tla`)

State: `cfg` (access type, IDE, whether the space path parses), `inst` (the aliased
`GitspaceInstance`), `stored` (what the scheduler persisted), `infra` (the adapter's
record), `desc` (the descriptor copy given to the call), `op`/`pc` (the operation and the
stage), `trail` (the events of this call), `called` (the result of each collaborator call),
`ret` (the returned state and error), `calls`.

Actions, each mapped in `PROJECT.json`:
* `ResolveSecret`: lines 41-65.
* `GetIDEService`: 67-72.
* `ResumeProvision`: 74-93.
* `GetSCMRepoDetails`: 95-100.
* `AgentStatus`: 102-111.
* `CreateAndStartGitspace`: 113-137.
* `ResumeTeardown(o)`: the three teardown functions, 199-299. They differ only in the
  tables `Accepted`, `TeardownFailed`, `TeardownCompleted` and `TeardownSuccess`.
* `Invoke` and `Persist`: the scheduler, from the spec.

URL data is abstracted to where each part comes from (which host, which port source, which
scheme, which user).

Runs:

* `orchestrator` (pass, 372k distinct states). It checks `TypeOK`, `TrailFollowsStages`,
  `StageAttributedFailure`, `RunningRequiresAllStages` and `RefinesLifecycle`.
  * Bounds: 4 access types (one unknown) and a registry without SSH, so
    `ResolverNotFound` is reachable.
  * 3 IDE types (one unregistered), any descriptor status, proxy or not, published port 0
    or not.
  * 3 invocations, so calls follow earlier failures and successes.
  * Every collaborator outcome and every branch is reached.
* `orchestrator_infra_record` (violation): `SuccessMatchesInfraRecord`. The adapter may
  leave its record in any status, as the spec's interface allows. The orchestrator decides
  success on the copy, so success is reported over a status the operation does not accept.
* `orchestrator_ide_url` (violation): `RunningHasIDEURL`. A third registered IDE type
  yields `Running` with an empty URL, where spec section 4.4 asks for
  `UnsupportedIDEError`.

Deadlock is not checked, because the scheduler may stop invoking after the last call.
There is no fairness and no liveness property. Each operation is straight-line code with no
loop. It terminates exactly when the collaborator calls return, and that depends on context
deadlines outside `src/`.

### GitspaceListAll (`GitspaceListAll.tla`, `MC_GitspaceListAll.tla`)

State: the world, which is fixed per behaviour (`exists`, `perm` and `pathOK` per config);
the loop state (`phase`, `idx`, `spacesMap`, `checked`, `authorized`); and the return
(`result` as config indices, `err`).

Actions:
* `ListGitspaces`: lines 36-40.
* `ResolveSpace`: one iteration of 43-55. NotFound skips the config; any other error fails
  the call.
* `AuthorizeSpace`: one iteration of 103-112, over the map in any order, since Go map order
  is random.
* `ReturnList`: 57-94, with the filter as `FilterConfigs`.

Bounds: three configs over two spaces, `<<s1, s2, s1>>`. One space is listed twice and not
adjacently, so a stale path on either of its configs is explored.

Runs:
* `list_all` (pass): `ListsViewableSpacesWhole`. Every config of a resolvable, viewable
  space is listed, in order, and the configs of one space are listed together or not at
  all.
* `list_all_noaccess` (violation): `ListsOnlyViewable`. Line 111 records a space as
  authorized even when the check said no access, so configs of a space the caller may not
  view are returned.

### PullReqCreate (`PullReqCreate.tla`, `MC_PullReqCreate.tla`)

State:
* `repo`: the committed `PullReqSeq` and its version.
* `lock`: the client whose transaction holds the row.
* `prs`: committed pull requests.
* `refs`: the git PR head refs.
* `pc`, `local` and `attempts` per client: where it is, its `targetRepoFull`, and its
  retries.
* `result`, and `created` (the `Created` events published).

Actions, one per blocking call:
* `Precheck`: 78-151, including the duplicate check at 109 against committed state.
* `Find`: 155-161.
* `Update`: 163-169. It compares the version, takes the row lock and bumps the sequence.
  On a conflict, `TxOptLock` re-runs the closure; that part is modelled from the spec,
  because the store is not under `src/`.
* `CreatePR`: 171-188.
* `Assign`: 190-200.
* `UpdateRef`: 202-213.
* `Commit`: 214-219.
* `Publish`: 221-246.

Any error rolls the database writes back and releases the lock. A git ref that was already
written stays.

Bounds: four clients. c1 and c2 ask for one branch pair and c3 and c4 for the other, so
two duplicate races and the version conflicts between them happen in one behaviour.
Reviewers and labels: c1 has a label, c2 a reviewer, c3 both and c4 neither.

Retry count: there is no state constraint. `attempts` stops counting at `MaxAttempts = 4`.
`RetriesCausedByCommits` shows that a request retries at most once per commit of the other
three, so the correct model never gets there; the check explores the same 229,508 states
with or without the cap. A retry loop that never ends, as when the closure skips the
re-fetch at line 156, becomes a finite cycle at the cap. TLC then reports it as a
violation of `AllCreatesReturn`.

Fairness: weak fairness per client. Each Create is a goroutine that runs once the lock it
waits for is free.

Reviewers and labels: `LabelsOf` and `ReviewersOf` give each client's counts. A
non-empty batch may fail and roll the transaction back (`MayFail`). The label activities
take the orders `ActivitySeqOf(c) + k` that line 388 computes, and `acts` collects the
committed ones. `ActivitySeqOf` is the `ActivitySeq` written with the PR (lines 182-183).

The abstract spec `PullReqNumbering.tla` states what concurrent creates promise:
* `Open` gives the next number to a pair that has no open PR.
* `Report` publishes one `Created` event per PR.
* `LiveSpec` adds weak fairness on `Report`: every opened PR is eventually reported.
  Opening is the caller's choice, so `Open` is not fair.

`PullReqCreate` refines it with `seq <- repo.seq`, `reported <- created` and `prs`
projected to number, pair and SHA. Lock, retries, rollback and ref writes are all
stuttering steps of the abstract spec.

Run `pr_create` (pass, 229,508 distinct states, about 1.5 minutes):
* `RefinesNumbering` (PROPERTY, `Numbering!LiveSpec`): numbers are handed out one after
  another. A pair never gets a second open PR. Each PR is reported once, and eventually.
  The liveness holds because nothing between the commit (line 215) and
  `eventReporter.Created` (line 223) can fail. A server stop there would lose the event;
  that is listed as a hazard and not modelled.
* `HeadRefMatchesPR`: every committed PR's ref points at its own SHA.
* `RetriesCausedByCommits`: a client retries only as often as other clients committed.
* `AllCreatesReturn` (liveness): every Create returns. The lock is released by commit or
  rollback, and `TxOptLock`'s unbounded retry loop ends because a conflict needs another
  commit. Its mutant `FindCached` works on the cached repository, against the comment at
  line 156, and retries forever.

The one-open-PR-per-pair part of the refinement holds only because the store refuses a
second open PR of a pair (`StoreRejectsDuplicate = TRUE`). With `FALSE`, two clients that
both pass the check at line 109 create two open PRs. That dependence is recorded as a
hazard in `PROJECT.json`.

Run `pr_create_activity` (violation): `ActivityOrdersWithinSeq`.
* The comment at line 182 says the PR's `ActivitySeq` is "the activity sequence", the last
  order reserved.
* `storeLabelAssignActivity` increments `pr.ActivitySeq` before each label activity (line
  388), so label activities start past the reserved range. With one label and no reviewer,
  the label activity has order 2 while the stored `ActivitySeq` is 1.
* The next activity on the PR is numbered one past the stored sequence, an order that is
  already taken.
* This assumes the activity store records an activity under `pr.ActivitySeq`.

### InfraProviderCreate (`InfraProviderCreate.tla`, `MC_InfraProviderCreate.tla`)

State:
* `configs` and `resources`: the two stores.
* `req`, `pc`, `inDB` and `i`: the request in progress.
* `responses` per request.

Actions follow create.go:
* `Sanitize`: 62-64, 143-153.
* `FindParent`: 65-78.
* `CreateConfig`: 79-90.
* `FindConfig`: 91-97.
* `CheckProvider`: 98-110.
* `CreateResource`: 111-133.
* `ListResources`: 134-140.

Every step may fail, and the caller then re-sends, up to `MaxRequests = 3`.

Bounds: two resources, and provider types docker, a templated type and an unknown one.

Runs:
* `infraprovider_create` (pass): `SuccessIsCleanCreate`, checked with a store that refuses a
  second config of an identifier. A successful Create returns its own config with exactly
  the input resources.
* `infraprovider_partial` (violation): `FailedCreateLeavesNothing`. A failure after line 87
  returns an error but leaves the config. Under a unique identifier, every retry then
  fails.

### NpmLocalRegistry (`NpmLocalRegistry.tla`, `MC_NpmLocalRegistry.tla`)

State:
* `artifacts` and `tags`: the two stores.
* `epoch`: a count of store writes.
* `pc` per request.
* `seen`: a reader's artifact read.
* `result`

Actions:
* `Upload`: 111-123.
* `AddTagLookup`, `CreateTag` and `AddTagList`: AddTag, 301-325.
* `DeleteTag`: 327-336.
* `ReadArtifacts` and `ReadTags`: GetPackageMetadata, 131-166.

Bounds: three uploaders, two versions, one dist-tag, two deleters (one with an empty list)
and one reader. 23,006 distinct states.

The read skew between lines 134 and 160 is reachable: an upload between the two reads yields
a `latest` tag naming a version absent from `versions`. No property states what a read
owes under a concurrent publish, because neither the code nor the spec says. The skew is
recorded as a hazard.

Concurrent uploads that both tag `latest` can store their versions in one order and tag
them in the other. `latest` then ends on the version stored first. The model reaches this,
but no property states which version `latest` should name, because neither the code nor
the spec says.

Runs:
* `npm_registry` (pass): `TypeOK`. A dist-tag only ever names a stored version, and a
  metadata read goes past its artifact query only when that found some; an empty list is
  NotFound.

### RegistryMetadata (`RegistryMetadata.tla`, `MC_RegistryMetadata.tla`)

Each behaviour serves one request, whose `kind` Init chooses. The inputs of the other
kinds keep a fixed value, so the state space is a sum over kinds and not a product.

* `base`: `GetRegistryRequestBaseInfo`. State: the references, `phase`, `root`, the
  function's `err` variable and `result`. Actions:
  * `Checks`: 101-113.
  * `FindRoot`: 115-118.
  * `FindParent`: 119-124.
  * `FindRegistry`: 126-148.
* `webhook`: a webhook request (`triggers`, and `hook` with `SecretSpacePath` and
  `SecretSpaceId`).
  * `MapToWebhook` (467-503) stores `triggers` de-duplicated, and the secret's space ID.
    That ID comes from the path if one is named, else from the ID.
  * `MapToWebhookResponse` (422-465) reads the space back through `PrimaryPath`.
* `upstream`: `setUpstreamProxyIDs` (234-286) on a registry request `dto`. It turns the
  listed upstream proxy keys into registry IDs (`UpstreamProxyIDs`, a `FlattenSeq` over the
  matching repositories). An ID equal to `BadRegID` is skipped.

`Dedup` and `DeduplicateTriggers` translate lines 505-522 (RECURSIVE). `FirstOccurrences`
is the reference definition they are checked against.

Bounds:
* references of up to 3 segments over {a, b};
* trigger lists of up to 4 over three triggers;
* four space paths (one an alias, one that does not resolve), and space IDs {0, 2, 3};
* upstream lists of up to 2 over four keys, three of which name a repository and one of
  those with the bad ID -1.

19,080 distinct states.

Runs:
* `registry_metadata` (pass):
  * `DedupMatchesReference`: the stored triggers are the first occurrences in order.
  * `SecretSpaceRoundTrip`: the space a webhook's secret is stored under is reported back
    under its primary path. A named path takes precedence over an ID.
  * `UpstreamIDsAreListed`: after a successful update, the registry's upstream IDs are
    exactly those of the listed keys, without the bad ones.
* `registry_error_cause` (violation): `ErrorWrapsCause`. Line 139 wraps `err`, which is nil
  at that point, instead of `getRegistryErr`. A registry lookup failure is returned without
  its cause, so `errors.Is(NotFound)` fails.

## 4. Not modelled

* Logging and error wording.
* The contents of secrets, SCM details and container images: only success or failure
  matters.
* The IDE `Setup`/`Run` scripts.
* Two `Resume*` calls in flight on one gitspace. The scheduler runs one operation per
  gitspace at a time (spec section 5), so the orchestrator never sees that
  interleaving.
* Generated protobuf code, DI wiring and enum declarations: they have no behaviour.
* The HTTP handler `HandlePRBranchCandidates`. It only parses the request, calls
  `PRBranchCandidates` (not in this repository) and renders the result.
* `GetRegistryRequestInfo` and `GetArtifactFilesRequestInfo` (`base.go` 151-209,
  524-566). Both copy optional query parameters into a struct and then call
  `GetRegistryRequestBaseInfo`, which is modelled. The paging helpers they call
  (`GetOffset`, `GetPageLimit`, `GetSortByField`) are not in this repository.
* npm search (`local.go` 169-259). Its results are what the artifact DAO's
  `SearchLatestByName` and `CountLatestByName` return, and that DAO is neither in this
  repository nor in the spec.
* `ide.go`'s `getHomePath`. Its callers, the IDE implementations, are not in this
  repository, so no property about the path it returns can be tied to a use.

The collaborators' internals are out of scope (spec section 1). They appear only as the
outcomes their interfaces allow.
