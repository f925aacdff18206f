# TLA+ specifications of k8s-role-graph

k8s-role-graph is an aggregated API server that answers one question about a
Kubernetes cluster: who may do what, through which roles and bindings, and which
pods and workloads use it. An in-process *indexer* keeps a snapshot of the
cluster's RBAC objects; a *review* request (`POST rolegraphreviews`) searches the
snapshot and returns a graph. This directory models the server's own logic in
TLA+, model-checks it with TLC on small instances, and proves most of its
safety properties with TLAPS for every number of informers, goroutines and calls,
and for any roles, bindings, callers and requests.

Paths below are relative to the repository's root (`src/` in PROJECT.json).

## 1. Inventory

| component | state it keeps | operations | what is hard |
|---|---|---|---|
| indexer (`internal/indexer/indexer.go`, `snapshot_build.go`) | eleven informer stores, a debounce timer, `rebuildMu`, the published snapshot, `synced` | informer events, `scheduleRebuild`, `rebuild`, `Start`, `Snapshot`, `IsReady` | event handlers, timer goroutines and `Start` interleave; rebuilds overlap; a rebuild lists eleven stores one after another; the timer restarts at every event; lists fail |
| token index and candidates (`snapshot_build.go`, `candidates.go`) | role identifiers by verb, resource, API group | `indexRoleTokens`, `CandidateRoleIDs` | must not lose what the matcher would accept |
| matcher (`internal/matcher`) | none | `MatchRule` in two match modes and two wildcard modes | many branches that must agree with each other |
| aggregation (`snapshot_build.go:119-222`) | sources of each aggregated ClusterRole | `indexAggregatedClusterRoles` | result of a map iteration; selectors that do not parse |
| snapshot (`snapshot_build.go`, `scoped.go`) | the maps a rebuild makes | `indexRoles`, `indexBindings`, `indexPods`, workloads, `Scoped` | keys of bindings without a namespace of their own; a scoped copy must stay consistent |
| discovery (`discovery.go`, `engine/query_rbac.go:117-346`) | a cache of served groups, resources and verbs | refresh loop, `ValidateSelector`, annotation of references | partial and failed refreshes; two loads per request; a limit |
| review request (`registry/rolegraphreview`) | nothing between requests | `Create` | loads the snapshot and the caches at different times |
| caller scope (`internal/authz`, `indexer/scoped.go`) | none | `Resolve`, `Scoped` | permissions are evaluated in another snapshot than the one shown; in a set of namespaces computed beforehand |
| RBAC graph (`internal/engine`) | the query context: nodes, edges, rows, seen-sets | `buildRBACGraph`, `filterPhantomRefs`, `upsertRoleNode`, `accumulateResourceRows`, `finalize` | a role is reached in two ways; rows and counters are kept apart from the graph |
| runtime chain (`engine/query_runtime.go`) | accounts of the drawn subjects, overflow nodes | `expandRuntimeChain`, `resolveWorkloadChain` | limits, cyclic and missing owners, accounts that share a node |
| nonresourceurls endpoint (`registry/nonresourceurl`) | none | `List` | what it lists is searched by other code |
| API types (`pkg/apis`) | none | `EnsureDefaults`, `Validate`, `NormalizeRuntimeFlags`, the conversions | everything exists twice, once generated and once kept the same by hand |
| start-up and readiness (`internal/apiserver`, `internal/app`) | options | post-start hook, readiness check | readiness is the only thing that keeps early requests away |
| web proxy (`cmd/rbacgraph-web/main.go`) | none but the calls under way | `handleQuery`, shutdown | three forms of body, a size limit, three time limits, the end of the process |
| web UI (`cmd/rbacgraph-web/static/app.js`) | catalogue and selection of selector values, last answer | query, discover | two flows that share state while answers are under way |

How they interact. client-go's informers call the indexer's handlers; a handler
arms the timer; the timer's goroutine rebuilds and stores a pointer, which is all
that readers see. `Create` validates the selector against the discovery cache,
loads the snapshot, optionally resolves the caller's scope (which loads the
snapshot again) and runs the engine on the (scoped) snapshot with the discovery
cache (loaded again). The engine asks the token index for candidates, the matcher
for references, draws roles, aggregation sources, bindings and subjects, and
last the pods and workloads of the service accounts it met. The web proxy posts
reviews for the UI.

## 2. Modules

| module | models | extends |
|---|---|---|
| `SnapshotRegister` | abstract: what a reader of `Snapshot()` and `IsReady()` may rely on | |
| `Indexer` | informers, timer, rebuilds, `Start`; refines `SnapshotRegister` | |
| `SnapshotReaders` | the indexer composed with the requests that load its snapshot | `Indexer` |
| `RoleSearch` | token index, candidates, matcher, the list of URLs | |
| `Aggregation` | label index and aggregation rules | |
| `NamespaceScope` | `namespaceScope` filters (operators only) | |
| `Snapshot` | the maps that a rebuild makes, and `Scoped` (operators only) | `NamespaceScope` |
| `CallerScope` | grants, `BuildScope`, `Allow...` (operators only) | `Snapshot` |
| `Review` | `Create` with the caller's scope, among publications of snapshots | `CallerScope` |
| `RoleGraph` | `buildRBACGraph`, resource map, counters, `finalize` | `NamespaceScope` |
| `RuntimeChain` | tracked accounts, `expandRuntimeChain` | `NamespaceScope` |
| `QueryEngine` | `Engine.Query`: aggregation, graph and runtime chain composed | `RuntimeChain`, `RoleGraph`, `Aggregation` |
| `Discovery` | discovery cache and a request that uses it | |
| `ReviewSpec` | both API types: defaults, validation, conversions, JSON (operators only) | |
| `WebProxy` | calls through the proxy and past it to `Create` (actions, no specification of its own) | `ReviewSpec` |
| `WebUI` | the page, scripts and kubectl on top of the proxy | `WebProxy` |
| `MC...` | the instances TLC checks | the module named |
| `IndexerProofs`, `RoleSearchProofs`, `ReviewProofs`, `RoleGraphProofs`, `RuntimeChainProofs`, `QueryEngineProofs`, `DiscoveryProofs`, `WebUIProofs` | theorems (`IndexerProofs` those about `SnapshotReaders`, `QueryEngineProofs` those about `Aggregation`, `WebUIProofs` those about `ReviewSpec` too) | the module named, TLAPS |

State and actions against the code:

* **Indexer.** `cluster`, `listed`, `store` are the API server and the informers
  (external, modelled from how the code uses them: a store is written before its
  handlers run, a broken watch may skip versions). `timer` is `rebuildTimer`,
  `pc`/`pos`/`next` the goroutines inside `rebuild`, `published` and `synced` the
  fields. `ScheduleRebuild` is `scheduleRebuild`, `Expire` the timer starting a
  goroutine, `Lock`, `ListKind` (one action per lister), `Publish` and `Unlock`
  are `rebuild`; `Boot`, `WaitForCacheSync`, `WaitFails`, `MarkSynced` and
  `Return` are `Start`. A kind's contents are represented by the number of
  changes made to it.
* **SnapshotReaders.** Steps of the indexer interleaved with those of any number of
  requests: `Arrive` (the sender may have asked the readiness check before),
  `LoadSnapshot` (`Indexer.Snapshot()` in `Create` and in `nonresourceurls`) and
  `Resolve` (the same in `LocalResolver`). `seen` is history: the newest version of
  each kind that any request has read. What a request does with its two snapshots is
  in `Review`, which takes from here that the second is no older than the first.
* **RoleSearch.** One role, one selector, three steps: build the tokens, look the
  role up, match its rules. Every role and selector of the instance is an initial
  state. A token is a sequence, so that `pods/exec` has a resource and a
  subresource; lower-casing is a function. A rule's verbs and resources are not
  the empty string, and spaces around a token are left out. `List` is what one
  role adds to the nonresourceurls endpoint's answer.
* **Aggregation.** One aggregated ClusterRole; selectors are taken in order, and
  the labels of `matchLabels` in any order (Go's map iteration), one bucket per
  step.
* **Snapshot, CallerScope, Review.** `history` is the sequence of objects from
  which snapshots were published; `Published(i)` builds the snapshot of position
  i. `shownAt` and `grantsAt` are the positions that the two loads of one request
  saw, and `Publish` may come before every step of the request. `Query` is the
  engine as a function: an empty selector (which every role with a rule matches),
  pods and workloads asked for and within the limits. It leaves out only what the
  properties do not ask about: the references, the rows and the shape of the
  graph, which are in `RoleGraph` and `RuntimeChain`. `MayList` is not the code's:
  it says what Kubernetes would let the caller list, and the code's grants are
  compared with it.
* **RoleGraph.** One action per role and per binding of the double loop, and
  `Finalize`; roles and bindings come in any order, which covers the order of
  names and of the informer's store. `Phantoms` are the references that
  `filterPhantomRefs` takes out (`Discovery` says which they are).
* **RuntimeChain.** Collecting accounts, then subject by subject and pod by pod;
  the owner walk is one action per turn. `UsesInScope` are the subjects that the
  double loop tracks: those of the bindings that `filterBindingsByNamespace` leaves.
* **QueryEngine.** The three parts as one query: every step is a step of one of them
  and leaves the others' state alone. `Build` is the indexer's loop over an
  aggregation rule, before the snapshot is published; `BuildRBACGraph`,
  `ExpandRuntimeChain` and `Answering` are the three calls of `Query`. What one part
  takes from another it has chosen in its initial state: the snapshot its sources,
  the runtime chain its service accounts. `SourcesIndexed` and `AccountsTracked`
  compare the choice with what the other part has come to; a behaviour that has
  chosen something else stops there. So the graph is drawn with sources that
  `Aggregation` finds, and pods are drawn for the accounts that `RoleGraph` meets.
* **Discovery.** Served triples (group, resource, verb); `FetchWhole`,
  `FetchPartial`, `FetchFails` are the client's three answers, `StoreCache` the
  replacement; `ValidateSelector` and `Annotate` are the request's two loads.
  `FetchFails` leaves the state as it is.
* **ReviewSpec.** A versioned record has the JSON names of the fields, an internal
  one the Go names; a list of strings is the set of them. `DecodeSpec` and
  `EncodeSpec` are JSON with `omitempty`.
* **WebProxy, WebUI.** A call is a record that moves through the proxy: `Refuse`,
  `Forward`, `Serve` (the API server: decode, convert, default, validate, ask the
  engine), `Read` (10 MB, cut or whole), `Fail`, `TimeOut`, `Write`, `Abort` (the
  browser), and `Stop` and `Restart` of the process. `Tick` is 10 s. A call that
  kubectl makes goes to the API server at once. `Query`, `Discover`, `Toggle`,
  `ClearChecks`, `FinishQuery` and `FinishDiscover` are the page. One of its four
  catalogues stands for all.

## 3. Runs

| run | question | instance |
|---|---|---|
| `indexer_safety` | no update is lost; permissions are no older than what is shown; a request after readiness sees what existed; no read goes back; refinement of the register | 2 kinds (one may fail), 2 timer goroutines and `Start`, 1 change per kind, 1 request that comes again and again, 1,284,094 states |
| `indexer_liveness` | convergence after the cluster is quiet; readiness | 2 kinds, 1 timer goroutine and `Start`, 1 change |
| `role_search` | index and matcher agree; modes are filters; references are granted; listed URLs are found | every role of one or two rules out of 33, 32 selectors, 4 modes, 287,232 states |
| `role_search_any` | (violated) `any` is OR between fields | roles of one rule and one of two |
| `query_engine` | no source is missed; sources exact when every label is carried; order does not matter; rows and counters agree with the graph; strict; shown and hidden add up; the nearest owners are shown; exactly the cut chains are reported; an account's node leads to its pods; every pod hangs on a matched role | 4 roles (3 of them ClusterRoles), 4 subjects of which 3 are accounts, 5 pods, chains of up to 4 owners, limits 2, 1 and 3, rules of up to 2 selectors, 726,774 states |
| `aggregation_all_labels` | (violated) sources carry all labels | as `query_engine` |
| `review` | the answer is listable by the caller; the namespace shortcut hides nothing | 12 worlds of 3 roles, bindings of roles of both kinds, 2 pods with owners; a user with a group and a service account; 2 publications, namespaces as written (trimmed, padded, blank), 292,608 states |
| `runtime_chain_clash` | (violated) every account shows its pods | as `query_engine`, where 2 RoleBindings name an account without its namespace |
| `strict_empty_scope` | (violated) strict leaves out the cluster-wide bindings | as `query_engine` |
| `discovery` | the two loads agree; expansions are served; the cache survives and converges | 3 served APIs, limit 2, 1 change |
| `web` | the engine gets what the client meant; the time limits nest; only whole and newest answers are drawn; queries uncheck nothing; buttons come back | 2 calls of the page (a query and a discover call, or one after the other), or one call of a script in five forms or of kubectl; 2 values that differ in case, 404,267 states |
| `rule_metadata` | (violated) rule metadata is always included | as `web` |

Bounds. `MaxVersion`, `MaxNotices`, `MaxPublished` and `MaxChanges` bound the
environment in the guards of its own actions, never the program's. Two kinds are
the least that give a snapshot of mixed ages; two timer goroutines and `Start`
are the least that have one building, one waiting and one arriving; three
publications let both loads of a request see different snapshots, with one before
and one after. In `indexer_safety` one change per kind is enough for it to be read,
missing and read again, and one place for requests for any two of them to be compared,
since it is taken again and again and `seen` keeps what all of them have read. The
limits of the runtime chain and of the expansion are smaller than the sets they cut,
and equal to some of them. In `web`, two calls are the least that overlap, and the
least that give an older and a newer query; `MaxAge` is one tick beyond the last
deadline, so an older call behaves as one of that age. Scripts and kubectl share no
state with the page, so they run on their own.

In `query_engine` the inputs of the three parts would multiply, so `MCInit` is the
union of three cuts: every labelling and every rule with a graph that has nothing to
draw (`CutAggregation`); every snapshot, match and scope, the namespaces written with
and without spaces, with a rule and labels that give just the snapshot's sources
(`CutGraph`); and every cluster of pods with four ways in which bindings name its
accounts (`CutRuntime`), two of which share a node: with their namespace, from
several bindings, and without it. In the last cut the accounts are those of the
bindings whose roles match, or those of all bindings, which the graph must refuse.
`QueryInit` holds in every cut, so nothing is started that `QuerySpec` does not allow.

Every run has `CHECK_DEADLOCK FALSE`: a request model ends when the answer is
there, and the indexer stops when its context is cancelled. A query whose choice was wrong
stops too, see `QueryEngine` above.

Fairness. In `Indexer`, weak fairness of each goroutine's step, of the informers
and of the timer: Go schedules every goroutine, client-go retries until it
delivers, and a mutex is handed on (Go's starvation mode: a waiting goroutine
gets it, which is why `Lock` has strong fairness). Nothing is assumed about the
cluster's changes: `quiet` is a flag that the environment may raise or not, and
convergence is claimed only after it. In `Discovery`, the refresh loop never
ends (`StoreCache` is weakly fair) and the cluster answers in full again and again
(`FetchWhole` is strongly fair): partial and failed answers may come in between
without limit. In `WebUI`, timers expire, what they start runs, an answer that is
ready is written and the page's event loop runs: `Tick`, `TimeOut`, `Write`,
`Abort` and the two `Finish` actions are weakly fair. Neither the API server's
answer nor the request's body nor a running proxy is assumed; the buttons come
back by the deadlines alone.

## 4. Proofs

`IndexerProofs` proves, for every number of kinds, every set of timer goroutines
and every bound, and from the assumptions named in `Indexer` only:

* `TypeCorrect`; `NothingIsLost`, an invariant of `indexer_safety`;
* `ReadyIsCovered` and `ReadersMoveForward`: a ready server has published what existed
  at the start, and no publication is older than the one it replaces, kind by kind.
  These are what the indexer owes its readers; the run checks what the readers
  themselves see (`AssuredIsCovered`, `ReadsMoveForward`, below);
* `RegisterIsImplemented`: `Indexer` implements `SnapshotRegister`.

None of these is inductive. Their common strengthening is `IndInv` (checked by
TLC as a part of `SystemInv` in `indexer_safety`). Its parts follow
the pipeline cluster, store, next, published: `OneBuilder` (the goroutine between
`Lock` and `Unlock` is the mutex's holder), `Causal` (no stage is ahead of the one
before it), `BuildsForward` (what is being built is at least as new as what is
published; this is where holding the mutex over lists *and* store matters),
`StartCovers` (from `Start`'s own rebuild on, everything built covers what existed
at the start), `NoStaleRead` (whoever read a lister too early is followed by a
rebuild that is due) and `NoLostUpdate`. Each part has a lemma that the next-state
relation preserves it.

The register compares a publication with the one before it, and a kind whose List
failed is exempt. So it does not say what two reads with such a publication in between
have to do with each other. `SnapshotReaders` does, and `IndexerProofs` proves for any
number of requests:

* `PermissionsNeverOlder`: the snapshot in which permissions are evaluated is in no
  kind older than the one shown;
* `ReadsNeverGoBack`: nor is any read older than any read before it;
* `AssuredAreCovered`: what a request gets after readiness covers what existed at the
  start, in both of its loads;
* `ReadersSeeTheRegister`: requests do not disturb the refinement.

The strengthening is `SystemInv` (an invariant of run `indexer_safety`): `IndInv`, and
above all `SeenStays`: what has been read is at most what the store holds, is shown by
every snapshot under way that has passed the kind, and by the published one. A List that
fails does not break it, because the store, not the snapshot before, is what the next
List reads.

`RoleSearchProofs` proves all of `RoleSearch`'s properties (`SearchTypeOK`,
`IndexAgrees`, `StricterIsLess`, `AllRestsOnOneRule`, `RefsAreGivenByRules`,
`ListedIsFound`) for any roles and selectors. The invariant `Inv` says what each
of the three steps has left behind, so that a property of the answer becomes one
of `IndexTokens`, `IsCandidate` and `MatchRole`. The lemma everything rests on is
`RuleMatches`: a rule matches exactly when every field of the kinds the selector
asks for resolves to some value. `FitIsIndexed` then compares the two
implementations token by token: what fits has its lower-case form, or `"*"`, in a
bucket that is read.

`ReviewProofs` proves `ShownMayBeListed` and `NothingIsHidden`, and the types, for
any objects, callers, requests and number of publications. Its invariant records
how `scope` and `answer` were computed and that `shownAt <= grantsAt`.
`ShownMayBeListed` follows from the soundness of grants (`PermissionIsAllowed`);
`NothingIsHidden` needs their completeness (`PermissionIsGrant`) where it counts:
`MentionedIsChecked` says that every namespace that can contribute to the answer
is among those checked, and `SameAnswer` that two scopes which agree there give
the same answer, the owner chain included, because an owner is in the namespace of
what it owns.

`RoleGraphProofs` proves all of `RoleGraph`'s properties that hold, for any snapshot, whatever
the order of roles and bindings. The invariant says of every moment of the double
loop what nodes, edges, references, seen-sets and rows hold, as a function of the
roles visited and of the bindings still to visit; the finished graph is then a
function of the snapshot.

`DiscoveryProofs` proves the types, `AcceptedNeverPhantom`, `ExpansionAlwaysServed`
and `CacheNeverLost` for anything a cluster may serve, any selectors and any limit.
The invariant keeps with a request the two caches it has loaded and what they said.

`RuntimeChainProofs` proves all of `RuntimeChain`'s properties that hold, for any pods, accounts,
owner references and limits: the types (`ChainTypeOK`: above all, that a walk along
owner references, however they are, meets no workload twice and is no deeper than
`maxOwnerDepth`), `PodsAlwaysAddUp`, `WorkloadsAlwaysAddUp`, `CutChainsAlwaysReported`
and `NodesAlwaysLeadToTheirPods`. Its three invariants are about three parts of the
state:

* `Inv` says of every subject what is drawn for it before, during and after its turn
  (`Untouched`, `UnderWay`, `Done`); `FirstPodsCount` counts the pods that a limit lets
  through, from their places in the order of names.
* `OwnersOK` says of every pod drawn what its walk has left behind: `Walking` of the one
  under way (its chain lies along the chosen owners of the pod), `Followed` and the
  overflow count of those before it. At the end of a walk `AfterIsChain` compares the
  chain with `After`, the recursive definition in the properties. The walk is a sequence
  and `After` a set built level by level, so the comparison goes by induction on the
  depth (`StepsFollowChain`, `StepsStayInChain`).
* `AccountsOK` says that the account under a node is that of some subject with that
  node, which is all that can be said when several share it.

`OwnersOK` and `AccountsOK` were checked by TLC on the pods of `query_engine`
before they were proved.

`ExpansionEnds` proves that the expansion ends without any fairness: `StepsLeft`, a
number made of the bindings, subjects, pods and turns that are left, goes down with every
step, also when owners form a cycle.

Induction. The library's induction theorems have an operator for a parameter. The lemma
`Induction` of `RuntimeChainProofs` takes a set instead (a set with 0 that has n + 1 for
every n has all of `Nat`), and follows from `NatLessThanWellFounded` and `WFMin`. With it
a recursive function can be shown to exist (`StepsExist`) and to be unfolded
(`AfterCollects`).

`QueryEngineProofs` proves of the aggregation, for any ClusterRoles, labels and selectors, the types
(`TypesHold`), that `indexAggregatedClusterRoles` misses no source
(`NothingIsMissed`), and that the sources are exactly those of Kubernetes when
every label asked for is carried by some ClusterRole (`SourcesAreExact`); without
that condition run `aggregation_all_labels` shows a source too many. The
strengthening has two halves, defined in `Aggregation` next to the properties:
`Progress` says that the selectors passed are covered and that the intersection
under way still contains every role its selector selects (a result that is still
nil has met only empty buckets); `NothingElse` says that nothing else became a
source and that the intersection is nil only before its first bucket.

Of the whole query it proves that every behaviour is one of each part
(`EngineRunsItsParts`): the parts' steps do not touch each other's state. So what is
proved of a part, without anything said about the others, holds of the query
(`QueryKeepsItsPromises`). One property needs all of them: `PodsAlwaysReached`. Its
strengthening says that whoever is the start of an edge to a pod was tracked
(`StartsTracked`) and that accounts are tracked only from what the finished graph has
drawn (`TrackedWhenDrawn`); the account under a node is that of a subject in the scope
by `RuntimeChain`'s invariant, and the binding's edges are there by `RoleGraph`'s.

`WebUIProofs` first proves of every specification, of any strings and numbers, that
the two copies of the defaults agree (`DefaultsAgree`), that each of them changes
nothing when it is filled in again (`DefaultsOnce`), that the two validations accept
the same (`ValidationsAgree`),
that conversion and JSON lose nothing (`ConversionsRoundTrip`, `JSONRoundTrip`) and
that the engine gets the same specification whoever fills in the defaults
(`EngineGetsTheSpec`). It uses them to prove the properties of `WebUI` but for its
liveness, for any number of calls and any scripts: the invariant types
every call, ties the engine's specification to what was meant (`CallOK`) and the
page to its calls (`PageOK`: at most one query and one discover call are under way,
and what is drawn is older than the query under way).

The proofs use the constants' assumptions only, which say what the API server
admits or an informer can hold: unique names, finite stores, rules with verbs, a
pod's owners in its namespace. TLC evaluates them in the runs.

What is only model-checked: liveness (`EventuallyConverges`, `EventuallyReady`,
`RefreshConverges`, `ButtonsComeBack`), since fairness and ENABLED are outside the
prover's reach. Every other property of a passing run is a theorem. The five properties
that runs show to be violated are not true and have no theorem.

## 5. Where the code and its documentation differ

Five are shown by runs (see "findings" in PROJECT.json):

* `matchMode: any` asks for every non-empty field (`role_search_any`).
* The intersection of label buckets forgets an empty bucket (`aggregation_all_labels`).
* Subjects that leave out their namespace in bindings of two namespaces share a node,
  and the binding indexed last decides whose pods it leads to (`query_runtime.go:155`,
  `runtime_chain_clash`). `NodesLeadToTheirPods` says when a node can be relied on.
* `strict: true` without namespaces does not keep out cluster-wide bindings, since the
  filter returns early (`strict_empty_scope`); it does drop ClusterRoles that nothing
  binds. `StrictKeepsToTheScope` is about requests that name a namespace.
* `includeRuleMetadata` is not set by `EnsureDefaults`, only by the web proxy
  (`rule_metadata`). `Intended` has it set, as the documentation says, and
  `EngineSeesWhatWasMeant` names the gap: kubectl calls that leave it out.

Others were met while modelling and have no run; the properties that hold are stated
so that they leave these cases out:

* `"*"` in a selector reads only the `"*"` bucket of the index, so it finds roles
  that hold `"*"`, not all roles (docs/api-reference.md:80); of such a role it
  then matches every rule (docs/query-guide.md:130). `IndexAgreesWithMatcher`
  excludes selectors with `"*"`.
* A role with `*/exec` is not found by `resources: ["pods/exec"]`
  (docs/query-guide.md:72-82). `IndexAgreesWithMatcher` excludes subresources.
* Under a steady stream of events the debounce timer is restarted for ever
  (`indexer.go:220`) and the rebuild that docs/architecture.md:93 promises does not
  start. `EventuallyConverges` is claimed for a cluster that becomes quiet.
* The web server has a graceful shutdown of 5 s, but `main` returns as soon as
  `ListenAndServe` does (`cmd/rbacgraph-web/main.go:93-109`), so calls under way end
  with the process. `Stop` does that.
* A body that is a bare specification without `selector` is taken for a selector
  and the rest of it ignored (`decodeClientRequest`); `EngineSeesWhatWasMeant` names
  the gap.
* `ruleCovers` does not look at `resourceNames` and takes the permission to list
  deployments for all workloads. `ShownIsListable` counts workloads as deployments;
  rules in `CallerScope` have no names. `AccessScope.Warnings` is never set.
* Without rule metadata `mergeRuleRefs` is not called and references may repeat in
  `matchedRuleRefs`; a set does not show it.
* `nonresourceurls` lists from the whole snapshot also with
  `--enforce-caller-scope`; it has no caller scope to model.
* Before the indexer is ready the empty snapshot is served; `ReadyCoversExisting`
  claims something of a ready server only.
* ClusterRoles that aggregate each other give a cycle of edges
  (docs/query-guide.md:317 calls the graph acyclic).
* The recipe with the verbs `bind` and `escalate` (docs/query-guide.md:138) is
  refused with 400 once there is a discovery cache: no resource lists these verbs.
* A namespace written with spaces is trimmed by the filter and not by
  `collectNamespacesFromSnapshot`; `NothingListableIsHidden` asks for namespaces
  without spaces.

## 6. Not modelled, and why

* Options, TLS, authentication and the generic API server's own start and shutdown:
  configuration and library code. Of the start-up, `Boot`, readiness and
  cancellation are in `Indexer`.
* The page's drawing, layout, filters and raw request and response, the proxy's
  static files, health check and headers: no property is about them.
* Generated deep copies, the OpenAPI definitions, manifests, Dockerfiles and styles
  have no behaviour of the project's own. The generated conversions are in
  `ReviewSpec`. `RegisterDefaults` is not called by the server.
* Labels, annotations, explanations, known gaps, the wording of warnings, the table
  form and the order of lists in an answer are data no property is about.
* Versions of one API group in discovery are merged. The contents of informer
  stores beyond their version are not in `Indexer`; the modules of the query start
  from objects or a snapshot.
* Seven hazards in PROJECT.json have a note in place of a property, because the code
  promises nothing there: a stream of events without end, kinds of different ages in
  one snapshot, no retry of a List, any number of waiting goroutines, requests before
  readiness, namespaces with spaces around them under caller scope, and two discovery
  caches in one request. Within the models' bounds each of them can happen.
* In `Review` a service account subject always has its namespace or takes its
  binding's; two accounts that share a node are in `RuntimeChain`.
* In `SnapshotReaders` a request is its two loads; `Review` has the rest of it.

## 7. Plan

Done, in this order: the indexer with its register and proofs; search;
aggregation; the review request; the graph; the runtime chain; discovery; the API
types; the web proxy and the page; the proofs of all of them.

Also done: `SnapshotReaders`, the composition of the indexer with the requests that
read it, and `QueryEngine`, the composition of the three parts of a query.

What is left: several roles at once in `RoleSearch`, which adds nothing as long as
roles are searched one by one; the page's three other catalogues.
