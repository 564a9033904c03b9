# GreenNode MCP servers: a verification project

TLA+ models of the Python monorepo under `src/`: a shared library, `mcp-core`, and five
Model Context Protocol servers that expose a cloud's products (VKS, vServer, vMonitor,
vBackup, vDB) as tools an agent calls. Every definition is translated from the code;
`PROJECT.json` maps each one to its lines. TLC checks each component on small instances
and TLAPS proves every safety property of the component models for every value of the
constants; liveness, and facts about the data of the tool tables, stay with TLC.

Paths below are short: `mcp-core/auth.py` is
`src/src/mcp-core/greennode/mcp_core/auth.py`, and `vks/k8s_apis.py` is
`src/src/vks-mcp-server/greennode/vks_mcp_server/k8s_apis.py`; likewise `vserver/`,
`vmonitor/`, `vbackup/` and `vdb/`.

## The system

One server process runs one asyncio event loop. Tools are coroutines, so another call
runs only where one awaits: an HTTP request, the token lock, a `sleep`, or a worker
thread (the kubernetes client). A cache hit or a free lock does not suspend. Two callers
can share a process: the service account of the environment, and end users whose token
arrives with each HTTP request and is passed through. This is where the hard behaviours
come from, and the models take exactly these points as the boundaries between steps.

### Inventory

| Component | State it keeps | Operations | What makes it correct |
|---|---|---|---|
| IAM token manager, `mcp-core/auth.py` | one token, its deadline, an `asyncio.Lock` | `get_token`, `_fetch_token`; clients reset the deadline | one refresh at a time, only when it is needed; a cached token is alive at IAM; every call returns |
| HTTP client, `mcp-core/http.py` | per call: attempt, `retry_auth` | `get/post/put/delete` over `_request` | a request bears its caller's token; retries are bounded; success means the API did it; every call ends |
| Discovery cache, `mcp-core/cache.py`, `*/discovery_cache.py` | a `TTLCache` per tool | `get_or_fetch`, `invalidate` | identities never mix; results are at most so old; acknowledged writes show |
| VKS kubernetes tools, `vks/k8s_*.py` | a cache of clients per identity and cluster | `manage_k8s_resource`, `apply_yaml`, reads | no client crosses identities; read-only mode changes nothing; manifests apply in order |
| vServer network ACLs, `vserver/networkacl_handler.py` | none; several requests per call | create, delete, subnets, rules | no edit costs a bookend rule it was shown; the report is true |
| VKS clusters and node groups, `vks/cluster_handler.py`, `nodegroup_handler.py` | none; cached discovery reads | 33 tools: create, update, delete, upgrade, healing, kubeconfig | what is said of a deletion is true; nothing is written by a tool that is not registered |
| Project discovery, `vserver/project.py`, `vks/discovery_handler.py` | cached project ids, located clusters | `require_project_id`, lookups | a caller's own project, in the right region |
| Paged lists, `*/paging.py` | a cursor per call | `fetch_all_*` | the list is complete when nothing moves, and off by no more than what moved |
| vServer tools, 19 handlers | cached lists | 181 tools: guard, checks, project, requests, invalidation | nothing is written without the guard or sent unchecked; a list shows what the server's own tools changed |
| vBackup tools, 8 handlers | cached lists | 66 tools: backups, destinations, policies | the same, across lists of several products |
| vDB tools, 15 handlers | cached catalogues | 161 tools: instances, clusters, configuration groups, topics | an update tells which instances must restart; a failed read does not make an error of a write |
| vMonitor tools, 27 handlers | none | 212 tools: metrics, dashboards, widgets, alarms, logs | a widget gets a free place of its dashboard |
| Server modes, `*/server.py`, `*/guards.py` | registered tools, current user token | start-up, transport, middleware | no write tool runs without `--allow-write` |
| Configuration, validators, models, prompts, scaffolding | none | pure functions | covered by unit tests; not modelled |

`PROJECT.json` lists under "components" the files of each and whether it is modelled,
and under "hazards" every behaviour of this code that is hard to test, at its line.

### Interactions

    tool handler ── get_or_fetch ──> discovery cache ──(miss)──┐
        │                                                       v
        ├── write, then invalidate ─────────────────────> HTTP client ──> product API
        │                                                   │    ^
        └── kubernetes client cache ──> cluster      get_token  401/403: reset, retry
                                                            v
                                                       token manager ──> IAM

A handler's read goes through the cache to `_request`; a miss suspends the handler, and
writes of other handlers can land and be acknowledged before the answer is stored.
`_request` of a service-account call queues on the token lock with all the others; one
call's rejected token resets the deadline that the others read. A user's call bypasses
the token manager, and its identity is part of every cache key.

## Modules

| Module | Code | Contents |
|---|---|---|
| `TokenManager` | `auth.py` | `get_token` between awaits, the lock's queue, IAM, transit, the clock |
| `ApiCall` | the promise of `http.py` | abstract: a call's request is carried out some number of times, at most a bound, and `ok` is answered only after it was |
| `BaseClient` | `http.py` | `_request`: attempts, retries, refresh, passthrough. EXTENDS `TokenManager`: every service call goes through its actions |
| `DiscoveryCache` | `cache.py`, `discovery_cache.py` | reads, writes with invalidation, refresh, expiry, eviction |
| `K8sTools` | `k8s_handler.py`, `k8s_apis.py`, `k8s_client_cache.py` | client cache; manage and apply against objects others change too |
| `NetworkAcl` | `networkacl_handler.py` | read, merge, PUT, poll; create, delete, subnets |
| `ToolSteps` | `guards.py`, `validators.py`, the calls a handler makes | the steps of a handler, what one cached list sees of them, and the three habits a handler should have |
| `VserverTools`, `VbackupTools`, `VdbTools`, `VksTools`, `VmonitorTools` (EXTENDS `VmonitorLogTools`) | `*/*_handler.py` of the five servers | one sequence of steps per tool, and what each cached list shows |
| `ToolServer` | `guards.py`, `project.py`, the caches, for several callers | runs any such table: guard, checks, project lookup, requests, invalidation |
| `ToolHabits` | | evaluates the habits of the five tables |
| `PagedList` | `vks/paging.py`, `vserver/paging.py`, `vbackup/paging.py` | a collection read page by page while its items come and go |
| `VksClusters` | `cluster_handler.py`, `nodegroup_handler.py` | EXTENDS `PagedList`: `delete_cluster`, its dry run and `list_nodegroups` over the node groups of a cluster |
| `ConfigGroups` | `vdb/relational_config_handler.py`, `vdb/memory_config_handler.py` | create, update with its re-read, delete; instances attached and detached |
| `Widgets` | `vmonitor/widget_handler.py` | read of the layout, choice of the place, POST, beside other edits of the board |
| `MC<Module>` | | constants and symmetry for TLC |
| `<Module>Proofs` | | theorems and their proofs; those about `TokenManager` are in `BaseClientProofs` |

### How state and actions correspond to the code

**TokenManager.** `accessToken`, `expiresAt` and `lock`/`waiters` are the three fields of
the object; `phase[c]` is where call *c* stands. `EnterFresh`, `EnterFetch` and
`EnterQueue` are the code from the call to its first suspension (the first check, then
the lock); `ResumeFresh` and `ResumeFetch` are the second check, made by the head of the
lock's queue; `FetchOk` and `FetchFails` are `_fetch_token` after its POST. IAM issues a
token in `IamIssue`, at a time of its own, because the code counts `expiresIn` from the
arrival of the answer (line 67). `Invalidate` is the assignment http.py line 207 makes.

**BaseClient.** A call moves through `pc`: it obtains a token, sends, and handles what
comes back. `ServerError`, `Timeout` and `Refresh` are the branches of the loop, and
`RetryOrFail` the end of the first two. What the API did and what the
client hears are separate: a request may be carried out and its answer lost, or be
answered 5xx after it was. The composition with `TokenManager` is by conjunction of its
actions, so the refresh of one call meets the queue of the others.
`BaseClient` implements `ApiCall` under the mapping of `KeepsPromise`.

**DiscoveryCache.** A read is `ReadHit`, or `ReadMiss`, `ApiReads` and `FetchReturns`
or `FetchRaises`: lookup, the moment the API reads its data, store. A write is
`StartWrite`, `ApiWrites` and `WriteReturns` (invalidate, report) or `WriteRaises`. The
API's data is a version number, which is all that staleness needs. One tool's cache is
modelled: each tool has its own `TTLCache` and nothing relates them. `overlapped` and
`forced` are history: they say what an entry's fetch lived through.

**K8sTools.** `clients` is the `TTLCache` of `k8s_client_cache.py`; `objects` is the
cluster. Each kubernetes call runs in a worker thread, so other tasks and outside
changes run between the lookup of an object and its create or patch. A manifest is a
sequence of documents; some lack a name.

**NetworkAcl.** A rule is the key `_rule_key` compares and the case of its protocol,
which the platform changes between write and read. The platform's own steps
(`Settle`, dropping rules, refusing) take any time and happen in any order, and it is
trusted little. What `/rules` answers of a busy ACL (`Shown`) is nothing, the set in force
or the one being applied: all the code says is that rule lists may be empty meanwhile
(280-284), and the update reads them without a look at the status (249-251). Of a set it is
sent the platform may drop any rule, re-appended bookends too: they go out in the upper case
they are read in, which lines 231-232 say the API rejects in a caller's rules. `PutRepeats`
is the client sending one set again after a late answer or a 5xx, any number of times (at
most 7 in the code). `blind` and `lost` are history variables that only `BookendsKept` reads:
the calls whose read a busy ACL answered without bookends, and the ACLs that such a read or
a drop may have cost one. No other
variable depends on them.

**ToolSteps and the tables.** A handler's definition is its calls in the order of the
code: `delete_vpc == Gate \o Check \o Project \o Change({"networks"}) \o
Drop("list_vpcs")`. `Change` names the resources a request changes, `Shows` the resources
the items of a cached list show (their fields, in the result models). A handler that
raises on its arguments anywhere before its first request has a `Check` there. One flag,
`valid`, says of a call whether its arguments pass, all of them together: a handler that
checked one argument before its first request and another after it would have its `Check`
before, and `NothingSentUnchecked` would not see the late one. A loop of
page requests or a `gather` is one `Get`. A tool without an entry in `TTL_CONFIG` is
never cached, so its read is a `Get` too. `SeenBy` reduces a tool to what matters for one
list: of the 181 tools of vServer no list sees more than 14 different sequences.
VKS and vMonitor have no `require_write`: their write tools are only registered under
`if self.allow_write`, so their tables put `Registered` before each of them; only the
tools of VKS that work inside a cluster ask when they are called. All of vDB's
lists are catalogues or belong to other products; vMonitor caches nothing, and `uncached`
stands for a list that nothing shows. VKS's `cluster_locate` is keyed without a project, in
the table as in the code: it is looked up without `Project`. `LateChecked` is the one tool
that asks the API something before it checks its argument: `delete_cluster` reads the node
groups first. It is kept out of the run, and `ToolHabits` says that it is the only one.

**ToolServer.** One action runs a call from the end of one await to the next (`Run`); a
known project and a cached list do not await. The lists do not touch each other, so each
behaviour watches one, chosen in `Init`. `Raises` ends a call at any await: what the API
did then is not acknowledged. The clock is left out: an entry may go at any time
(`Evict`). A key is identity, region and project, and leaves out the list's other
arguments, which only split entries further. The configured project is taken to be the
service account's own. `list_databases` of vBackup looks up its own list before the
inner one; the table has what it does when its own is missing.

**PagedList and VksClusters.** `reads[t]` holds the locals of `fetch_all_vks_items` or
`fetch_all_items`: the page and what was collected. `PageAnswer` is one turn of the loop
and `More` its condition; `FirstAnswer` is the bare request vServer and vBackup begin with.
`Insert` and `Delete` change the collection between two pages; `there`, `removed` and
`inserted` are history, what the properties compare the answer with. The node groups of a
cluster are the collection, and `calls[t]` is a tool's position: `ListingRaises` lets
`delete_cluster` go on to its request, as the code's `except` does, and `ApiDeletes` is
the API's own check, made when it carries the request out. With `service = "vserver"` the
same collection stands for any list of that server, read by `ListItems`.

**ConfigGroups.** A call runs through write, re-read and the lookup of the parameters;
each may fail, and `missed` records that one of the reads did. The platform's answer to an
update may name the engine and the instances or leave them out (the comments report it
measured that they are left out); `ApiUpdates` allows each. The two families differ in
wording, in the verb of the delete, and in that a deleted group in memory is still found
for a while, so the re-read of a group that is gone may answer or fail. `affected` is
history: the instances this call put into RESTART_REQUIRED that are still attached.

**Widgets.** `Places` are the positions the two loops of `_next_grid_slot` visit, `Free`
those where no cell is taken, and `First` the one visited first. The read and the choice
are one step, since nothing awaits between them; the POST is carried out in `ApiCreates`,
several times if the client repeats it. `unseen` is history: the widgets a call, and the
widget it places, cannot know of.

## Runs

| Run | Instance | What it shows |
|---|---|---|
| `token_manager` | 3 calls, clock to 4, 3 tokens | concurrent calls share a refresh, no dead token is served, all return |
| `base_client` | 2 calls, 2 users and the service account, 1 retry, 3 tokens | identities stay apart, requests are bounded, the client implements `ApiCall` |
| `base_client_live` | 2 service calls, 2 tokens, fairness | every call returns although the API may never answer |
| `discovery_cache` | 2 tasks, 2 identities, TTL 1, clock to 3, 2 changes | isolation, bounded staleness, writes show |
| `discovery_cache_doc` | 2 tasks, 1 identity | finding 1 |
| `k8s_tools` | 2 tasks, 2 identities, 1 cluster, 1 name, 2 documents | clients never cross, read-only changes nothing, order, no silent overwrite |
| `network_acl` | 2 updates of one ACL, 3 rules, 2 polls, fairness | no edit costs a bookend it was shown and the platform kept, the report is true, updates end |
| `tool_server` | 2 calls of 660 tools, 2 callers, each of 8 lists of 5 servers, 1 change | no handler writes unguarded or sends unchecked; a call works in its caller's project; the lists show the server's own changes |
| `tool_server_doc` | vServer's tools, `list_vpcs` | finding 2 |
| `vks_clusters` | 2 calls, 3 items, pages of 2, both services | a listing lacks and repeats no more than what moved, and ends; the answers to `delete_cluster` are true |
| `config_groups` | 2 calls, 2 instances | an update tells of every instance that needs a restart; no write is reported wrongly |
| `widgets` | 2 calls, 3 widgets, 3 x 2 grid | placed widgets stay inside the grid and overlap only what their call could not see |

### Bounds, and why they are enough

* *Calls and tasks.* Two overlapping calls exhibit every race between a check and its
  use. The token lock needs a third: one holder and two in the queue is the least in
  which the second in line could refresh again. A key of the discovery cache is shared
  only by calls of one identity, so two tasks and two identities give both a shared and a
  separate entry. The theorems have no such bound.
* *Time.* `MARGIN = TIMEOUT = 1` keeps the code's relation (60 s, 30 s: `TIMEOUT <=
  MARGIN`) at its tightest, where an off-by-one shows. `MCTokenManager` lets the clock go
  to 4, so a token is issued, delayed, used to its margin and replaced. In
  `MCBaseClient` the clock stands still: a token is fresh until a call invalidates it,
  which is the only way `_request` itself makes one stale. Expiry is the subject of
  `TokenManager`, and the theorems about `BaseClient` are for any clock.
* *Retries.* `MAX_RETRIES = 1` has a first, a middle and a last attempt in both loops.
* *Tokens.* 3 tokens are one in use, its replacement, and one fetched by another call in
  between.
* *Versions.* Two changes of the data are the least at which an older and a newer answer
  can arrive in either order after a write.
* *ACL.* The three rules are a bookend, another rule with a bookend's sequence number
  (the merge compares sequence numbers and keys) and an ordinary rule. Nothing tells one
  bookend from another, so one of the platform's is enough. `Attempts = 2` is
  a poll that continues and one that gives up (15 in the code).
* *Tools.* Two calls of any two tools, by the service account and a user: a call that
  reads or changes a list while another one does. One change is enough for a list to be
  stale or not; one region, since a call never leaves its own. The lists watched are the
  five that tools of their server change and every one of those maintains, and one list of
  each server whose own tools change none (vDB, VKS, vMonitor): the views of such lists
  differ only in which reads are hits. The theorems are for any callers, regions, tools
  and changes.
* *Pages.* Three items in pages of two are the least of which one can cross the boundary
  in either direction; each item comes and goes once. A reported total may exceed what is
  listed by one, never fall short of it, and is always reported: without one the code
  stops after the first page, which the APIs of the three products do not do.
* *Configuration groups.* One group, since calls on different groups share nothing. Two
  instances: one that stays attached while the other comes and goes. A delete names this
  group alone. `delete_*_configurations` takes several ids and checks the answer only for
  being empty and for failed rows (565-588): an answer without a row for one of several ids
  is outside the model, so `ReportTrue` says nothing of it.
* *Widgets.* Three columns and two rows, sizes 1x1 and 2x1 (10 columns, 1000 rows, sizes
  5x2 and 3x2 in the code): a wide widget does not fit beside another, a narrow one does,
  and the grid can be full. A third widget is one placed by hand between two others.

### Fairness

No property needs the environment to be kind. Weak fairness is assumed of:

* a task whose await is over: the event loop runs ready tasks;
* the end of each request, by an answer *or a failure*: httpx is given a timeout on every
  request (`DEFAULT_TIMEOUT`), so one of the two comes;
* the wake-up from a `sleep` between polls or attempts.

Nothing is assumed of IAM, the product API or the platform: they may never issue a token,
never answer and never settle. `GetTokenEnds`, `CallsEnd` and `UpdateEnds` hold all the
same. Safety runs assume no fairness. `CHECK_DEADLOCK FALSE` is set only for the ACL,
where every update may have ended and the one ACL be deleted.
Clusters, groups and widgets are checked for safety only: their
calls await nothing but requests, whose end `base_client_live` shows.

## Proofs

Every theorem is stated of the module's specification for any constants that satisfy its
ASSUMEs. Each follows the same argument: an inductive invariant, one step per action,
the property from the invariant, and PTL at the end.

* **BaseClientProofs, the token manager.** `SingleFlight` and `FetchOnlyWhenStale` are not
  inductive: one needs that a call is fetching exactly when it holds the lock, the other
  that the token does not become fresh while the lock is held (only the holder writes it,
  and time only ages it). `CachedTokenAlive` needs the invariant that `expiresAt` is at
  most the token's own deadline plus the transit time, which is at most `TIMEOUT`; with
  `TIMEOUT <= MARGIN` the margin covers it. That assumption is the code's 30 and 60 s and
  the proof shows where it is used. `TokensMoveForward` follows from the single
  flight: an answer in transit is newer than what is cached. `NobodyForgotten` and
  `QueueMovesUp` are the safety half of `GetTokenEnds`: whoever waits is in the queue, once,
  and moves up in it until it resumes, and a lock that is taken is held by a call whose
  POST will end. All that liveness adds is that POSTs do end.
* **BaseClientProofs, the client.** Extends the token manager's invariant with what each
  call has sent and with which tokens. `RetryUsesNewToken` needs that the token a refresh
  yields was fetched after the rejected one. `SendsBounded` is for any `MAX_RETRIES`.
  `ClientKeepsPromise` is one refinement, upwards: the initial states map to `ApiCall`'s and
  every step to one of its steps or a stutter. `ClientUsesTokenManager` is another,
  downwards: every step of the client is one of the manager's own or leaves it alone, so
  what is proved of the manager by itself holds inside the client
  (`ManagerKeepsItsPromisesInClient`), with the invalidations of http.py line 207 where they
  really come.
* **DiscoveryCacheProofs.** `BoundedStaleness` needs that an entry's data was read at most
  `MaxFetch` before it was stored; `CacheShowsAckedWrites` that an answer read after an
  acknowledgement is at least that new, and that `acked` never passes `version`.
  `LaterFetchShowsMore` says what is left of "`refresh` fixes that" (finding 1): a fetch
  shows every write acknowledged before its call, and an entry gives way to older data only
  if the fetch that brings them was begun before the entry's own data were read. It rests on
  `ReadInOrder`: of any two answers seen, in entries or on their way, the newer version was
  read no earlier.
* **K8sToolsProofs.** `ClientIsolation` needs that every *cached* client belongs to its
  key, and that a client under construction belongs to its call. `AppliedInOrder` needs, of
  a call under way, that what it has applied is its manifest up to the document it is at,
  and that created and updated add up to that; a call that failed may have written one
  document more, whose answer was lost. `OnlyNamedChanged` follows from
  `ClientIsolation`: a call changes an object only through a client of its own caller for
  the cluster it names, and only an object of its manifest.
* **NetworkAclProofs.** `BookendsKept` needs that the bookends of an ACL that is not `lost`
  are also in `pending` and in what every call that is not `blind` has read, however long
  ago it read it. So a stale read is as good as a fresh one, and only two things can cost a
  bookend: a read of a busy ACL shown without it, and a platform that drops what it is sent
  (`TakenKeeps`). That the theorem has these exceptions and no others is its point.
  `NothingUnasked` is the other direction, that an
  ACL never holds a rule no call asked for on it. Its invariant says of what each call has
  read that it came from the same ACL's sources, which are only ever added to: the merge
  may bring back a rule removed meanwhile, but never one from elsewhere.
* **ToolServerProofs.** Each theorem about what handlers do has one habit of the handlers
  as its hypothesis: `HandlersGuarded`, `HandlersCheckFirst`, `HandlersMaintain`. These
  are facts about a table, and `ToolHabits` has TLC evaluate them on the tables of the five
  servers, so the theorems hold of every list whose habits hold; `tool_server` shows the
  conclusions on the tables themselves. `OwnProject` needs that every remembered and
  configured project is its caller's own. `ListShowsOwnChanges` needs that a call
  suspended at a lookup of the list knows what was acknowledged when it began, that what
  it has read is no older, and that `acked` never passes `version`; a drop always follows
  an acknowledgement within one step, which is what the habit says.
  `ReadOnlyServerChangesNothing` goes one further than `ReadOnlyServer`: without
  `--allow-write` the resources themselves stay as they are. `ProjectsOwn` and
  `CacheOfOwnProject` say why `OwnProject` is enough for the caches: the remembered
  projects, and the project in every key, are those of the caller.
* **ConfigGroupsProofs.** `RestartTold` needs that `affected` is always a subset of
  `attached`, so whatever a later read finds attached contains it, and that once a call
  waits for the parameters without a failed read it knows the engine and `affected` is
  within `known`. `ReportTrue` needs that a call that has heard of its write is past the
  step that may raise, and that a delete that was done left the group gone for good.
* **VksClustersProofs.** `ListingAccurate` is not inductive: it speaks of finished
  listings. The invariant says of an unfinished one, for the position it has reached, how
  many items that were there all along are skipped for good (`Skipped`, at most what was
  removed) and how many of those collected will be met again or lie ahead (`Again`,
  `Ahead`, at most what was inserted); an insertion or removal moves at most one item
  across the position, and a page moves the position over what it collected. Pages are of
  any size and the collection of any. That a listing ends (`TypeOK`) follows from the
  length of the collection: an empty page stops it. `UndisturbedListingComplete` is the case
  the comment in `vks/paging.py` means, each half under the condition it really needs:
  what others insert hides nothing, what they remove repeats nothing. `AnswersTrue` needs
  that at most one call has its DELETE done, because the first leaves the cluster gone.
* **WidgetsProofs.** `OverlapsExplained` needs, of a call that is posting, that it knows of
  every widget on its place except those it cannot know of: the others are off the place
  when the board is read, and whatever comes later is added to `unseen`. That the code's
  first free place exists at all (`First` is a `CHOOSE`) is `FirstExists`: among the places
  that are free there is one least in the order of the two loops, because `<` on the
  naturals is well-founded. `GridAssumption` says that the widgets that are placed
  automatically fit the grid, as the sizes of `widget_handler.py` do; `PlacesInGrid` then gives
  the bound in `TypeOK`.

Assumptions about what is outside the code, in the models and so in the proofs: IAM's and
the server's clocks run at the same rate; an ACL is edited through these tools only, and a
busy one shows no rules but those in force or being applied; list endpoints keep their order and report totals that are not too small; the VKS API deletes no cluster that
has node groups and vDB no configuration group in use, as the tools' docstrings say.

**Only model-checked**: the liveness properties `GetTokenEnds`, `CallsEnd` and
`UpdateEnds`, since fairness is out of the prover's reach; the two findings, which are
counterexamples; and that the tables of the five servers have the three habits, which
`ToolHabits` evaluates over data and the proofs of `ToolServer` take as
hypotheses.

**Only proved**: `NobodyForgotten`, `QueueMovesUp`, `LaterFetchShowsMore`, `OnlyNamedChanged`,
`NothingUnasked`, `ProjectsOwn`, `CacheOfOwnProject`, `UndisturbedListingComplete` and
`ReadOnlyServerChangesNothing` are stated beside their proofs, and no run lists them.

## Findings

1. `discovery_cache_doc`: "`refresh` fixes that" (vdb `discovery_cache.py` 53-54). A fetch
   begun before the refresh and answered after it stores the older list over the newer.
2. `tool_server_doc`: `list_vpcs` promises the VPCs in the project, and every other
   create tool of a cached list drops that list. `create_vpc` and `update_vpc` do not drop
   `list_vpcs`: for up to 120 s it lacks the VPC just created.

Other behaviours the models show, and that the properties are stated around:

* `_request`'s docstring promises up to `MAX_RETRIES` retries and one more after a
  refresh. The refresh calls `_request` again, whose loop starts from zero: a call sends
  up to 2 x (MAX_RETRIES + 1) = 8 requests, which is the bound of `SendsBounded`.
* "`protocol` is sent lowercase" (`networkacl_handler.py` 231-232): the bookends
  re-appended from the read keep the spelling of the read.
* "an edit cannot silently turn the ACL into deny-all" (228-230) rests on the platform.
  Without its exceptions `BookendsKept` fails in two ways, each ending in a success. An
  update begun while the ACL is busy, say after `update_network_acl_subnets`, which does
  not wait, is shown empty lists, has nothing to re-append, and its PUT goes out when the
  ACL has settled. Or the platform drops a re-appended bookend, and the comparison at
  265-266 looks at the caller's rules only. What the platform really does in either case
  the repository does not say, so this is recorded here and among the hazards, not as a
  finding.
* When the re-read of a configuration group fails after an update, the answer says that no
  instance uses the group, although some may now need a restart: `RestartTold` excepts it.
* "agents always see the complete collection" (`vks/paging.py`): only undisturbed.
  `ListingAccurate` says by how much a listing can be off.
* "so a new widget never overlaps one already on the dashboard" (`_next_grid_slot`): it
  does when the read failed, the grid is full, or another came after the read.

`ToolHabits` names all cached lists that outlive changes they show. Beside `list_vpcs`
they are `list_placement_groups` (servers created into or deleted out of a group), four
lists of vBackup (the number of servers that use a policy or destination; the policy and
destination of a server or database) and VKS's `cluster_locate` (where a deleted cluster
was). No document promises their freshness, so they are
recorded there and among the hazards, not as findings.

## Plan

The most important behaviour first: every tool of every server goes through the token
manager and the client; then what is shared between calls; then single protocols.

1. Done: `TokenManager`, `BaseClient` over it, `ApiCall` as its abstract specification.
2. Done: `DiscoveryCache`.
3. Done: `K8sTools`, `NetworkAcl`.
4. Done: `ToolSteps`, `ToolServer`, the tables of all five servers.
5. Done: `PagedList` with `VksClusters`; `ConfigGroups`; `Widgets`.
6. Left: `validate_nodegroup_create` over cached lists that are read twice, and a flavor
   list assembled from platform codes of which one failed; both need the content of cached lists.
7. Left: `ServerModes`, the transports and the middleware of the user's token.

Theorems: every safety property of every run is proved. Not worth adding is that the cache
of `ToolServer` refines `DiscoveryCache`: one `Run` of the server may store the answer of one
lookup and begin the next, two steps of the other module, and the server keeps none of the
history (`overlapped`, `forced`) that the staleness properties speak of. The server's own
`ListShowsOwnChanges` states what carries over. Worth adding: that a re-read of a configuration
group does no harm to another call's report, and what a sequence of edits leaves in an ACL
when they do not overlap.

## Not modelled, and why

* Configuration, validators, result models and prompts: pure functions of a file, of
  identifiers and of an answer, covered by unit tests. `Check` stands for "raises".
* What a handler puts into a request or reads from an answer, except where a detailed
  module has the handler: network ACLs, clusters, configuration groups, widgets.
* `mcp-core`'s scaffolding (`scripts/new_server.py`) and the convention tests: not part of
  a running server.
* Start-up and transports of a server, which happen before any call or per HTTP request
  and are tested as such; the choice among several projects of the portal.
