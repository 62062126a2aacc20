# DocIngest: TLA+ models, model checks and proofs

DocIngest turns uploaded documents into searchable chunks and a knowledge
graph. A FastAPI service accepts files and URLs, three arq workers convert,
chunk and analyse them, and four stores keep the results: MongoDB, MinIO,
Qdrant and Redis. Nothing spans two stores in one transaction. What makes the
system correct is the order of the single writes, and what happens to that
order when requests overlap, workers die and calls fail. The same holds of the
layer around the documents: accounts, organizations, subscriptions, quotas and
rate limits are sequences of single database calls too. This directory models
these parts of the code, checks them with TLC and proves the central facts with
TLAPS.

Contents: [Inventory](#inventory), [Modules](#modules),
[Abstractions](#what-the-models-leave-out), [Not modelled](#not-modelled),
[Runs](#runs),
[Disagreements](#where-the-code-and-its-documents-disagree),
[Fairness](#fairness), [Proofs](#proofs), [Plan](#plan).

## Inventory

Paths are relative to `src/docingest/`.

| Component | State | Operations | Hard part |
|---|---|---|---|
| Document API, `api/routes/documents.py` | none of its own; each request holds what it read | upload, URL and batch ingestion, delete, reprocess, reads | a request is a sequence of awaits over four stores; it overlaps other requests and the jobs of the same document, and may stop half-way |
| Stores, `db/mongodb.py`, `db/blob.py`, `db/qdrant.py` | document records, raw and markdown objects, points | one request to one server each | no transaction, no unique hash index, raw objects named by hash, points with fresh ids |
| Job queue, `db/redis.py` and the `WorkerSettings` classes | queued and running jobs, tries | enqueue, run, redeliver, give up, time out | at-least-once execution without de-duplication |
| Converter, `workers/converter.py` | the record it read | `convert_document` | redelivery from the start, errors swallowed into FAILED |
| Chunker, `workers/chunker.py` | the record it read | `chunk_and_embed` | clears on the version it read earlier; batches |
| Graph worker, `workers/graph_builder.py` | the record it read | `build_graph` | writes the document status back together with `graph_status` |
| Client, CLI, MCP server | none | `wait_for` polling | relies on a terminal status being final |
| Graph store, `db/graph_store.py` | entities, relationships, communities | upserts, removal of a document's references | counters, orphans, concurrent builds |
| Entity extraction, `services/entity_extraction.py` | none | `resolve_entity` | resolves against a list read earlier |
| Community detection, `services/community_detection.py` | communities and their links | rebuild of all levels | nothing keeps two rebuilds apart; links have two sides; titles are not unique |
| Chunking, `services/chunking.py` | none | splitting and overlap | pure algorithm, boundaries |
| Quota and usage, `services/quota.py`, `db/usage.py` | usage events | `enforce_quota`, `record_usage` | check and record are apart |
| Rate limiter, `services/rate_limiter.py` | token buckets in Redis | one Lua script per request | clocks of several API replicas, expiry, changed limits |
| Organizations, `api/routes/organizations.py` | memberships and roles | create, add, change, remove | last-owner check and update are apart; add is an upsert |
| Users, `api/routes/auth.py` | users, the tokens they hold | bootstrap, signup, login, create, update, delete | count and insert are apart; signup writes two collections; tokens outlive what they say |
| API keys, `api/auth.py`, `services/api_key_service.py` | keys | create, update, delete, authenticate | a request goes on with the key it looked up |
| Billing, `api/routes/billing.py`, `db/subscriptions.py` | subscriptions | checkout, Stripe webhooks, change of plan | redelivered, reordered and overlapping events; several subscriptions of one tenant |
| Search, health, telemetry, configuration, frontend, folder watcher | none relevant | reads and I/O | none |

How they interact: the API writes the raw object and the record and enqueues
`convert_document`; the converter writes the markdown object and the record and
enqueues `chunk_and_embed`; the chunker writes points and the record and, with
`graph_rag_enabled`, enqueues `build_graph`. Delete and reprocess act directly
on all the stores while any of these jobs may be queued or running: neither
looks for them nor stops them. Each handler reads the document record once and
goes on using that copy.

Every request with an API key first looks up the key, then takes a token from
its bucket in Redis, then checks the scope. Ingestion and search go on to read
the plan of the tenant, which the subscription row selects, and the usage of the
month, and record their own usage at the end. Subscription rows are written by
Stripe's webhooks and by the owners and administrators of an organization.
Users reach the administration with a JWT whose claims the routes trust.
Communities are computed from whatever entities and relationships the graph
builds have left at the time.

What makes the pipeline correct:

- the record of a document never points to something that is not there;
- what a handler assumes of the record it read is true, whatever overtook it;
- COMPLETE means that the chunks are there, all of them, of the right version;
- deletion is final, and work that starts after it leaves nothing behind;
- every accepted document reaches a terminal status and stays there.

What makes the rest correct:

- an organization has an owner, and the installation an administrator;
- a subscription row says what Stripe says, of the right tenant, and a paid plan
  has been paid for;
- a key gets no more requests through than its bucket allows, and a tenant uses
  no more than its quota, up to what overlapping requests and batches can add;
- the hierarchy of communities is a forest whose links agree on both sides;
- chunking loses no text, a chunk is not much longer than its limit, and it
  knows its headings.

`PROJECT.json` lists the components with their status, and the hazards at their
lines with the properties that watch them.

## Modules

| Module | Models | State |
|---|---|---|
| `Stores` | the stores and the single requests to them | `docs`, `raw`, `markdown`, `points`, `graph` |
| `Arq` | the job queue, the steps every handler is built from, the disturbances | `jobs`, `disturbances` |
| `Api` | upload, delete and reprocess, one action per awaited call | `reqs` |
| `Converter` | `convert_document` | |
| `Chunker` | `chunk_and_embed` | |
| `GraphWorker` | `build_graph` | |
| `Pipeline` | composes them: Init, Next, Spec, FairSpec and the properties | |
| `Lifecycle` | what a client is promised about one document | `phase`, `version` |
| `GraphStore` | entities and relationships, graph builds and removals call by call | `entities`, `relationships`, `nextId`, `marked`, `actors` |
| `Communities` | the graph that communities are looked for in, `build_communities` and the rebuild route, write by write | `graph`, `communities`, `rebuild` |
| `Organizations` | the routes of organizations and memberships, one action per database call | `created`, `member`, `req` |
| `Accounts` | users, tokens and their routes, composed with `Organizations` | `user`, `issued`, `tokens` |
| `Plans` | the plan catalog and the plan a row selects | |
| `Billing` | checkout, Stripe's events and their handler, change of plan | `rows`, `stripe`, `handling` |
| `RateLimiter` | the token bucket script | `now`, `bucket` |
| `Quota` | the monthly quota and its record | `tier`, `used` |
| `Admission` | a metered request (key, bucket, scope) and its items (quota, work, record), the only one or the URLs of a batch; composes the two above | `keys`, `req`, `item` |
| `Chunking` | `chunk_document`, one step per turn of a loop | `items`, `sections`, `chunks` and the local variables |
| `MC...` | constants for TLC | |
| `PipelineProofs`, `LifecycleProofs` | theorems of the pipeline, the second module on top of the first | |
| `GraphStoreProofs`, `CommunitiesProofs`, `AccountsProofs`, `BillingProofs`, `AdmissionProofs`, `ChunkingProofs` | theorems of the module in the name | |

`Api`, `Converter`, `Chunker` and `GraphWorker` extend `Arq`, which extends
`Stores`; `Pipeline` extends them all and adds `UNCHANGED` for what a component
does not own. `GraphStore` stands alone: it opens up what `Stores` keeps as the
set `graph` and what `Pipeline` does in the single steps `GraphClear`,
`GraphPut` and `CleanGraph`, and lets any build and any removal run at any
time, which is more than the pipeline does.

How to read an action against the code:

- A *job* is a record with the stage its handler has reached (`pc`), the number
  of its tries, and `snap`, the document record the handler read. Each stage is
  the stretch of code up to the next call that another process can notice.
  `mark` is the status write at the start of a handler, `fetch` is
  `get_document`, `get` the download, `put` the upload or upsert, `finish` the
  write of the last status, `enqueue` the `enqueue_job` call, and `fail` the
  single FAILED write that ends every except clause.
- The last step of a handler (`Return`, or `EnqueueNext` when its last call
  enqueues the next job) ends the job, or leaves it to be delivered again: a
  worker may die after the last effect of a handler and before arq records the
  end of the job, and then the whole job runs again with its effects in place.
- A *request* is a record with the stage of its route and what it read first:
  the document, its hash and whether it had a markdown path.
- `docs[d].md` says whether `markdown_blob_path` is set, `content` stands for
  `source_hash`, `chunkCount` counts batches.
- `StartJob`, `GiveUpJob`, `CrashJob`, `AbandonJob`, `ErrorInJob`
  are arq and the environment: a job is started when it is queued and has tries
  left, dropped when it has none, run again when its worker dies or shuts down
  (`crash`), and finished without another try when it exceeds `job_timeout` or
  lets an exception out (`abandon`). A thread that was uploading the markdown is
  not stopped by the timeout: its upload may still land (`landing`,
  `ConvertLand`), whatever has happened to the document meanwhile. `error` is an exception in a call of a
  handler; `lostReply` is an `enqueue_job` that took effect and raised all the
  same; `abort` is a request that is rejected by the quota, raises, or dies
  with its API process. All of them are bounded by `MaxDisturbances`.

- In `GraphStore` an *actor* is a build or a removal with the stage it has
  reached: a removal goes through `pull` and `purge`
  (`delete_doc_graph_data`), a build through `mark`, the same two when the
  record it read tells it to clear, `find` (`find_entities_by_names`),
  `upsert`, `id` (the second request of `upsert_entity`) and `relate`.
  `update_many` and `delete_many` visit one entity after the other: `todo` are
  the entities still to be visited, in any order, and other actors may step in
  between. `entity_lookup` is `lookup`, and `match` the entity that
  `resolve_entity` chose from the list `known`, which was read before the first
  upsert. `Cut` ends an actor at any stage and `RestartBuild` is arq running a
  build again. `marked` are the documents with a `graph_status`, and `troubled`
  is an auxiliary variable that no guard reads: the documents that two actors
  have worked on at one time, or a `pull` of which was cut short.

- In `Organizations` and `Accounts` a *slot* is a request and the stage it has
  reached: `target` (find the member), `owners` (count the owners), `write`,
  `insert` (a user), `org` and `owner` (the two inserts of
  `create_organization`). A token is the user and the role it was issued for;
  routes of administrators are enabled by a token, as in the code, and not by
  the user. `excused`, `outdated` and the field `late` are auxiliary: they
  record that requests overlapped, that a token was used which lied, that users
  were inserted after `bootstrap` had counted. No guard reads them.
- In `Billing` one id stands for a checkout session and for the customer and
  the subscription it makes, since a checkout never names a customer.
  `stripe[i].sent` are the events of subscription `i`, and any of them may be
  delivered at any time and any number of times, which covers loss, delay,
  redelivery and reordering. A subscription event is two steps (`ReadRow`,
  `WriteRow`), a checkout event one, since it reads nothing. `trail` is
  auxiliary and records in which order the events of `i` were applied.
- In `RateLimiter` a minute has `MinuteTicks` ticks and a token as many parts,
  so that the refill of a tick is a whole number. `skew` is by how much the
  clock of the replica that asks runs ahead of the clock of Redis, which expires
  the hash. In `Admission` a request keeps what it looked up (`rate`, `scopes`)
  until it has passed the limiter, and then how many URLs it has left (`urls`). An
  *item* is one `_ingest_url_core` of a batch, or the only work of any other
  request: it has a place in the semaphore of `batch_ingest`
  (`BatchConcurrency`, ten in the code), keeps the `limit` of the plan it read,
  and checks and records for itself. `granted` and `trace` are auxiliary.
- In `Communities` a *rebuild* holds the entities it has read, then the groups
  still to be written or linked (`todo`). Parent and child are linked in two
  steps (`SetParent`, `AddChild`), as in the code. `cut` and `last` are
  auxiliary.
- In `Chunking` a chunk is a range of units (paragraphs, or the sentences of the
  only paragraph) of a section; `unit` and `from` are the loop variable and the
  start of `current_chunk`.

Operators whose names carry an underscore and a suffix (`ConvertPut_NotAwaited`)
are plausible mistakes in the operator they precede. They are used by nothing
in the specification; substituting one for the operator it is named after must
make TLC find a violation of the property it is meant for, which shows that
the property watches that line of the code.

## What the models leave out

- One tenant, except in `Billing`: every query of the code carries the tenant,
  so tenants share no state.
- `Upload` covers the file, the URL and the batch routes: after the bytes are
  in hand, `upload_document` and `_ingest_url_core` are the same sequence.
- Conversion, chunking, embedding and entity extraction are pure; they can only
  fail, or yield no chunk (`EmptyContents`).
- The upserts of one graph build are one step that leaves one reference, and
  the removal of a document's references is one step: the model tells whether
  a build has left references, not which.
- In `GraphStore`, the relationships of one `update_many` or `delete_many` are
  one step, and a pair of entities has one relationship whatever its type.
  Aliases, chunk ids, descriptions and weights are left out: no operation reads
  them. An entity stands for its name and type together, and the ratio of
  `SequenceMatcher` for equal lower-case forms (ratio 1) before similar ones
  (`Close`): `find_entities_by_names` finds the entities of any type that are
  spelled like a mentioned name (`Spelling`), and `resolve_entity` chooses among
  those of the same type. When one call of a `gather` fails, the other may still run to its
  end; here both stop.
- `get_doc_chunks` scrolls through Qdrant in pages; it is one step here.
- Docling runs in an executor thread and survives the timeout of its job; its
  result is dropped, so it has no effect on the stores. An upload in such a
  thread has one, and is modelled (`ConvertLand`).
- The time of a retry, back-off and polling intervals are not modelled: any
  delay is possible.
- Listing, statistics and search change nothing.
- Passwords, signatures, the URLs of Stripe and the organization claim of a
  token are left out. A request that was refused before it read anything is no
  step. The suffix that makes a slug unique always succeeds, so slugs are left
  out too.
- Events of a subscription made by hand in Stripe, without the metadata of a
  tenant, are not modelled; for all others the two `if not tenant_id` returns
  of `handle_stripe_event` are never taken.
- `graph_build` has limits in the catalog, but no code enforces or records it.
- The Leiden algorithm is any partition into connected groups, a different one
  for each level, so what is shown holds for every outcome of it. Summaries,
  and embeddings are left out.
  `ChangeGraph` lets the graph become any of `Graphs` at any time.
- A markdown is a sequence of headings, paragraphs and blank lines; a paragraph
  is the list of the lengths of its sentences. A heading is a line of
  `HeadingLength` characters, whatever its level; the length matters only to a
  markdown of headings alone, which the code keeps as a single section with its
  headings for a text. That text is taken to be one sentence: when it is too
  long, the code would also split it after headings that end in a full stop.
  `char_offset` is the sum of the
  lengths of the chunks before, overlaps counted twice, and not modelled.

## Not modelled

- Conversion and reranking, telemetry, logging, health: calls into libraries and
  I/O that keep no state another part reads.
- The ranking of search results and of communities by embedding: floating-point
  arithmetic on the outputs of models.
- What entity extraction finds in a text: spaCy and regular expressions.
- The Qdrant collection cache: nothing deletes a collection, so it cannot be
  stale.
- The folder watcher: it reads a setting that `Settings` does not define and
  stops at start-up.
- `get_entity_neighbors`: no route and no worker calls it. For one hop it follows
  relationships in both directions, for several hops from source to target
  only, so that two hops can miss a neighbour that one hop finds; its docstring
  ("Get connected entities for an entity") does not say so.
- The statistics of `admin.py` and the read routes of `graph.py`: single reads.
- The frontend, the benchmarks and the other scripts: clients of the API.

## Runs

Every run sets `CHECK_DEADLOCK FALSE`: each request of the model is made at
most once, and when all are served and the queue is empty the system stops.
A job that is over gives its id back once nothing it wrote is left in Qdrant or
the graph (`FreeJobs`), so `JobIds` bounds the jobs at one time; every pool is
large enough never to be exhausted, which was checked as an invariant
(`FreeJobs # {}`) of each configuration.

| Run | Configuration | Properties | What it shows |
|---|---|---|---|
| `races` | one document, its upload, one reprocess and one delete at any time, graph on, one call raises; fairness | `TypeOK`, `PointVersionBound`, `DeletedGainsNothing`, `EveryDocumentSettles`, `GraphStatusSettles` | however the two requests overtake the three jobs, chunk versions stay between 1 and the version of the document, deletion is final, a job that starts after it adds nothing, and both versions settle whichever job writes last |
| `disturbed` | the same requests without the graph, one disturbance of any kind; a conversion has two tries, a chunking job one | `SnapshotHasMarkdown`, `MarkdownBacked`, `DeletedGainsNothing` | a chunking job always finds the markdown path in the record it reads, the object behind a path is there until a deletion of the document begins, and a deleted document gains data only from jobs that had read its record, an upload that lands late among them |
| `patient` | clients that poll to a terminal status and then reprocess or delete, two documents of equal or different bytes, two batches, two errors | `CompleteIsConsistent`, `SourceBacked`, `RawHasOwner`, `DeletionLeavesNothing`, `ImplementsLifecycle` | for such clients the pipeline implements `Lifecycle`, a COMPLETE document has exactly its chunks, and its source is lost only to a deletion of equal bytes; a deletion leaves no chunk behind, and without errors no object |
| `settles` | fairness, graph on, one upload, two batches, contents with and without chunks, two errors or crashes, three tries | `CompleteHasAllChunks`, `EveryDocumentSettles`, `GraphStatusSettles` | the document ends at a terminal status for ever, COMPLETE only with all its chunks, and its `graph_status` does not stay at `building` |
| `graph_store` | two builds and a removal at any time, two documents that share an entity, which one of them also mentions under a similar name; one actor is cut short | `TypeOK`, `MentionsCoverDocuments`, `OrphansAwaitPurge`, `RelationshipsConnect`, `OnlyOwnRemovals` | mention counts, orphans and the ends of relationships survive every overlap of builds and removals |
| `communities` | two rebuilds that overlap or follow each other, each of which may be cut, two levels of any partitions, a graph that changes between three shapes with homonyms, an entity that is gone, and too few entities | `TypeOK`, `ParentKnowsChild`, `ParentsAreCoarser`, `LastRebuildIsStored` | links agree on both sides and have no cycle, and a rebuild during which no other writes is stored as it was found |
| `accounts` | two user ids, two names, an organization, two requests that overlap and may be cut | `TypeOK`, `OwnersRemain`, `AdminRemains`, `BootstrapComesFirst` | the last owner and the last administrator go only in the ways the code leaves open, and those are named |
| `billing` | two tenants, two subscriptions with four events together, two webhook requests | `TypeOK`, `LinksAreOwn`, `PaidPlanWasBought`, `InOrderRowMirrorsStripe` | in no order of deliveries does a row link to what another tenant bought or carry a paid plan nobody reported, and events in order leave what Stripe has |
| `admission` | a key whose limit changes, requests with batches of up to three URLs, two of which are worked on at a time, two clocks one tick apart, a minute of two ticks, plans with limits one, two and none, three recorded events in a month | `TypeOK`, `BucketBound`, `QuotaOvershoot` | a bucket lets through what it holds and what refills while its stamps move forward, and a month exceeds a granted limit by less than the number of items that can be in progress |
| `chunking` | every markdown of up to six items of seven kinds, a limit of four tokens, an overlap of two | `TypeOK`, `EverythingIsChunked`, `ChunksFit`, `ChainEncloses` | the sections have every paragraph in its order, or the headings where there is nothing else; the chunks of a section leave no gap and each goes further than the one before; the token count that is reported of a chunk is bounded, and headings are those that enclose the text |

The bounds: one document is enough for every run but `patient`, because the
only state two documents share is the raw object of equal bytes, which
`patient` has. Two batches are the fewest that can be cut in the middle. One
reprocess against an unfinished first version gives two conversions and two
chunking jobs at once. With `MixedTries` one disturbance shows a redelivery as well as tries that are used
up. `CodeTries` are the numbers of the `WorkerSettings` classes. A redelivery
multiplies the jobs: a conversion that runs again after it has enqueued its
chunking job enqueues a second one, and so on down the chain; this is why
crashes and a reprocess come together only in `disturbed`, without the graph,
and why that run takes more than four million states.

`ImplementsLifecycle` is a refinement: the phase of a document is computed from
its record (`Phase`), and every step of the pipeline must be a step of
`Lifecycle` or leave phase and version alone. It holds for patient clients and
without redelivery only: a redelivered job begins by writing CONVERTING or
CHUNKING over a terminal status, and an impatient reprocess leaves the old jobs
running, which write terminal statuses of their own.

`GraphStatusSettles` needs tries to be left: the real `max_tries` of
`build_graph` is 2, and after two crashes the job is dropped with
`graph_status` at `building`. `settles` therefore allows three tries and two
disturbances, and shows that nothing but this leaves the status behind. With a
reprocess as well, one error and one crash are enough: the redelivered build
finds the document FAILED by the second conversion, skips it, and no later
build follows. One lost reply and one crash are enough as well: the chunking job
has enqueued the build and, as the reply is lost, writes FAILED, and a build that
was under way is then redelivered and skips the document. `settles` therefore
has errors and crashes only.

In `graph_store` two builds and one removal give every pair of actors that can
meet (build and build, build and removal, and, with builds that clear, two
removals at once); the third actor is what another document adds. The two names
are similar and of one type; homonyms of another type, which
`find_entities_by_names` also returns, are covered by the theorems, which hold
for every `Spelling` and `Close`, and not by the run. The builds
differ in their names only, so they are symmetric, and one may work on either
document. `MentionsCoverDocuments` is an inequality because the code promises
no more: a document that mentions an entity twice adds two and takes away one.
`RelationshipsConnect` excepts the documents in `troubled`, and must: when two
actors work on one document, or its removal stops half-way, relationships that
lead nowhere do remain, which TLC shows at once when the exception is dropped.

The bounds of the other runs. In `accounts`, two requests are the fewest that
overlap, two users the fewest of whom one can be the last owner or
administrator; user ids are never given out again. In `billing`, two tenants
are the fewest between whom a link can go wrong, two subscriptions the fewest
that one tenant can have at once, and four events let one subscription be
bought, changed twice and cancelled, or both be bought and changed. In
`admission`, a hash that lives for two minutes expires within the four ticks,
and the highest finite limit and one more event fit below `MaxUsage`. There is
one request at a time, whose items overlap: two items are the fewest that can
check before either records, and a third begins when one of them is done. That
the requests of many keys overlap adds more items of the same kind, and the
theorem covers any number of requests and places. All keys
have every scope there, since a request that lacks one ends as one that fails
at any later point does. In `communities`, three rebuilds in all would be
needed for nothing that two do not show: what an earlier rebuild has left is
there when the second begins. In `chunking`, six items are enough for a heading
of level 3 between two of level 2 with a text under each, and the longest
paragraph has three sentences, of which one exceeds the limit by itself.

The exceptions in the properties are the ways in which the code does fail, and
TLC shows at once that each is needed. `OwnersRemain` leaves out organizations
two of whose members were changed by overlapping requests, one of whose owners
`add_member` demoted, or whose creation was cut. `AdminRemains` leaves out the
demotion of an administrator and the use of a token of a user who is no longer
one. `InOrderRowMirrorsStripe` is about the only subscription of a tenant: after
a second checkout, a late event of the first subscription overwrites the row of
the second. `LastRebuildIsStored` lets groups of one rebuild whose most
mentioned entities have the same names share a community: the later one
overwrites the members of the earlier. `ChunksFit` is a bound on what
`count_tokens` reports of the joined text, which may exceed the limit: the loop
compares the limit with the sum of the units' counts, each rounded down, and
leaves out the joins (`MostCharacters`); an overlap and a unit that does not fit
beside it may exceed it further. `ChainEncloses` leaves out
markdown in which a heading of level 3 comes before the first of level 2: its
next sibling is nested under it.

## Where the code and its documents disagree

Each of these runs checks one statement of the repository and finds a behaviour
of the code that breaks it.

| Run | Statement | Behaviour |
|---|---|---|
| `claim_last_owner` | organizations.py:143 and :159, "Cannot demote the last owner", "Cannot remove the last owner" | two owners each demote the other; both requests count two owners before either writes. Or one `add_member` call names the last owner with another role |
| `claim_webhook` | billing.py:93, "Idempotent — safe under Stripe's at-least-once redelivery" | bought, cancelled, and the checkout event delivered again: the row is active and no further event will come |

Others came up while the models were written, and can be seen in them:

- DESIGN.md:371, ingestion is idempotent by hash: two uploads of the same bytes
  look for the hash before either inserts, and both insert (`UploadLookup`,
  `UploadInsert`).
- DESIGN.md:149, the raw file is stored under the id of the document: two
  documents of equal bytes share `raw/{hash[:12]}`, and deleting one removes the
  source of the other (`DeleteRawBlob`; `SourceBacked` says that nothing else
  does).
- README.md:121, DELETE removes the document and its chunks: a chunker that has
  read the record upserts its points after the delete, and they stay searchable
  (`ChunkPut`; `DeletedGainsNothing` says that only such a job does).
- DESIGN.md:373, three attempts: `job_timeout` cancels a run, the handler's
  `except Exception` does not see it and arq does not retry (`AbandonJob`): the
  document stays CONVERTING.
- 10-RESEARCH.md:190, do not change `status`: a build reads COMPLETE, a
  reprocess sets PENDING, the build writes COMPLETE back with `graph_status`
  (`WriteGraphStatus`).
- documents.py:158, `chunk_size` is "Max tokens per chunk": what the limit is
  compared with is the sum of the units' token counts, each rounded down, while
  the `token_count` of a chunk is that of the joined text. Under a limit of four,
  four paragraphs of seven characters make one chunk of 34 characters, reported
  with eight tokens; at four characters a token, a chunk may have up to about two
  and a quarter times the limit. A paragraph longer than the limit is not
  split when its section has others, and an overlap together with a long
  paragraph exceeds the limit too (`TakeUnit`, `TokenCount`; `ChunksFit` states
  the bounds).
- README and DESIGN say that headings are preserved as a hierarchy
  (DESIGN.md:164): see `StartsWithLevel3`.

## Fairness

`FairSpec` assumes weak fairness of the steps of each accepted request and of
each job. The code justifies both: uvicorn runs every handler it has accepted
to its end unless the process dies (`abort`), and arq workers poll their queues
for ever, with enough slots (`max_jobs`) for every job to be picked up. Nothing
is assumed of what clients do or of when disturbances strike; a request that is
never made and a failure that never happens are allowed. No strong fairness is
needed, because no step of one process disables a step of another for good.

## Proofs

`PipelineProofs` proves, for every set of documents, contents, jobs and
requests, every number of batches, tries and disturbances, and both settings of
the graph and of patience:

| Theorem | States |
|---|---|
| `Invariance` | `Spec => []Inv`, the inductive invariant |
| `TypeCorrect` | `Spec => []TypeOK` |
| `SnapshotsHaveMarkdown` | `Spec => []SnapshotHasMarkdown` |
| `PointVersionsBounded` | `Spec => []PointVersionBound` |
| `DeletedDocumentsGainNothing` | `Spec => DeletedGainsNothing` |

They rest on the assumptions of the modules about their constants
(`StoresAssumption`, `ArqAssumption`, `ApiAssumption`) and on nothing else.

The argument. None of the properties is inductive: that a snapshot has the
markdown path depends on the record having had it when the job was enqueued,
and on no step taking it away since. So `Inv` says what each job, each request
and each point knows about the documents (`JobOK`, `ReqOK`, `PointOK`, with the
documents as a parameter), and `Evolves` says the few ways in which a step may
change the documents: a live record keeps its markdown path and never lowers
its version, a deleted one never changes, a new one starts at version 1. Three
lemmas (`JobStable`, `ReqStable`, `PointStable`) show that what was known
survives every such change; `UpdateEvolves` and its relatives show that every
operation on the records is such a change. What is left, one case per action,
is what the action does to its own job or request, which `GotoOK`, `FetchOK`,
`ReturnOK`, `EnqueueNextOK` and `ProceedOK` cover for the steps that handlers
share. `NextInv` puts the cases together. The invariant was checked with TLC on
the configurations of `races`, `disturbed` and `settles` before it was proved.

For `DeletedDocumentsGainNothing`, `OnlyWritersAdd` goes through the actions to
show that only the put steps of the three workers add to a store, and
`WritersHoldSnapshots` that a job at such a step holds the record of a document
that existed.

Its second part proves what the stores keep, for the same constants:

| Theorem | States | Hypothesis |
|---|---|---|
| `MarkdownIsBacked` | `Spec => []MarkdownBacked` | |
| `SourceIsBacked` | `Spec => []SourceBacked` | |
| `RawObjectsHaveOwners` | `Spec => []RawHasOwner` | |
| `CompleteDocumentsHaveAllChunks` | `Spec => []CompleteHasAllChunks` | no deletes, no reprocesses |

The records, the jobs and the stores meet in a long case analysis, which is made
once: `HandlersWrite` and `RequestsWrite` say in which ways a step may change a
record (`UpdateWrites` and its relatives), `OwnJob` and `OtherJobs` what it does
to the jobs, `OtherRequests` and `DeletionLasts` what it leaves of the requests.
`MarkdownInv` adds to `Inv` that a conversion past its upload and a record with
the path have the object behind them, or a deletion that has begun;
`SourceInv` builds on it for the raw object, which `ContentOrigin` traces to the
upload that stored it. `OwnerInv` goes the other way, from an object to its
owner: a document counts as the owner of its raw object until a deletion has
removed it (`Giving`), which is what makes the removal of an object that several
documents share, and its second upload in between, a case like any other.
`CompleteInv` says of every chunking job past its first
batch which points of its own run are already in Qdrant (`RunOK`, `Written`);
points of an upload-only document never go away except by a run that starts
from nothing, so a record that is complete keeps a whole run (`Whole`), even
when a redelivered job writes a second one beside it. The hypothesis is what
the property needs: a reprocess takes away the chunks of a complete document
before its record says so, and for documents that are reprocessed the stronger
`CompleteIsConsistent` below is what clients get.

`LifecycleProofs` proves what patient clients are promised, for every number of
documents, clients, jobs and batches:

| Theorem | States | Hypothesis |
|---|---|---|
| `PipelineImplementsLifecycle` | `Spec => ImplementsLifecycle` | `Undisturbed` |
| `CompleteDocumentsAreConsistent` | `Spec => []CompleteIsConsistent` | `Uninterrupted` |
| `DeletedDocumentsLeaveNothing` | `Spec => []DeletionLeavesNothing` | `Undisturbed` |

`Undisturbed`: clients poll to a terminal status before they reprocess or
delete, the graph is off, and of the disturbances only errors inside handlers,
abandoned jobs and aborted requests happen; what redelivery and impatience do to
the refinement is said under [Runs](#runs), and with the graph on a graph job
still works on a document that a patient client takes for settled.
`Uninterrupted` also leaves out aborted requests (`AbortRequest`): a reprocess
that raises or dies between its cleanup and its new version leaves a complete
document without its chunks. `patient` satisfies both hypotheses.

The argument is one of exclusion. `LifeInv` says that a document has at any time
at most one job or one request that works on it, that the job works on a
document that has not settled, and the request on one that has, until its write
of the new version. This is inductive because a job hands over to its successor
in its last step only, and because patience makes the test of a client and its
claim of the document one step. `StepRefines` then reads each step as a step of
`Lifecycle` (`PhaseSteps`) with `LifeInv` at both ends. For the chunks,
`ConsistentInv` says exactly which points are there at each stage of the only
chunking job (`ChunkRunOK`), that nothing is left when a run begins, and that
`Matches` holds of every complete record whose document no request serves;
`RunPointsCount` counts the points of a run, one per batch. For deletions,
`CleanInv` says that a request past a store has emptied it, which lasts because
no job works on the document, and that the markdown path it read is still that
of the record; `MarkdownOwned` that an object without a path in the record
belongs to a conversion that is about to write it, and that no upload of an
abandoned run is still to land (`NoUploadLands`), as long as there are no
disturbances. An impatient delete leaves
what `DeletedGainsNothing` allows: the chunks of a job that had read the record.

`GraphStoreProofs` proves, for every set of documents, names, builds and
removals, whatever the texts mention and relate, and any number of cuts:

| Theorem | States |
|---|---|
| `GraphInvariance` | `Spec => []Inv`, the inductive invariant |
| `GraphTypeCorrect` | `Spec => []TypeOK` |
| `MentionsAreEnough` | `Spec => []MentionsCoverDocuments` |
| `OrphansAreDeleted` | `Spec => []OrphansAwaitPurge` |
| `RelationshipsLeadToEntities` | `Spec => []RelationshipsConnect` |
| `DocumentsLeaveByRemoval` | `Spec => OnlyOwnRemovals` |

They rest on `GraphStoreAssumption`. The mention count is inductive entity by
entity (`Covered`): `ForgetCovers` and `MentionCovers` are the two facts about
cardinalities, and the first needs that the decrement is guarded by the
membership of the document, as the filter of `update_many` guards it. That
orphans are deleted needs a strengthening (`OrphansHandled`, `Responsible`): a
build that has yet to mark its document will clear only if the record it read
tells it to, and a build that was cut must, when it runs again, be told to,
which holds because it had marked its document before it cleared.
`OrphansStayHandled` says when a step keeps somebody responsible for each
orphan, and each action is an instance of it. For relationships, `ConnectInv`
says what a build knows (`KnowsOK`): every id in its `entity_lookup` leads to an
entity of its document, as long as the document is not in `troubled`. This needs
that two actors on one document make it troubled, so that no other removal takes
the document away from an entity, and that a removal which finds no
relationships to pull can rely on there being none.

`CommunitiesProofs` proves, for every graph, every way to cut it into groups, any
number of levels and any number of rebuilds that overlap or are cut:

| Theorem | States |
|---|---|
| `Invariance` | `Spec => []CommunitiesInv`, the inductive invariant |
| `CommunitiesAreWellFormed` | `Spec => []TypeOK` |
| `ParentsKnowTheirChildren` | `Spec => []ParentKnowsChild` |
| `LinksHaveNoCycle` | `Spec => []ParentsAreCoarser` |
| `TheLastRebuildIsStored` | `Spec => []LastRebuildIsStored` |

They rest on `CommunitiesAssumption`: the entities are finitely many numbers, the
graphs have their shape, and `None` is not the progress of any rebuild.
`RebuildsInv` says what a rebuild still has to do at each of its writes, and
that the keys it has stored are there, which holds because no rebuild takes a
community away; `LinksInv` that a child whose parent does not list it yet is
about to be listed (`Told`), or its rebuild was cut, and that links lead to
coarser levels. `Upserts`, `SetsParent` and `AddsChild` describe the three
writes, and `OthersStay` and `StaysTold` what they leave of the other rebuilds.
For `LastRebuildIsStored` the invariant is strengthened by `AchievedInv`, which
says of a rebuild that writes alone what it has achieved so far, group by group.
Titles and the order of the groups are least elements: `LeastNumber` follows
from the strict inclusion of finite sets being well-founded, and
`EveryPlaceIsTaken` that the place of a name among the others ranges over all
numbers.

`AccountsProofs` proves, for every finite set of users, every set of names and
organizations, and any number of requests in progress:

| Theorem | States |
|---|---|
| `AccountsInvariance` | `Spec => []Inv`, the inductive invariant |
| `AccountsTypeCorrect` | `Spec => []TypeOK` |
| `OwnersAreKept` | `Spec => []OwnersRemain` |
| `AdministratorsAreKept` | `Spec => []AdminRemains` |
| `BootstrapIsFirst` | `Spec => BootstrapComesFirst` |

They rest on `OrganizationsAssumption`. A request that has counted the owners
writes later what it decided then, so `OwnersRemain` is not inductive.
`WriteSafe` says that whatever such a request is about to write leaves another
owner, and this stays true only as long as it is the only one about to write to
that organization (`OneWrites`), unless the organization is excused. Creation
needs `NewOrgs`: until the owner of a new organization is added, no other
request knows of it. `QuietStep`, `PassStep` and `MemberStep` are the three ways
in which a step touches this argument: not at all, by deciding, and by writing;
each action is an instance of one. `AdminRemains` is inductive given the types,
and `Counted` says that a `bootstrap` about to insert saw no user unless one
came later.

`BillingProofs` proves, for any tenants, subscriptions, prices, statuses, number
of events and number of webhook requests:

| Theorem | States |
|---|---|
| `BillingInvariance` | `Spec => []Inv`, the inductive invariant |
| `BillingTypeCorrect` | `Spec => []TypeOK` |
| `LinksStayOwn` | `Spec => []LinksAreOwn` |
| `PaidPlansAreBought` | `Spec => []PaidPlanWasBought` |
| `RowsMirrorStripe` | `Spec => []InOrderRowMirrorsStripe` |

They rest on `BillingAssumption`. A tier may be carried by a row whose plan is
not active, and by a request that has read such a row, and become a paid plan
later; `Inv` therefore says of every row and every request in progress
(`RowOK`, `ReadingOK`) that its tier was bought, whatever its status. What Stripe
has only grows (`Evolves`), so what was owned and bought stays so; `RowStep`
covers the three actions that write a row, and `StripeStep` those of Stripe.
`RowsMirrorStripe` needs a second invariant, `InOrderInv`: as long as the
deliveries of the only subscription of a tenant are straight, its row mirrors
the last event that was applied (`Mirrors`), at most one request is in progress
for it, and that request carries the status of its event and the tier the
events up to it report. `LastTier` picks an event, so the invariant states it as
a relation (`IsLastTier`) that one more event carries on, and `RowsMirrorStripe`
shows at the end that the relation and the choice agree.

`AdmissionProofs` proves, for any keys, limits, clocks, plans, tenants, any
number of requests in progress, and any size and concurrency of batches:

| Theorem | States |
|---|---|
| `AdmissionInvariance` | `Spec => []Inv`, the inductive invariant |
| `AdmissionTypeCorrect` | `Spec => []TypeOK` |
| `BucketsAreBounded` | `Spec => []BucketBound` |
| `QuotasAreOvershotByLess` | `Spec => []QuotaOvershoot` |

They rest on `RateLimiterAssumption` (clocks differ by at most a minute),
`QuotaAssumption` and `AdmissionAssumption`. For the bucket, `RefilledBound` is
the heart: what the script finds is at most what the bucket had and what the
highest limit refills while the stamp moves forward. When the hash has expired
this needs `LivesLong`: the expiry of two minutes lies a full minute after the
last stamp, however far that ran ahead, so that a full bucket has been refilled
by then in any case. For the quota, `WorkGranted` is what makes the bound survive
the end of a month: an item at work was granted a limit of at least one, and so
they cannot all exceed the empty month. The items that can be in progress are
the places of all semaphores, a finite set (`PlacesFinite`); `GrantStep` is the
step that admits one more of them, when the month has not reached the limit.

`ChunkingProofs` proves, for every set of paragraphs, every length of a
markdown, every limit and overlap, and any number of characters to a token:

| Theorem | States |
|---|---|
| `ChunksAreRanges` | `Spec => []TypeOK` |
| `TokenCountsAreBounded` | `Spec => []ChunksFit` |
| `ChainIsTheHeadingsAbove` | `Spec => []ChainEncloses` |
| `NothingIsLost` | `Spec => []EverythingIsChunked` |

They rest on `ChunkingAssumption`. The model computes with two folds over
sequences, `Total` and `NonBlank`, and with `FlattenSeq`, and what a fold
returns takes an induction over its recursive function. The library states
induction for a predicate, which these provers cannot instantiate; `UpTo`
states it for a set of numbers up to n, which they can. `Recursion` follows
from it: a function on 0..n with the equations of a fold exists, and is the
only one, and `TotalIs`, `NonBlankIs` and `FlattenIs` say with it that the three
operators satisfy their equations. From there `NonBlankAppend` and
`FlattenAppend` are what the steps need: reading one more line, or flushing one
more section, appends to the text.

The type invariant is `TypeInv`: what each variable is (`Shape`), that the loops
are where their indexes say (`Position`), that chunks lie within their section
(`Ranges`), and that the chunk in progress starts where an overlap may start
(`Lead`). `OverlapStarts` shows that the place `OverlapStart` chooses exists, by
the least number of a set that contains the empty overlap. `ChunksFit` is not
inductive, since a chunk is cut from units that were taken turns earlier:
`CurrentFits` says that the counts of the units taken so far keep to the limit,
or that they are an overlap and one unit, and `UnitsFit` says the same of the
units of every chunk that is written. `UnitsFitBoundsTokens` goes from there to
the token count of the joined text: a unit of t tokens has fewer than
t + 1 times `CharsPerToken` characters and t is at least one (`CountTokensBounds`),
so that the joined text is at most `MostCharacters` of the sum (`TotalsBounded`,
`JoinBounded`), and longer texts have no fewer tokens (`CountTokensMonotone`).
`ChainEncloses` needs
`Chain`, which says for each level which heading of the stack is the last above;
it fails after a heading of level 3 that no level 2 precedes, the case that the
property excepts. `EverythingIsChunked` speaks of the end only. `Content` says
what it means on the way there: the texts of the sections and the lines not yet
flushed are the paragraphs read so far. `Order` says of any two chunks in a row
how the second follows the first (`ComesBefore`), that the last one reaches up to
the chunk in progress, and that every section already passed has a chunk that
ends it.

Every invariant above was checked with TLC before it was proved: those of the
second part of `PipelineProofs` and of `LifecycleProofs` on the configurations
of the runs that check the property, `ConnectInv` on `graph_store`,
`CommunitiesInv` and `AchievedInv` on `communities`, `InOrderInv` on `billing`,
and `TypeInv`, `CurrentFits`, `UnitsFit`, `Chain`, `Content` and `Order` on `chunking`.

Every safety property that a run checks is proved. Model-checked only are the
liveness properties `EveryDocumentSettles` and `GraphStatusSettles`, which rest
on fairness and are out of the prover's reach.

## Plan

In this order, the most important behaviour first. Done:

1. the document pipeline (`Stores` to `Pipeline`) and its promise (`Lifecycle`);
   every safety property of its runs proved, and the refinement for patient
   clients;
2. `GraphStore`, its type invariant and four properties proved;
3. `Organizations` and `Accounts`, the type invariant and three properties
   proved;
4. `Billing`, its type invariant and three properties proved; `RateLimiter`,
   `Quota` and `Admission`, the type invariant and two properties proved;
5. `Communities`, the type invariant and three properties proved;
6. `Chunking`, its type invariant and three properties proved.

Left: `GraphStore` as a refinement of the `graph` variable of `Stores`.
`CompleteIsConsistent` stays a property of pipelines without the graph, for a
reason: `build_graph` writes back the status it read at its start, so that the
build of an earlier version may write COMPLETE over the FAILED of a later one.

Not planned: what is listed under [Not modelled](#not-modelled).
