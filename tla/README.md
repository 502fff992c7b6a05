# Gorse in TLA+

Gorse is a recommender system made of one *master*, any number of *servers* and
*workers*, and stores that they share. This directory holds TLA+ modules that
model the parts of it where the order of steps matters, TLC configurations that
check them on small instances, and TLAPS proofs of what holds for every
instance. `PROJECT.json` maps every definition to the lines it models.

## 1. The system

```
             REST                    gRPC GetMeta, blobs
  clients ---------> servers -----------------------------+
                        |                                 |
                        v                                 v
                data store, cache store  <---------->  master ----> meta store
                        ^                                 |   ----> blob store
                        |                                 |   ----> vector store
                      workers ----------------------------+
```

| Component | State | Operations | Talks to |
|---|---|---|---|
| master, models (`master/tasks.go`) | ids of the current models and sizes of the last training sets, in memory and (ids) in the meta store; a blob and a collection per model | load data set, train, upload, record, advertise, retire old models | workers through `GetMeta`; all stores |
| master, scheduler (`master/master.go`, `master/rest.go`) | ticker, `scheduled` channel, cancel function, configuration in memory, in the file and in the meta store | run a round, react to a change of configuration or data, shut down | the tasks, the dashboard |
| master, data set (`master/tasks.go`, `dataset`) | dictionaries, click and ranking data sets, splits | read users, items and feedback in parallel, number labels, split | data store, trainers |
| dashboard (`master/rest.go`) | streams of dumps and imports | dump, restore, import, configure | data store |
| master, lists (`master/tasks.go`, `logics/`) | neighbours, non-personalised lists and their digests in the cache store | write a list with a time, delete what is older | workers and servers, through the cache |
| membership (`master/rpc.go`, `storage/meta`) | node records with a last-seen time | register, expire, list | workers share users by it |
| worker, synchronisation (`worker/worker.go`) | latest ids, installed models, two one-place channels, peers | `Sync`, `Pull`, loop of `Serve` | master, blob store |
| worker, recommendation (`worker/pipeline.go`) | per user: cached scores, their time, a digest | check, compute, add, delete, record | cache and data store, remote rankers |
| `parallel` (`common/parallel`) | semaphores, wait group, error slots | `Parallel`, `For`, `Detachable` | used by all of the above |
| server (`server/rest.go`) | `LastModifyUserTime`, `LastModifyItemTime` in the cache store; feedback, users and items in the data store | insert, delete, recommend, write back | stores |
| stores (`storage/*`) | rows, scores, vectors, blobs | third-party databases behind interfaces | all |
| models and numerics (`model`, `common/nn`, `common/floats`) | parameters, computation graph | fit, evaluate, predict, write, read | master, worker |
| monitor, configuration (`common/monitor`, `config`) | spans; recommend configuration with secrets and digests | count, end, fail, list; load, mask, validate, digest | dashboard, all |

What is hard here is not any single function but the order in which several
stores and goroutines are written and read:

* a model lives in three stores and one variable, written one after the other by
  a process that may die, and cleaned up by another function of it;
* three goroutines of a worker share fields without a lock and wake each other
  through channels that drop signals;
* a recommendation is computed from feedback that changes while it is computed,
  and its freshness is decided from two wall-clock times set by two processes;
* jobs move between two semaphores and may be cancelled at any point;
* one interface has four implementations for four databases, each with its own
  idea of an upsert, of a page, of an index and of what a search returns;
* arithmetic is divided among goroutines, and a model is trained in one process
  and used, after a round through bytes, in another.

`hazards` in `PROJECT.json` lists these places, each with the property that would
notice that something went wrong, or why there is none.

What makes the parts correct:

* **models**: what `GetMeta` names can be installed, also after a crash; a failed
  publication is repeated; old models do not pile up;
* **synchronisation**: every model that is published gets used; a worker never
  falls back; a model is not mixed from two;
* **recommendation**: a cache that passes for fresh contains nothing the user has
  already given feedback on; feedback is eventually reflected;
* **Detachable**: tokens are neither lost nor doubled; the call returns, and when
  it does no job is left;
* **master**: a change of data or configuration is followed by a whole run, what
  is in force is what a restart would find, and databases are closed last;
* **stores**: behind one interface the stores answer alike; what is read page by
  page, indexed, dumped or written in batches is complete in spite of other
  clients, failed calls and crashes;
* **data set and models**: every item and pair is counted once, gradients are
  derivatives, evaluation is fair, and a model predicts on a worker as it was
  trained on the master;
* **serving**: nothing is shown twice or again, pages belong to one list, quotas
  are kept up to what is in flight;
* **membership**: whatever lists of peers the workers have, every user is visited.

## 2. Modules

| Module | Models | Run |
|---|---|---|
| `ModelLifecycle` | training, publication and retirement of models in the master | `lifecycle*` |
| `ModelRegistry` | the same, as the workers may rely on it (abstract) | `lifecycle_registry`, `worker` |
| `WorkerSync` | a worker on top of `ModelRegistry` | `worker`, `worker_pair` |
| `RecommendRefresh` | one user's cached recommendations and feedback | `refresh` |
| `MasterControl` | task loop, configuration handlers, file watcher, shutdown | `master` |
| `Detachable`, `Parallel` | package `parallel` | `processes` |
| `BlobStores` | writing and reading a blob through pipe, goroutine and upload stream | `processes` |
| `Training` | `Fit` of BPR, ALS and the two factorisation machines | `processes` |
| `Ranking` | how a worker makes the list of one user | `processes` |
| `CacheStores`, `RedisScores` | four cache stores beside each other; Redis command by command | `stores` |
| `DataStores`, `DataPaging`, `SearchIndex` | three data stores beside each other; paging; full-text index | `stores`, `search_columns` |
| `VectorStores`, `VectorWriter` | four vector stores beside each other; writing neighbours and pruning their sparse vectors | `stores` |
| `ItemLists` | non-personalised lists and the requests that change their items | `stores` |
| `Backup` | dump, restore and imports | `stores` |
| `DatasetLoad`, `LabelIndex`, `Splits` | reading the data set, numbering labels, training and test sets | `models` |
| `TensorOps`, `Autograd`, `ALS` | tensor operators and optimisers, backward, one sweep of ALS | `models` |
| `CtrFeatures`, `FactorCodec` | features and model files, from the trainer to a worker | `models` |
| `Metrics` | ranking metrics and AUC | `models` |
| `Recommend`, `RestPaging`, `RestWrites` | requests of the server | `models` |
| `Config`, `Membership`, `Progress` | configuration, cluster, progress spans | `models` |
| `MCStores`, `MCModels`, `MCProcesses`, `MCWorker`, `MCRefresh` | instances for TLC | |
| `ModelLifecycleProofs` | proofs about `ModelLifecycle` | `tlapm` |
| `ServerProofs` | proofs about `RecommendRefresh`, `RestWrites` and `Recommend` | `tlapm` |
| `ParallelProofs` | proofs about `Detachable`, `Parallel`, `Training` and `Ranking` | `tlapm` |
| `DeliveryProofs` | proofs about `WorkerSync`, `BlobStores` and `Backup` | `tlapm` |
| `MasterProofs` | proofs about `MasterControl`, `Membership` and `DatasetLoad` | `tlapm` |
| `StoreProofs` | proofs about `ItemLists`, `SearchIndex`, `VectorWriter`, `DataPaging` and `RedisScores` | `tlapm` |

**Unions.** Components that do not interact are checked in one run. The union
modules `MCStores`, `MCModels` and `MCProcesses` choose a component in the
initial state (`part`), so that a behaviour of the union is a behaviour of
exactly one component. There are two ways to put a component into a union. One
that has theorems is extended, so that the run checks the very definition the
theorem states; while it is the turn of another it stays in an initial state of
its own (all of `MCProcesses`; `ItemLists`, `SearchIndex`, `VectorWriter`,
`RedisScores`, `DataPaging` and `Backup` in `MCStores`; `Membership`, `RestWrites`,
`DatasetLoad` and `Recommend` in `MCModels`; their constants are in the configuration). The
others share the slots `s1, s2, ...` for their variables, through `INSTANCE ... WITH`;
the slots that are not used stay 0, a property says for which `part` it speaks,
and the constants are fixed with a comment on the instance. A property of a union
joins, under one name, what the components state in parts: for instance
`CacheStoresAgree` is `SearchesAgree`, `SQLShowsLeast` and `ReadsAgree` of
`CacheStores`, each with its own comment there. `MCWorker` and `MCRefresh` put
two instances of one module beside each other, so that safety is checked with
more failures than liveness allows.

Definitions whose comment begins with *Mutant of* are plausible mistakes in the
definition they name; they are not used by any specification. With the mutant in
the place of the definition TLC finds the property that `PROJECT.json` names
violated, which shows that the property depends on that piece of code.

### ModelLifecycle

One goroutine of the master does everything, so the state is the four places a
model can be in (`blob`, `coll`, `cfStored`/`ctrStored`, `cfMeta`/`ctrMeta`),
the sizes that suppress a new training, and the control point `task`, `pc`. Each
call of a store is one action with a success and a failure disjunct; the failure
disjunct takes the path of the code's error return. `Crash` is possible between
any two actions and loses everything but the stores; `Restart` is the part of
`Serve` that reads the ids back. Training is the choice of a new id: which
parameters a model has is of no consequence here. `removeOutOfDateModels` is
modelled call by call: the plan (`Plan`), the loop over collections in any order,
as Go iterates over maps (`VisitBlob`, `VisitCollection`), and the loop over
the remaining blobs (`RemoveLoose`).

`Faults` selects the calls that may fail and `MaxFaults` bounds how often, so a
run can say exactly which failures a promise survives. Ids are the wall clock
and are taken to grow; a clock that is set back is not modelled.

### ModelRegistry and WorkerSync

`ModelRegistry` keeps only what a worker can observe: which ids have a readable
blob and a complete collection, what is advertised, what a restart would
advertise. The refinement mapping is at the end of `ModelLifecycle`
(`Registry == INSTANCE ModelRegistry WITH ...`): a partial blob counts as none,
a collection that is being built as none, and the master is up unless it is
between `Crash` and `Restart`.

`WorkerSync` extends the registry with the three goroutines of a worker. A
goroutine's action ends where it reads or writes a field that another goroutine
uses, which is why `Pull` reads a blob and installs it in two actions. The
channels are Booleans, as they hold one signal and are written with a
`select`/`default`. The copy of the configuration and the connection of stores
in `Sync` do not affect models and are left out.

### RecommendRefresh

The server's requests and the worker's job for one user, interleaved call by
call on the stores. A timestamp is a value of the clock `now`, and equal times
are possible. The items that a recommender and a ranker return are any subset of
those not excluded. The digest is the version of the configuration, or an older
one if a list that was combined is older. Assumptions: one worker visits the
user, clocks agree, feedback is not dated in the future, and replacement is off.
`EmptyFails` says whether the cache store refuses to add an empty list, as the
SQL stores do and MongoDB does not.

### MasterControl

One goroutine runs the tasks; the handlers of the dashboard, the watcher of the
configuration file, the background reconciliation of the search index and
`Shutdown` run beside it. A configuration is a version number with three homes:
memory, file and the override in the meta store. `m.cancel` is rewritten by the
loop for every run and called by the handlers without a lock, which is kept as
two steps. The tasks themselves are the subject of the other modules; here a run
is something that begins with the configuration in force and ends, complete or
cancelled.

### Detachable, Parallel, BlobStores, Training, Ranking

* `Detachable`: the calling goroutine, one goroutine per job and the two channels
  used as semaphores. The job's body detaches at most once, as `rankByAPI` does,
  and may return detached. Job bodies end: a body that blocks is outside of this
  module.
* `Parallel`: producer, bounded channel and workers, with jobs that fail or panic
  and a context that is cancelled; the sequential path of one worker.
* `BlobStores`: a blob is the sequence of the versions its pieces belong to, so
  that a mixture of two versions and a truncated blob can be told from a whole
  one. The pipe does not buffer. Cloud stores are one upload call each.
* `Training`: weights are named by the number of epochs they went through, and an
  evaluation measures an arbitrary value. What is left is the control of `Fit`:
  which weights are kept, when it stops, who writes what in parallel.
* `Ranking`: from the collaborative list to the sorted, decayed scores, with the
  item cache that the jobs share, retries of the remote ranker, and items that
  change or are deleted meanwhile.

The liveness formulas stated in these modules (`EventuallyReturns`, `CallEnds`,
`WriteEnds`, `FitEnds`, `RankEnds`) are checked in `MCProcesses` under one name
for calls of package `parallel` (`CallsEnd`) and one for the rest (`WorkEnds`).

### Stores

* `CacheStores`, `DataStores`, `VectorStores` give the same calls to all
  implementations of an interface and compare the answers. Where two stores are
  known to differ the difference is written down: `DataStores` keeps the keys
  concerned in `split`, the others state it in the property.
* `RedisScores` takes the operations of Redis that need several commands apart,
  for other clients come in between. `DataPaging` does so for the pages of a
  table, `SearchIndex` for the statements of a reconciliation, `VectorWriter`
  for the flushes of a run, `Backup` for the batches of a dump, `ItemLists` for
  the calls of a request beside the load that rebuilds the lists.
* `SearchIndex` keeps of an index the columns it was built for, and of the text a
  server gives back which columns occur in that of which (`Mentions`) and which are
  the same but for capitals (`Folded`): the drivers recognise an index by such a
  text. MySQL and PostgreSQL look for the wanted texts inside it, SQLite compares
  whole statements in lower case, MongoDB compares fields with keys that are never
  fields (`TextKeys`).
* `ItemLists` speaks of the requests of the servers, which patch the lists. The
  dashboard's bulk import of items (`master/rest.go:1511-1595`) writes the data
  store and leaves the lists to the next load; it is not part of this module.
* A dense vector is a point of a line and a sparse one a set of indices: enough
  to say which of two rows is nearer. `VectorWriter` has the
  weights.
* What the database servers do with a query (order, upsert, filter, triggers) is
  modelled from how the code uses them, and marked external in the map.

### Data and models

* `DatasetLoad` has the three steps of parallel readers, their shared sets, the
  shared variable `err`, and a data store that changes. The stream of the positive
  step comes ordered by item, as it is asked for; that of the others in any order; `LabelIndex` numbers
  labels in the order of arrival; `Splits` makes every choice the random
  generator could.
* Floating point is out of reach. `TensorOps` and `Autograd` compute with
  integers, `ALS` in a field of `P` elements, `CtrFeatures` and `Metrics` with
  fractions, and logarithms are tables. What is checked are identities that hold
  of numbers, such as that a gradient is the derivative; rounding is not.
* In `CtrFeatures` and `FactorCodec` a byte stream is the sequence of values
  written to it, and reading another kind of value than the next one is an error.

### Serving and cluster

* `Recommend` reads a store per recommender, and lists, items and feedback change
  between two reads. What is ranked by a score comes by `ByWeight`, in an order that
  falls; equal scores stay in one fixed order, where the code's depends on the iteration
  of a Go map. No sums tie in the instance, and of pages of one list (`PagesOfOneList`)
  both the run and the theorem speak for sums that differ. `MaxEvents` bounds
  requests and changes together. `RestPaging` walks an unchanging list of each endpoint
  page by page. `RestWrites` has concurrent handlers with quotas whose count is read
  before the write. The count is exact in SQLite; MySQL gives the status of a table,
  PostgreSQL a statistic of the planner and MongoDB the metadata of a collection, so
  that any member of `Estimates` may come. The ghost `short` keeps by how much a
  count that let a request pass was below what was stored.
* `Config` posts forms with masked secrets from two administrators. A secret is a
  short sequence, of which masking keeps the ends. A text is a sequence of pieces
  and a digest that of texts written one after the other, as the code does it, with
  no separator and no mark of what they are; only MD5 itself is an injection, and
  the digests of the recommenders are a bag because `util.MD5` sorts them. The
  instance has configurations whose digests collide.
* `Membership` counts time in fractions of a second, because `datetime('now')`
  does not; the ring of the consistent hash is given by positions.
* `Progress` interleaves the writes of a span with a listing, which also writes. The
  listing goes through the tree step by step: it visits the children of a span, may
  or may not see one that starts meanwhile, and then reads the fields of the span,
  each of them before or after what the task writes in the meantime. There is one
  listing at a time, and a string is read whole.

## 3. Runs

| Run | Instance | What it shows |
|---|---|---|
| `lifecycle` | 5 ids, 3 sizes, 12 kinds of failure, 2 failures | `AdvertisedCF`, `AdvertisedCTR`: what is advertised can be installed. `CollectionsBounded`: clean-up catches up |
| `lifecycle_registry` | 6 ids, sizes that are never 0, 11 kinds of failure, 2 failures | `ImplementsRegistry`. `CFRetried`: the early return on an unchanged size does not suppress the repetition of a failed publication |
| `worker` | 3 ids, cf, one failure; 2 ids of both kinds | `NeverBackwards`: a running worker does not return to an older model. `ModelsReachWorker`: each published model, or a newer one, is used, and each ctr model is pulled |
| `refresh` | 2 items, 3 ticks, one failure; strict and lenient cache | `FreshMeansSeen`: a cache that passes for fresh has nothing the user gave feedback on. `FeedbackLeaves`: acknowledged feedback takes its item out |
| `stores` | as commented in `MCStores` | `CacheStoresAgree`, `DataStoresAgree`, `VectorStoresAgree`: one interface, one behaviour. `RedisPassesNoneOver`, `PagesCoverOnce`: scans and pages are complete beside other clients. `SearchIsCurrent`, `ShownIsVisible`, `NeighboursAreWritten`, `BackupIsComplete`: derived data is true to the items after failures and crashes |
| `models` | as commented in `MCModels` | `DatasetIsComplete`, `TrainingIsExact`, `EvaluationIsSound`, `ModelArrivesWhole`: from rows to a model that predicts on a worker as trained. `ServedOnce`, `WalkIsComplete`, `QuotaBounds`: what clients get. `ConfigurationIsSound`, `EveryUserIsVisited`, `ProgressIsTrue`: what surrounds them |
| `processes` | as commented in `MCProcesses` | `TokensOwned`, `ReturnIsComplete`, `NilMeansAllRan`: the schedulers lose nothing. `ReadIsWhole`, `FitKeepsBest`, `RankedAsAnswered`. `CallsEnd`, `WorkEnds`: everything ends |
| `master` | 2 requests, 2 versions, 2 changes | `ClosedLast`: no database is used after it was closed. `OverrideMatches`: what is in force is what a restart would find. `AcceptedIsDone`: an accepted change is followed by a whole run, and a shutdown ends |
| `lifecycle_ctr_put` | record of the ctr model cannot be written, crash | violation of `AdvertisedCTR` (finding 1) |
| `worker_pair` | 2 ids | violation of `PairInstalled` (finding 2) |
| `softmax` | instance of `models` | violation of `SecondIsAligned` (finding 3) |
| `search_columns` | instance of `stores` | violation of `WantedAreIndexed` (finding 4) |

**Bounds.** Five ids are a current model of each kind, the two complete models
that are kept, and one that goes; two failures are a failure followed by the
crash or by the failed repetition that makes it matter. Three ids are the fewest
with which a worker can go back. In `RecommendRefresh` three ticks give a time
before, at and after a refresh. Four jobs on two slots and one detached slot make
jobs queue in both channels at once; four jobs on two workers with a channel of
one block the producer. Three calls on stores beside each other are a write, a
second write or deletion that meets it, and a third that meets both. Pages hold
two rows of three to six entries, so that there is a full page, a cursor inside
and a short last page. Batches are of two for the same reason. Two lists of
`ItemLists` are one that a load has written and one that it has not. Its lists
are alike, and so are the handlers of its requests; they are checked up to
permutation (`SYMMETRY Alike`), which is sound because `stores` checks no
liveness. Two events of `Recommend` are two requests, or a
request and a change between its reads; what more of them do is proved. `Estimates`
are zero, which lets every request pass, and a number at the quota, which refuses
most. The columns of `SearchIndex` are one that is mentioned by another, two that
differ in capitals, and one that MongoDB alone understands. `Progress` has one task
after the other, each with one span below another, and a listing that may begin
anywhere in them. Modulo 7 the identities of `ALS` have enough values to fail. Every
mutant is caught within these bounds. The names of the bounds begin with `Max` and
stand in the guards they bound.

**Deadlock** is checked in `ModelLifecycle` and `WorkerSync`, which run for
ever. A trainer blocked in a pipe is the explicit state `hung`, with a step
`Hung` that says so. Everywhere else the number of calls, requests or ticks is
bounded, so that a behaviour ends; where something must not end early there is a
liveness property.

**Fairness.** `ModelLifecycle`: the loop of rounds is ticked for ever and the
process is restarted (weak fairness of `Round` and `Restart`); nothing is
assumed of failures, whose number is bounded. `WorkerSync`: each goroutine runs
when it can, the tickers of `Sync` and `Serve` fire, `Recommend` ends, and the
master is restarted; no training is promised. `LoopOnPull` needs no fairness of
its own, since a tick does the same. `RecommendRefresh`: the worker visits its
users on every tick, time passes, and the server answers a request it has
accepted; only the lenient cache store is fair, for a strict one may refuse every
refresh of a user who has seen all items. `MasterControl`: the loop, the
reconciliation, the watcher, each handler and `Shutdown` each go on when they
can; that an administrator sends a request or stops the master is not promised.
Components of `MCProcesses`: the Go scheduler runs what can run, goroutine by
goroutine, and a remote ranker answers or fails; cancellation is not promised.
Weak fairness is enough everywhere because nothing that is waited for is taken
away again for ever.

## 4. Findings

1. `trainClickThroughRatePrediction` changes the id in memory before it writes
   the meta store. If the write fails, a later clean-up removes the blob that the
   meta store still names, and a restart advertises it.
   `trainCollaborativeFiltering` has the opposite order and does not have the
   problem; `AdvertisedCF` is proved with that failure allowed.
2. `Pull` reads the latest id once to open the blob and again to install it.
   With a `Sync` in between, the user vectors of one model are matched with the
   item vectors of another until the next model arrives.
3. `softmax` along axis 1 subtracts a maximum and divides by a sum whose shape is
   no suffix of the first operand's, against the comment of `sub`: rows are mixed.
4. MySQL's `Reconcile` keeps an index whose text contains that of every wanted
   column. The index of `item.Labels.comment` contains the text `comment`, so that
   after a change of the configuration to `item.Comment` comments are not searched,
   now or later. `SearchIsCurrent` holds up to such mentions.

Smaller disagreements between what is said and what is done, which the models
contain and for which there is no run:

* `POSIX.Create` closes `done` after a failed copy, so that the caller publishes
  a truncated blob; the writer of further pieces waits for a reader that is gone.
* `LastModifyUserTime` is not the latest time: overlapping requests store theirs
  in any order. With two overlapping requests `FreshMeansSeen` fails: a refresh
  that ran between the two times and missed the feedback of the later request
  passes for fresh until it expires. It is therefore checked, and proved, for
  requests of a user that do not overlap (`OneRequest`).
* The decay of a replaced item raises its score when the score is negative
  (`config/config.toml:269` says it is lowered).
* `ScoredVector` promises that a higher score is closer
  (`storage/vectors/database.go:143`); in a Euclidean collection of Qdrant the score
  is the distance (`qdrant.go:485`). `HigherIsCloser`, a part of `VectorStoresAgree`,
  excepts it.
* The begin time of feedback is exclusive in MongoDB and inclusive in SQL.
* A form of the dashboard that was overtaken by another administrator's change
  of a secret stores the masked text as the secret.
* The offset of a cached list asked for with a user counts items that are then
  removed for that user.
* A scan of Redis fails when a key is deleted between the two commands.
* "Maximum total number of Users" (`config/config.toml:468`) and of items is
  exceeded by requests that count at the same time, by one batch for every handler
  but one, and where the count is an estimate by any number, also one request after
  the other: nothing in the code bounds how old an estimate is. `QuotaBounds`
  therefore adds what the estimates fell short.
* A listing may show more done than there is to do: when a child of a span ends and
  is counted (`master/tasks.go:976-977`) between the listing's visit to the child
  and its look at the parent, the child counts twice. `CountWithinTotal` holds for
  the listings during which neither the root nor a child of it ends.
* A digest does not say which text is what: a feedback type that is moved from the
  positive to the negative ones leaves it as it was, and lists computed before pass
  for current (`worker/pipeline.go:374`). `DigestTellsApart` promises a new digest
  when the words computed from change, not when they move.
* MongoDB's index is rebuilt at every reconciliation: `mongoSearchIndexKeysMatch`
  compares the wanted fields with the keys of a text index, `_fts` and `_ftsx`.
* SQLite's triggers are compared in lower case: a label is not indexed anew when
  only the capitals of its name change.
* Groups of items are cut by the order of ids in Go. The comment at
  `master/tasks.go:484` knows that the database's collation can differ, but the
  feedback of a group is still selected by that collation (`item_id >= ?`, `<= ?` in `storage/data/sql.go`), so that under a
  locale a range may miss some. `DatasetLoad` takes the feedback of a group's
  items to lie in its range, as under a binary collation.
* BPR never finds a negative item for a user with feedback on all items.
* The comment of the fifth check of `checkRecommendCacheOutOfDate`
  (`worker/pipeline.go:404`) states the opposite of what the code does. The code
  is right: `FreshMeansSeen` and `FeedbackLeaves` rest on it.

## 5. Proofs

`tlapm M.tla` checks the proofs of a module. They hold for every value of the
constants that satisfies the named assumptions of the module they are about;
each theorem adds what it needs to know.

Of `ModelLifecycle`:

| Theorem | Statement | Assumes of `Faults` |
|---|---|---|
| `TypeCorrect` | `Spec => []TypeOK` | nothing |
| `AdvertisedCFAlways` | `Spec => []AdvertisedCF` | the meta store can be read at start-up (no `get`) |
| `AdvertisedCTRAlways` | `Spec => []AdvertisedCTR` | neither `get` nor `ctrPut` |
| `LifecycleImplementsRegistry` | `Spec => ImplementsRegistry` | none of `get`, `ctrPut`, `write` |
| `CollectionsBoundedAlways` | `Spec => []CollectionsBounded` | nothing |

`AdvertisedCF` is not inductive: a step of the clean-up that removes a blob is
harmless only because of what the plan, made earlier, left out. The inductive
invariant adds

* `Fresh`: no store knows an id above the clock, so a new model disturbs none;
* `WorkList`: the lists of the clean-up are empty outside of it;
* `Publishing`: the model in flight has the newest id;
* that the blob and the collection of the recorded *and* of the advertised model
  exist and are on no list of the clean-up, and that between the write of the
  record and that of the memory the two differ only by the model in flight.

The last part is where the order of writes enters: with the two exchanged, as in
the ctr half, the recorded id is not protected while it differs from the
advertised one, and the proof of `AdvertisedCTRAlways` has to assume that the
write does not fail. For the refinement `InFlightBlob` (what the blob of the model
in flight holds at each step) is added, and the proof maps each action to one step of
`ModelRegistry` or to a stuttering step.

`CollectionsBounded` counts, and the count is wrong while the clean-up is under
way. `LeftInv` counts what the clean-up has left behind already, the collections
that are neither to be visited nor the current one: never more than three and
one per failure. `KeepBounded` bounds the ids a plan spares by three, and
`OneMore` says that a failure adds at most one collection.

Of `RecommendRefresh` (in `ServerProofs`):

| Theorem | Statement | Assumes |
|---|---|---|
| `TypeCorrect` | `Spec => []TypeOK` | nothing |
| `FreshMeansSeenAlways` | `Spec => []FreshMeansSeen` | `OneRequest`: requests do not overlap |

The inductive invariant `Inv` orders the times. No time lies in the future
(`Past`); a job is newer than the refresh on record (`JobOrder`); no score is
older than that refresh, since older ones are deleted before the time is recorded
(`CacheOrder`). For feedback that was acknowledged, `LastModifyUserTime` is at
least the time of any score of its item (`AckedLater`). This survives a job that
adds a score because feedback the job has not read is newer than the job
(`AckedMissed`): the job takes its time *before* it reads. It survives the end of
a request because what the request is about to acknowledge has the same property
with the request's time (`RequestLater`): the request takes its time *after* it
has written the feedback, and no other request overwrites it. The theorem follows:
an item with acknowledged feedback and a score would have
`updateTime <= cache[i] <= modified`, which is stale. `OneRequest` is used in
`RequestStep` alone; overlapping requests (section 4) are the counterexample.

The other components:

| Module | Theorem | Statement | Assumes |
|---|---|---|---|
| `ParallelProofs` | `TypeCorrect` | `Spec => []TypeOK` | nothing |
| | `TokensOwnedAlways` | `Spec => []TokensOwned` | nothing |
| | `ReturnIsCompleteAlways` | `Spec => []ReturnIsComplete` | nothing |
| | `NilMeansAllRanAlways` | `ParSpec => []NilMeansAllRan` | `Sizes`: the bounds are numbers |
| | `FitKeepsBestAlways` | `FitSpec => []FitKeepsBest` | `Epochs`: a number of epochs |
| | `RankedAsAnsweredAlways` | `RankSpec => []RankedAsAnswered` | nothing |
| `DeliveryProofs` | `SyncTypeCorrect` | `SyncSpec => []SyncTypeOK` | nothing |
| | `NeverBackwardsAlways` | `SyncSpec => NeverBackwards` | nothing |
| | `ReadIsWholeAlways` | `BlobSpec => []ReadIsWhole` | `Pieces`: a number of pieces |
| | `BackupIsCompleteAlways` | `BackupSpec => BackupIsComplete` | nothing |
| `MasterProofs` | `ClosedLastAlways` | `ControlSpec => []ClosedLast` | nothing |
| | `OverrideMatchesAlways` | `ControlSpec => []OverrideMatches` | nothing |
| | `EveryUserIsVisitedAlways` | `MemberSpec => []EveryUserIsVisited` | `RingOK`, `Delays` |
| | `DatasetIsCompleteAlways` | `LoadSpec => []DatasetIsComplete` | nothing |
| `ServerProofs` | `QuotaBoundsAlways` | `WriteSpec => []QuotaBounds` | `Limits`: finite sets, quotas and batches above zero, estimates that are numbers |
| | `ServedOnceAlways` | `RecSpec => []ServedOnce` | equal scores are always ordered alike (`ByWeight`) |
| `StoreProofs` | `ShownIsVisibleAlways` | `ListSpec => []ShownIsVisible` | `Proper`: "absent" is no category |
| | `SearchIsCurrentAlways` | `IndexSpec => []SearchIsCurrent` | `KnownDrivers`: the four kinds of store |
| | `NeighboursAreWrittenAlways` | `NeighboursSpec => []NeighboursAreWritten` | nothing |
| | `PagesCoverOnceAlways` | `PagingSpec => []PagesCoverOnce` | nothing |
| | `RedisPassesNoneOverAlways` | `RedisSpec => []RedisPassesNoneOver` | `MaxAdds < Limit`: a call sees fewer additions than a page holds |

Several of these statements join parts that their modules state and comment one
by one: `EveryUserIsVisited` is `UsersAreCovered` and `DeadAreForgotten`,
`FitKeepsBest` is `ScoreIsOfModel` and `StopsWhenFlat`, and so on. `MaxAdds < Limit`
is a restriction of the code, not of the proof: `UpdateScores` gives up at a page
that brings nothing new, and with a page full of additions it does so too early.
"Nothing" leaves the named assumptions of the module, of which `MasterControl`
has one since these proofs: `VersionsAssumption`, the value for "no override" is
not a version. That of `Recommend`, `RecAssumption`, says what the constants are, and
that a cached list holds an item once (a script of the administrator need not). `RingOK` says that every worker and user has a place on the ring of
the hash and that no two workers share one, and that the second and the time-out
are numbers; `Delays`, that the delay of a waking is one.

What makes the invariants inductive:

* `Detachable`. `TokensOwned` compares a counter with a cardinality and is
  inductive together with `Unstarted`: a job the loop has not come to is idle, so
  a token taken for it is new. `ReturnIsComplete` needs `Started`, the converse,
  and `Uncancelled`: only after a cancellation is a job skipped or the loop left.
* `Parallel`. `ParInv` says where the jobs are: in order in the channel (`Queue`),
  and the ones taken and not run are in the hands of a worker or were lost with a
  panic, one each (`Accounted`). This is true only as long as nothing failed or
  was cancelled (`Smooth`); `Over` says that nil is returned in no other case. One
  worker has its own invariant, `InOrder`.
* `Training`. `lo.MaxBy` is a `CHOOSE`: while the loop goes on, an evaluation that
  is beaten by none exists (`IsBest`, extended by one evaluation in `BestGrows`;
  it is unique by `BestIs`). NaN would break this: it beats and is beaten by
  nothing. `Comparable` says that all evaluations so far are NaN or none is,
  because AFM stops at the first. `StopIsFlat` then shows that the age of the best
  evaluation, which the code looks at, is the age of the last improvement.
* `WorkerSync`. `Stations` orders the ids on their way: what is installed is not
  newer than what is pulled, that not newer than what `Sync` stored, that not
  newer than what the registry has. `Pull` reads the latest id twice, which is why
  the order must hold between the two reads too (and why `PairInstalled` fails).
* `BlobStores`. `Spooled`: what has arrived is the pieces of this version that the
  writer has sent but for the one in the copier's hands (`Pipe`). `Published`: a
  store other than the directory has nothing or a whole blob. `Reading`: what a
  reader has is the beginning of what it reads from.
* `MasterControl`. `ClosedLast` needs `Drained`: once `Shutdown` waits, no handler
  comes in. For `OverrideMatches`, `Carried` and `Posting` say what the value in
  the hands of a handler or the watcher is at each of its points, `Alone` that
  nobody else is under way, and `Agreeing` is the goal between the points.
* `Membership`. A worker that has a list is in it, since it registers before it is
  told. Of all live workers one is nearest to a user (`WFMin` of the library), and
  since distances tell workers apart it is the owner in its own list, whatever
  that list leaves out. `HeardInv` keeps the times: a list is as old as the
  synchronisation due next says, and a dead node has not registered since.
* `RestWrites`. A handler counts, and inserts later. Charge the last handler that
  counted with its own batch and all others in between with a full one each: the
  data and the charges stay within the bound (`Slack` of `QuotaInv`). An exact count
  saw all data, so that its handler may become the last. An estimate did not, but
  what it fell short is charged to the limit (`LetThroughShort`), which never sinks
  (`SlackGrows`), so that its handler may become the last as well.
* `Recommend`. `Fetching` says what a request has in hand: no item twice (`Once`, a
  script excepted), all of it excluded from now on and none of it excluded when the
  request began. That every recommender gives nothing excluded and, the script
  excepted, nothing twice, is a lemma of each (`Delivers`); a sorted enumeration
  exists (`SortExists`), and the recursion of `Keep` has a value (`KeptExists`),
  both by a least counterexample. `Again`: what was served is gone or in the
  feedback (`Fed`), which the next request reads before anything else; half-way
  through the write-back the rest of the page is still to be written (`Feeding`).
  For the pages, `Onward` is the step of a request without the limit of the caller
  and `Passed` the least set of stages closed under it. Of two stages one comes after
  the other (`PassedInLine`) and a result only grows, so that whatever two requests
  cut off, one is a prefix of the other (`Paged`, `GatheredInLine`). Stages depend on
  what `Change` and the write-back alter and on nothing else (`SamePassed`).
* `ItemLists`. Three parts. `Steady`: the documents of an item that nobody writes
  and nothing blurred agree with the item. `Underway`: half-way through a request
  they agree with the state before or after it, which `Single` protects from a
  second request. `LoadInv`: what a load has read is as it is in the store unless
  a request touched it (`Watched`, `ReadAsIs`), what it has written agrees
  (`NewAgree`), and what is older than the load goes at its end (`NoneLater`,
  `Swept`).
* `Ranking`. `RankFrame`: only candidates are asked about, and every candidate with
  feedback is marked as a replacement of its kind (`Marked`). `AnswersKept`: before
  the decay a score is that of an answer to a question about its item. The decay
  then divides by what the marks say, whatever was deleted or hidden meanwhile.
* `Backup`. `FileInv` follows the writer: the end mark comes last, and a dump nobody
  disturbed holds what its step has gone through, users and items before the
  feedback that names them (`OwnersFirst`). `ReadInv` follows the reader: what it
  has passed is in the store or in the batch of its kind, and feedback finds its
  user and item because the batch before was flushed when the kind changed.
* `DatasetLoad`. In the positive pass a job holds the feedback of one item that was
  not offered yet, what is still to come of that item comes before anything else,
  and nothing comes of an item that was offered (`JobOK`, which rests on the order
  of the stream, `Grouped`). So each item is offered once, with the feedback that
  was added (`ItemOK`). `GroupsPartition`, proved of `parallel.Split`, says that each
  item has one job. A pair never falls into two sets, as each pass
  looks into those of the earlier ones (`SetsOK`, `ThreeSets`).
* `SearchIndex`. `Kept3`: while SQLite's triggers are made one by one, each works on
  the columns wanted, and the table is true but for the items written before their
  trigger was there; three triggers keep it true to *some* columns, which a crash
  between two changes of columns leaves behind. `Covered` is what the end of a
  reconciliation adds: columns that have the wanted ones' text (`SameText`), mention
  it, or are the wanted ones, according to how the driver recognises its index.
* `VectorWriter`. `Accounted`: an owner the run has seen, whose column has the run's
  dimension, is in the buffer or in the collection. `Owned`: once it has been ensured, the
  collection has this dimension and holds no vector of the run that is not its
  owner's. The deletion of old vectors at the end then leaves exactly the run's.
  `SparseInv`: of the indices seen, a full heap holds some and none outside beats
  one inside.
* `DataPaging`. `PagingInv`: pages are disjoint, none holds a row the cursor has not
  passed, and a row that was always there and was passed is on one. A page is the
  least rows after the cursor, which `PageIs` gets from the ranks without sorting.
* `RedisScores`. `Paged`: every watched document before the offset was found, and the
  keys found at the offset or behind it are no more than were added. A page
  that brings nothing new is therefore the last, if fewer were added than it holds.

The proof about `ItemLists` corrected the model: `ReadFails` let a load fail when some lists
had been written and others not, but `loadDataset` returns early only before it
writes (`master/tasks.go:121`); later errors are logged. One list, as the run had
then, could not tell. The run now has two. That about `DatasetLoad` showed what the model
had assumed in silence: every stream came ordered by item, which the code asks for
in the positive pass only. The others now come in any order.

What stays with TLC:

* everything about liveness (`CFRetried`, `ModelsReachWorker`, `FeedbackLeaves`,
  `CallsEnd`, `WorkEnds`, `AcceptedIsDone`), since the prover handles neither
  fairness nor `ENABLED`;
* what recursive definitions, sums and sorted sequences compute (`TrainingIsExact`,
  `EvaluationIsSound`, `ModelArrivesWhole` with the numbering of labels,
  `WalkIsComplete`, `ProgressIsTrue`), for there is no induction over data. For
  `ServedOnce` it is enough that the sums are numbers and the sorted sequences
  orderings;
* the comparisons of stores (`CacheStoresAgree`, `DataStoresAgree`,
  `VectorStoresAgree`), which are statements about many operators rather than
  about an invariant;
* as of now `ConfigurationIsSound`, whose mask and digest are functions on
  sequences.

## 6. Not modelled

* Model search: hyperparameters are chosen by a vendor library; which ones are
  used does not matter to any protocol.
* Floating point, SIMD kernels and the XLA back end: out of reach of TLC. The
  operators are modelled over integers and fractions instead.
* SQL dialects, migrations and the inside of vendor SDKs and databases: modelled
  only as far as the code relies on them.
* Rate limiters (they only delay), log-in and pages of the dashboard that only
  read, metrics and health checks: input and output without state of their own.
* `collectGarbage` of the cache, the digests of non-personalised lists, and the
  channel of finished jobs in the pipeline.
* Generated protobuf code, programs and the client library.
* Clocks that are set back: ids of models are taken to grow.

`components` in `PROJECT.json` has one entry and reason for each part.

## 7. Plan

Done: the protocol of models from trainer to worker, the refresh of one user, the
control of the master, the stores, the data set and the arithmetic, serving.
Proved: the protocol of models, the refresh of one user, the schedulers, the
training loop, synchronisation, blobs, the control of the master, membership,
quotas, online recommendation, lists, the load of the data set, ranking, dumps and restores, the search
index, the writing of neighbours, pages, and scans of Redis. Next, proofs, most
important first:

1. `FailureIsReported` of `Progress`, the half of its property that does not compute
   sums, and `NamesResolve` and `TokensAreReal` of `Config`.
2. That one store answers as another, operation by operation, as a refinement of
   an abstract store, for `DataStores` first.
3. `LabelIndex`: labels keep their numbers, whatever the order of arrival.

Components whose names do not clash share a proof module, as in `MasterProofs`.

Then: the composition of `ModelLifecycle` with workers that lag (is the model
before the current one there as long as somebody uses it?), the digests of
lists, and `Ranking` inside `RecommendRefresh`.
