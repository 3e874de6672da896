# A TLA+ model of harbor-scanner-clair

This directory models the adapter that lets Harbor scan images with a Clair v2
server, and the tools its repository runs beside it. It says what the code does
when goroutines interleave, Redis calls fail or are executed late, Redis hangs or
fails over, keys expire, scans hang, workers panic and processes restart; TLC
checks the model on small instances and TLAPS proves its safety
properties for every instance. `PROJECT.json` lists the runs, the
mutants, the source lines of each definition, the hazards and the theorems.

## The system

| Part | Source | State | Operations |
|---|---|---|---|
| HTTP API | `pkg/http/api/v1/handler.go` | none | `POST /scan` (validate, enqueue, 202), `GET /scan/{id}/report` (302, 200, 404, 500), metadata, probes |
| Enqueuer and worker | `pkg/scanner/enqueuer.go`, `worker.go` | a goroutine per job | create the record, submit; mark Running, scan, save the report, mark Finished, or mark Failed |
| Store | `pkg/persistence/redis/store.go` | one Redis key per job, with a TTL | `Create` (`SET NX EX`), `Get`, `UpdateStatus` and `UpdateReport` (a GET, then `SET XX EX`) |
| Redis connections | `pkg/redisx/pool.go` | a bounded pool, shared by all handlers and workers | get (blocks when exhausted), close; dial standalone or through Sentinel |
| Work pool | `pkg/work/work.go` | a dispatcher goroutine, an unbuffered channel, a stop channel | `Start`, `Run`, `Shutdown` |
| Adapter and transformer | `pkg/scanner/adapter.go`, `transformer.go` | none | manifest to a chain of Clair layers, post each, get the last, turn it into a report |
| Clair and registry clients | `pkg/clair/client.go`, `pkg/registry/client.go` | HTTP clients without timeouts; a database handle | `ScanLayer`, `GetLayer`, update time of the database; `GetManifest` |
| Configuration | `pkg/etc/config.go` | one record | parse the environment, load CA files, check the database URL |
| Process | `cmd/harbor-scanner-clair/main.go`, `pkg/http/api/server.go` | listener, signal goroutine | start, drain, stop, exit |
| Data types | `pkg/harbor/model.go`, `pkg/job/job.go` | none | statuses, severities and their JSON form |
| Tools | `tools/govulncheck-report`, `.github/scripts`, `.github/workflows/ci.yml`, `Taskfile.yml` | files; branches, pull requests and comments on GitHub | merge and render findings; keep one comment up to date; cherry-pick upstream commits |

They interact as follows. A handler creates a Pending record in Redis, hands
the job to the dispatcher over an unbuffered channel and answers 202. The
dispatcher spawns a goroutine, which works on the record with whole-record
read-modify-write calls, asks the registry and Clair, and ends. Polls read the
record and nothing else. No goroutine tells another how it ended, nothing is
retried, nothing is recovered after a restart: Redis and its TTL are the only
memory. Several replicas may share one Redis and one Clair.

What is hard, and what makes each part correct:

* **The record of a job.** Reading and writing are separate commands; a call
  may fail without having been executed, fail although it was executed, or fail
  and be executed later, after newer writes; the key may expire in between. A
  record that says Finished must have the report of its own job, must not be
  reopened, must not come back after it has expired, and must not stay open for
  ever when its worker is gone.
* **A worker that panics.** `UpdateStatus` and `UpdateReport` dereference the
  record they read, which is nil when the key has expired, and so does the
  adapter on an image without layers or an answer without a layer. Nothing
  recovers a worker's panic: every scan of the process is lost. Other jobs must
  end like jobs of a killed process, and not worse.
* **Shutdown.** The HTTP server, the work pool and the Redis pool go down in
  turn, and connections that were accepted before may still send a request; no
  handler may be left waiting for a stopped dispatcher or cut off, and the process
  must always end.
* **The connection pool.** Every worker needs two connections in turn from a
  pool of five that blocks; none may be leaked or held while waiting.
* **Sentinel.** A failover promotes a replica that lags, and connections that
  were idle for less than a minute are borrowed without a role check: the two
  writes that finish a job may go to two servers.
* **Clair.** Scans of images with common layers meet in Clair's database by
  layer name; a report must list its own image's chain and all of it.
* **The start.** One named error runs through the fallible steps; none may
  be lost on the way to serving, and none may stop a start that has succeeded.
* **Metadata.** The update time of Clair's database is read while Clair writes
  it, over a connection that may be lost; one row of it can end the process.
* **The CI jobs.** A run is cut off anywhere by the next push, GitHub's calls
  fail or succeed unnoticed, the shell drops the status of some commands, and all
  a run leaves to the next is what GitHub shows: one comment, one pull request per commit, no verdict from half a scan.

`PROJECT.json` lists these and the smaller ones under `hazards`, each at its
line, with the properties that would catch it.

## Modules

| Module | Models | In short |
|---|---|---|
| `ScanJobs` | life of a job: Enqueue, worker, store, Redis, report polling, crashes and restarts | the core |
| `ScanService` | what a client may rely on | the abstract specification `ScanJobs` implements |
| `Failover` | `ScanJobs` on a master and a lagging replica under Sentinel | EXTENDS `ScanJobs`, and instantiates it again for the demoted server |
| `WorkPool` | dispatcher and channels of `pkg/work` | instantiated by `Process` |
| `RedisPool` | goroutines competing for connections, in both modes | instantiated by `Process` |
| `RequestService` | what a process promises the clients of `POST /scan` over its life | the abstract specification `Process` implements |
| `Process` | main, signal goroutine, HTTP server, handlers, workers of one process | composes the two pools with the rest |
| `Startup` | the fallible steps from the environment to the listener | ends where `Process` starts |
| `Metadata` | `GET /metadata` against Clair's database | EXTENDS `Startup` |
| `ClairScan` | concurrent `adapter.Scan` calls against one Clair | the step `Scan` of `ScanJobs`, in detail |
| `ScanReport` | transformer, severities and their JSON form, from Clair's layer to Harbor's answer | the report that `ScanJobs` and `ClairScan` only name |
| `VulnReport` | `tools/govulncheck-report` | stream, merge, verdict, selection and cut of the rows |
| `VulnCheck` | the vuln-check job of `ci.yml`, run after run | EXTENDS `VulnReport`; the sticky comment |
| `CherryPick` | repeated runs of `.github/scripts/upstream-cherry-pick.sh` against GitHub | a run works, GitHub remembers |
| `ScanJobsProofs`, `FailoverProofs`, `ProcessProofs`, `ClairScanProofs`, `MetadataProofs`, `VulnCheckProofs`, `CherryPickProofs`, `ScanReportProofs` | theorems about the modules they are named after | TLAPS |
| `MCScanJobs`, `MCFailover`, `MCClairScan`, `MCVulnCheck`, `MCCherryPick` | instances for TLC | constants only |

Operators that a comment calls mutants are plausible bugs of the code. No
specification uses them: putting one in the place of the definition that
follows it must make TLC refute the property `PROJECT.json` names with it.

### ScanJobs

The variable `store` holds the record of each key or `Nil`, `volatile` the keys
that have a TTL, `inflight` the SET commands whose caller has given up and that
Redis may execute yet. `handler` and `worker` are the program counters of the
POST handler and of the worker goroutine; `scanJob` is the private copy a store
call holds between its GET and its SET, so `worker[j]` in `Calls` with no copy
means the GET is next, with a copy the SET. `OnSuccess` and `OnError` are the
control flow of `scan` and `Task`, `Modify` what `UpdateStatus` and
`UpdateReport` change in the copy. `GetScanReport` is the handler of the same
name as a function of the record; a poll changes nothing and needs no action.

`Do` gives the outcomes of one SET under the constant `Faults`. A job is one
POST, its identifier the fresh UUID of that call; `ArtifactOf` and `HostOf`
therefore are constants. A report is identified with the artifact it describes.
`Die` is the end of a process with everything it was doing, reached by a panic
(`ReadExpired`, `Scan`) or from outside (`Crash`, which also stands for the exit
after an orderly shutdown). `Expire` may happen at any time while the key has a
TTL: a hung Clair makes any step of a worker later than any TTL.

Left out: the error text of a record, the JSON encoding, requests that fail
validation (they touch no state), and a GET of a poll that fails (a 500 without
effect). Redis is one server here that loses no write it has executed; `Failover`
drops that assumption.

### Failover

`store` is the server that Sentinel names as the master, `other` the second one:
a `replica`, whose records are those of the master at some earlier moment
(`Replicate`), or `demoted`, until it comes back as a replica of the new master
(`Rejoin`). `CallDemoted` are the calls that still reach a demoted server, which
are the same actions of `ScanJobs` on other variables, `CallMaster` all the others. In Redis a demoted server
takes writes until Sentinel reconfigures it, and the adapter borrows a connection
that was idle for less than a minute without a role check (`pool.go:107-116`). Commands
that were given up stay with the server they were sent to: `Promote` exchanges
`inflight` and `otherInflight` with the records, the demoted server may execute its
own until it rejoins (`ExecuteDemoted`), and `Rejoin`, which cuts off its clients,
drops what is left of them.

Under failovers `FinishedHasReport`, `FinishedNeverReopens` and `ExpiredStaysGone`
no longer hold, and nothing in the code says that they should: an acknowledged
report is lost with the old master and the mark goes to the new one, an older
record comes back. `ReportLostOnlyInFailover` says how much of the first is left:
a Finished record lacks its report only if its worker was between the two writes
when the server changed, or while the demoted one still answered (`exposed`). A job whose creation went to the demoted
server may have its worker panic on the new master, as with an expired record.

### Process, WorkPool and RedisPool

`signal` is the program counter of the signal goroutine and `Then` the order of
its steps. A connection is accepted while the listener is open (`Connect`), and its
request is read later (`Serve`), also while the server drains. What drains is the
contract of `http.Server.Shutdown`, which closes the listener first: `Drained` waits
for the connections with a request and for those that have not sent one. The latter
it gives up after five seconds, or at once if they served a request before; a read
timeout or the client may end them earlier (`Drop`). A connection that is kept alive
is "connected" for its next request. Left out is a race within net/http, between its
look at a silent connection and closing it, in which a request just read is lost.

A signal before `signal.Notify`, a listener that fails
(`log.Fatalf`) and a handler of `GET /metadata` that finds a NULL (`MetadataFatal`)
kill the process without a drain: the properties except that
outcome by name, and `RequestService` has it as `Kill`. In that abstract
specification the pools, the dispatcher and the signal are gone: connections are
accepted while the process serves, requests that come on them are also read while it
closes, 202 is the answer exactly if the scan has begun, and an
orderly exit comes when no request is pending and no connection may send one.
`Phase` and `Request` are the refinement mapping. The rendezvous of `Run` with the dispatcher and the spawning of
the goroutine are one step (`Receive`); when the stop channel is closed too, the
dispatcher may take either.

`free` counts the connections the pool may still hand out. Each request has two
goroutines that call the store, its handler and its worker (`Callers`), and they
compete for them: the handler for one SET, the worker for a GET and then a SET;
`Get` gives its connection back before `update` asks for one. Redis may hang and
recover at any time. `Timeouts` distinguishes the modes: only the Sentinel pool
passes the configured timeouts to the connections it dials. A pool that is closed
refuses, so that a worker which outlives the shutdown fails instead of waiting.
`Panic` is a worker that takes the process with it. A `MaxActive` of 0, which
redigo reads as no limit, is excluded by the assumption. That a failing call of
a connection also ends the connection shows as `TimeOut` giving the slot back.
What the records say is left to `ScanJobs`.

### Startup and Metadata

`env` is one of the environments the adapter may be started in, with URLs by
their kind and CA files by what they hold; `at` is the next step of `run`, and
`err` the named result that the steps share. `roots` counts the CA files whose
certificates were added. Nothing is connected to here: `sql.Open` and the Redis
pool dial later. A process that serves is at "http" or "https".

In `Metadata` Clair's updater, or an operator, writes the one row that is asked
for; the handler may find a time, a value that is no number, NULL, no row, or a
connection that is lost before or within the result. `log.Fatal` on a NULL is
`Fatal`: the process ends with all that it serves, which is why `Process` has the
step, too. The handler keeps nothing between requests, so the module has no property
of its own beyond the types; it completes what a process does after its start.

### ClairScan

A layer name is the chain of digests it hashes, SHA-256 taken as injective.
Clair stores, for a name, the chain of blobs it processed for it, and does not
process a name again; a failed call may have reached it. Vulnerabilities are not
modelled here: a report lists the blobs that contribute to it.

### ScanReport

A layer is chosen at the start. `AddItems` is a turn of the loop of
`toVulnerabilityItems` over the features, with `next` as its counter; the overview
is written as the worst severity of a set, which is what the code's loops keep.
Then the report passes through `UpdateReport` (`Save`), the
`UpdateStatus(Finished)` that reads and rewrites the whole record, and the GET of
a client. `report` is its form in memory, with severities as numbers, `json` that
in Redis or in the answer, with severities as names. The severity 0 of a report
that is not there yet is in no table and encodes as "".

### CherryPick

`base`, `branch` and `pr` are what GitHub shows, the only memory between runs;
`at`, `todo`, `seen` and `dry` belong to the one run that the workflow's
concurrency group lets work. `Candidates` is what the loop reads of `git cherry`,
`SkipMerge` the check for a single parent, `Consider` the log and the patches that
`git cherry` knows; `Search`, `Orphan`, `Pick`, `Push` and `Create` are the remote
steps of `is_handled`, `cherry_pick_commit` and `open_pr`, with `Exit` where
`set -e` ends the script. `is_handled` is the condition of an `if`, where
`set -e` does not apply: a failed search goes on to `Orphan`. Neither does it apply
to the process substitution that `git cherry` runs in, nor to `git show`, `git log`
and `git cherry-pick`, which run in conditions: the fault "git" has `Candidates` end
early, a commit taken for a merge or for empty (`PassOver`), and a log that names
none. The history variable `misled` tells the runs that passed a commit over for
that. `Blank` are the commits whose pick conflicts and stages nothing, which
`cherry_pick_commit` takes for empty without any fault. Closing and merging
are the maintainers'. That deleting a branch closes its pull request, and that a
push to a branch with another commit is rejected, is GitHub's behaviour.

### VulnReport and VulnCheck

The scanner emits its messages in any order and may end early, within a message
or between two, then with an exit code that is neither 0 nor 3; the file with
the exit code may be missing. Findings are merged after the stream has ended, so
that the entry naming a module may follow the finding that needs it. `Headline`,
`Shown` are the vulnerabilities the renderer chooses and `Rows` those that it
leaves in the table, which are the ones with fewer than `MaxRows` before them in
its order; wording, escaping and the sequence of the rows are left out.

In `VulnCheck`, `comments` are those with the marker on the pull request, each by
the commit it describes. `Push` cancels the run in progress wherever it is and
starts over with another tree, `Rerun` repeats a run. `List`, `Edit` and `Enforce`
are the steps of the job with what a failing call of GitHub does to each: a list
that fails ends the script under `set -e`, a failing edit is only warned of and
may have been executed.

## Runs

| Run | Instance | Shows |
|---|---|---|
| `jobs_faulty` | 2 jobs, 1 replica, all faults; only expiry fair | `FinishedHasReport`, `FinishedNeverReopens`, `ExpiredStaysGone`, `AbandonedOnlyAtLast`, `PollingEnds`, and the inductive invariant `RecordInv` |
| `jobs_clean` | 2 jobs, 2 replicas, failed calls are not executed, crashes; goroutines fair | `ScanJobs` implements `ScanService`; every accepted job comes to its end (`ScanGetsVerdict`) |
| `failover` | 1 job, 2 servers, failing, ambiguous and late calls, crashes, any number of failovers | `ReportLostOnlyInFailover`; polling ends once failovers do |
| `process` | 2 requests, 1 connection, a Redis that hangs, with timeouts | no stranded handler or accepted connection, no leaked connection to Redis; the process implements `RequestService`; requests, updates and the shutdown end |
| `startup` | every environment with up to 2 CA files; updates of Clair's database | what is served and what is refused |
| `clair_scan` | 6 scans, failing services | reports cover exactly their image, parents first, chains processed once |
| `scan_report` | every layer of 2 features with 2 vulnerabilities | overview and list agree and are complete after all encodings |
| `vuln_check` | 7 messages in every order, 3 pushes, re-runs, failing calls | the merge does not depend on the order; half a scan never passes for a result; one comment, and the right one after a clean run |
| `cherry_pick` | 5 commits (a merge, an empty one, one that stages nothing), every fault but the search's | one pull request per commit, none ended by a run, and none forgotten whose pick stages a change by a run that git did not mislead |

Runs that refute a sentence of the repository, each one property:

| Run | Sentence | What the code does |
|---|---|---|
| `redis_standalone` | README.md:81, timeout for reading a reply | standalone connections have none |
| `cherry_pick_search` | `upstream-cherry-pick.sh:228`, one commit maps to one pull request | a search that fails counts as one that found nothing: an open pull request loses its branch and a second one is opened |
| `cherry_pick_skips` | `upstream-cherry-pick.sh:228`, one commit maps to one pull request | a pick that conflicts and stages nothing, as when upstream deletes a file that the fork has changed, is taken for empty by every run: the commit gets none |

`NothingIsSkipped`, the property of the last one, also fails with "git" among the
faults, and then by runs that are green and have done nothing: a `git cherry` that
fails, say on a `BOOTSTRAP_SHA` that upstream no longer has, leaves an empty list
(line 385), and a `git show` that fails makes a merge commit of any other (lines
88-92). `CompletedRunCoversUpstream` shows that a later run which git does not
mislead makes up for these, but not for the commits that stage nothing.

Writing the models turned up more disagreements, which have no run:

* OCI manifests are advertised as consumed (`handler.go:205`, `handler_test.go:402`)
  and always fail, since `GetManifest` asks for and parses schema 2 only
  (`registry/client.go:82`; `GetManifest` in `ClairScan`);
* a restart may leave a lost scan's record Pending, where README.md:51-52 says
  `Running` (`Die` with a worker at `MarkRunning`);
* `Shutdown` of the work pool waits for no goroutine, where `work.go:49` says it
  does (`WorkPool!Shutdown`);
* `adapter.Scan` panics on an image without layers, where `adapter.go:15` says
  that it returns an error ("panicked" in `ClairScan`);
* an error of the system's CAs, meant as a warning (`config.go:82-84`), is returned
  by `GetConfig` after all unless a database URL overwrites it (`LoadRoots` and
  `ReturnConfig`; `RefusesOnlyUnusable` excepts it by name);
* a Sentinel URL with an empty monitor name is accepted, where `pool_test.go:77`
  expects "no master name" of one without (`ParsesAsSentinel`;
  `ServesOnlySound` excepts it by name);
* `client.go:117` never asks `rows.Err`: a connection lost within the result reads
  as "updater not finished" at line 126 (`NoRow`);
* a scan that could not produce a usable report has a fixable count of 0 and
  removes the comment, which CONTRIBUTING.md:78 has removed "once nothing
  fixable is left" (`Edited`; `CommentIsCurrent` speaks of successful runs only);
* comments that cannot be listed fail the job and keep `Enforce` from running,
  where `vulnerability-comment.sh:34` says that a failed comment call must not fail
  the scan (`List`);
* `main.go:68` puts the nil client where the error belongs in its message.

**Bounds.** Jobs share nothing but a process (a panic kills both), so two jobs
on one replica show every interaction and two replicas show independence; the
state of a job is finite without further bounds. `failover` has one job, since
jobs meet neither in a server's key nor in a failover; with two the same run has
about a million states. In `process`, two requests and one connection let a
handler wait for the connection that a hanging worker has, or block in `Run`,
when the signal comes, and let the pool run dry with waiters of both kinds; three
requests and two connections (118,000 states) were explored for the invariants
alone. Two CA files let the second fail after the first; two updates
let a row be replaced while a request is served.
The images of `MCClairScan` share a base, share a blob with another chain, repeat
a blob, have no layers or are OCI images. The findings of `MCVulnCheck` have every
level, name no module, have no fix or another module, and its table has room for
fewer rows than there are; three pushes let a comment be created, left stale and
brought up to date. Two picked commits let one fail while
the other waits in the same run, with one that stages nothing between them; runs may repeat without bound. A feature with two
vulnerabilities and a second feature suffice for every order of better and worse.
`Process`, `ClairScan`, `ScanReport`, and `Startup` where the adapter gives up, come
to a rest, and so their runs do not look for deadlocks; `ScanJobs`, `Failover`,
`CherryPick` and `VulnCheck` never rest.

**Fairness.** `WorkerSpec`, of `jobs_clean`, assumes that goroutines run and that
Redis, Clair and the registry answer; nothing in the code enforces the latter, as
the HTTP clients have no timeouts, so this is an assumption of `ScanGetsVerdict`
alone. `ExpirySpec`, of `jobs_faulty`, assumes only that Redis expires keys that
have a TTL, and `FailoverSpec` only that the master does. `Process` assumes weak
fairness of main, the signal goroutine, the dispatcher and the handlers' own steps;
strong fairness of getting a connection, which the pool's Go channel gives by
serving waiters in order, and of a reply by a Redis that is up again and again;
and that deadlines fire, among them those by which a draining server closes silent
connections. It assumes nothing of scans, clients and signals. The
other modules state no fairness: nothing of what they promise needs any.

## Proofs

Every safety property of the passing runs is also a theorem, for every value of the
constants, or for those that the theorem names where it needs to restrict the faults.
Each theorem rests on an invariant that holds at the start and is
preserved by every step: `RecordInv` in `ScanJobs` and `Inv` elsewhere, with
further ones on top of it where a theorem needs more (`Handed` in `ProcessProofs`,
`CoverInv` in `CherryPickProofs`, `Scalars`, `Stream`, `Merged` and `Current` in
`VulnCheckProofs`). Each action has a lemma or a step of its own.

`ScanJobsProofs` proves, for every set of jobs, artifacts and replicas, every
assignment and every set of faults among `FaultKinds`:

* `TypeCorrect` and `RecordInvariant`: the type invariant and the inductive one;
* `FinishedRecordHasReport` (`FinishedHasReport`), `FinishedIsNotReopened`
  (`FinishedNeverReopens`), `ExpiredRecordStaysGone` (`ExpiredStaysGone`),
  `WorkersAbandonOnlyAtLast` (`AbandonedOnlyAtLast`);
* `ScanServiceIsImplemented`: with `Faults` among "error" and "crash" the records
  implement `ScanService`. With the other faults they do not: an ambiguous write
  shows a client a verdict that the worker then takes back.

The assumptions are those of `ScanJobsAssumption`: each job has an artifact and
a host, and `Nil` is neither a record nor an artifact.

`FinishedHasReport` is not inductive: `UpdateStatus(Finished)` copies the report
from whatever record it reads. So the record must have the report from the
success of `UpdateReport` on (`ReportBeforeMark`), which a late write could
undo. None can, because a write is given up only on the way to failure and the
success path is never re-entered (`LateWritesAreAbandoned`); `WorkerNeedsSubmit`
gives the same for creations. For `FinishedNeverReopens` one needs that a worker
before its last calls has an open record (`OpenWhileWorking`), that copies have
the status their call sets (`CopyIsMarked`), and that nothing in flight reopens
a finished record (`NothingReopens`). What one SET may do is stated once in
`DoEffect`. For the refinement, `CleanInv` adds that nothing is in flight, that the
worker of a closed record has ended and that a rejected request has no record; `ServiceStep` maps each change of
one record to a step of the service and every other step to a stutter.

`FailoverProofs`: `OnlyFailoversLoseReports` (`ReportLostOnlyInFailover`), for any
number of jobs, replicas and failovers and every set of faults. `Copies` carries what `RecordInv` says of
private copies over to two servers. `Safe` says of a job that is not exposed that its
worker is not between its two writes while a demoted server answers, that its
Finished records on both servers and its copies have the report, and that the
master has it, or has lost the record to its TTL, when the worker is about to mark
it. `GivenUp` says of the commands that either server may execute late that they come
from a rejected request or from a worker on its way out, so that none can reach a job
between its two writes; those that mark a job Finished have its report (`Safe`). `Exposing` is how a step adds jobs to `exposed`.

`ProcessProofs`, for any finite set of requests, any size of the connection pool,
with and without timeouts: `TypeCorrect`; `NoConnectionIsLost`
(`ConnectionsAreConserved`), where a step moves one goroutine into or out of the set
of those that hold a connection and the cardinality follows; `PoolsOutliveHandlers`
(`HandlersKeepTheirPools`), which follows from `ShutdownOrder`: how far the signal
goroutine is says what is closed and that, once the server is drained, no handler is active
and no connection is left on which one could start (`Quiet`); and `RequestServiceIsImplemented`
(`ImplementsRequestService`). There `ShutdownOrder` is why `Return` maps to `Exit`,
and `Handed`, that a task has begun exactly if its call of `Run` has returned and
that only a handler with its record calls `Run`, why a 202 means a scan that has
begun and a 500 one that never will. Steps of the store, of the two pools and of the
signal goroutine other than closing the listener are stutters (`Unseen`). The
connections that a draining server waits for are part of `Quiet`: without them a
request could still come when the pools that its handler needs are gone.

`ClairScanProofs`, for any images and any number of scans: `TypeCorrect`,
`ReportsCoverImages` (`ReportCoversImage`), `ParentsAreKnown` (`ParentIsKnown`),
`ChainsHaveOneName` (`ChainsAreProcessedOnce`). The invariant says that whatever Clair
holds under a name is the chain the name stands for (`NamesAreChains`), which every
scan preserves for all others since a name is fixed by its chain, and that Clair
knows the last layer that a scan has posted (`Progress`).

`MetadataProofs`, for any list of CA files and any number of updates: `TypeCorrect`,
`OnlySoundIsServed` (`ServesOnlySound`), `OnlyUnusableIsRefused`
(`RefusesOnlyUnusable`). What is served is `Sound` but not always `Usable`: a
Sentinel URL with an empty monitor name gets past `NewPool`. `Checked`
says what each step has established of the environment, `ErrorIsOfRoots` which
error may be set where.

`ScanReportProofs`, for any list of features, any number of vulnerabilities and any
severities of Clair: `TypeCorrect`, `ListIsComplete` (`EveryVulnerabilityIsListed`)
and `OverviewAgrees` (`OverviewIsWorstItem`). `Lists` says that the list holds one
item for each vulnerability of the features before `next`, and each loop iteration
appends those of the next one (`ListGrows`). `OverviewIs` says that the maximum over
features of maxima over vulnerabilities is the maximum over all of them. That
nothing is lost in Redis or on the way to a client is `ReportIsRead`: the numbers
of severities and their names translate into each other on what a report can hold.

`VulnCheckProofs`, for any messages, pushes and faults:

* `TypeCorrect` (`CheckTypeOK`), by the invariant `Scalars`, without the merge;
* `UsableReportsAreComplete` (`UsableIsComplete`), since from the end of the stream
  on missing output has left a mark (`CutIsMarked`) and a run that starts over
  forgets it with the rest;
* `OneComment` (`SingleComment`), which needs that what the script found is still
  what there is when it edits (`Comments`): only a run in progress edits, and a push
  ends it;
* `OrderIsLost` (`MergeIsOrderless`): what was read of the stream is what is
  pending and what has been merged (`Stream`), and each merged entry sums up the
  findings of its key that have been merged so far (`Merged`, `SumsUp`), which
  `AddSumsUp` shows of one more finding, whichever it is. `SumsUp` does not mention
  an order, so two orders of the same messages give one result;
* `NothingWorseIsHidden` (`CommentHidesNothingWorse`): the order of the rows is
  total and puts the deeper first (`DeeperFirst`), so that what precedes a row of
  the table has its place there too;
* `CommentsFollow` (`CommentIsCurrent`): `Current` says at which step of the script
  the comment must be the one that is due to the commit (`Due`).

`CherryPickProofs` proves, for every list of upstream commits, any of which may be
merges, empty or stage nothing, and every set of faults:

* `TypeCorrect` (`TypeOK`);
* `CompletedRunsSkipNothing` (`CompletedRunCoversUpstream`): `todo` is always the
  rest of the list, if git did not shorten it (`TodoIsRest`), and in a run that was
  not misled each commit before it whose pick stages a change has a pull request
  (`Covered`); what the log names was merged from one (`LogIsClaimed`);

and for sets of faults without "search" and "lag":

* `RunActsOnUnclaimed`: beyond the search a run acts on a commit without a pull
  request (`ActsOnUnclaimed`). It is inductive with the type invariant, which
  makes the head of `todo` a commit: a maintainer can only merge or close what is
  open, so the current commit stays unclaimed until the run opens its request;
* `OnePullRequest`: `OnePRPerCommit`;
* `RunsLeaveOpenPRs`: `OpenPRsAreLeftAlone`. Both follow from what one step may
  do to a pull request (`PRStep`).

The last three need the assumption: `cherry_pick_search` is the counterexample
without it, and a stale index has the same effect.

Only model-checked is liveness (`PollingEnds`, `ScanGetsVerdict`,
`PollingEndsAfterFailovers`, `ShutdownCompletes`, `RequestsAreAnswered`,
`UpdatesReturn`), which is out of the prover's reach, as is ENABLED. Where the code
folds or sorts data, the proofs need no induction over it: an invariant of the step
that handles one element says what the fold has computed so far, and a maximum or a
place in a sorted list is stated by what it is among the elements.

## Not modelled

* Log and answer formatting, validation of requests and probes: they keep no state.
* Values of timeouts, names and the log level: data. Which idle connection the
  Redis pool hands out, and its idle timeout.
* `client.go`'s error for several rows: the key is unique in Clair's schema.
* The `sync.Once` of the registry client's factory.
* In the CI scripts: texts and labels; a cancelled run whose last call GitHub
  executes after the next run has listed the comments; maintainers who delete
  comments; pull requests of forks, which get no comment. The build, lint and test
  jobs keep no state.
* Mocks, the Helm chart and the Kubernetes manifests. Their effects appear as
  constants or faults where they matter (replicas, TTL, restarts).

## Plan

1. `VulnCheck`: the late call of a cancelled run, as "late" in `ScanJobs`, and
   which properties survive it.
2. `Process` with the records of `ScanJobs` in place of its free-standing calls, so
   that one composition implements `ScanService` and `RequestService` together.
