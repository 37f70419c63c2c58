# ydb-snippets: verification project

The repository is a collection of independent programs around YDB: a sample of a
distributed lock, maintenance tools for clusters (scheme repair, backup fixing,
VDisk compaction, tablet management, DNS registration), a comparison of git
branches, throttled writers and benchmarks. They share no code and no state with each other; what each of them
shares is a server, with other instances of itself and with applications. This
directory holds TLA+ models of the programs that change something, one family of
modules per program, the TLC configurations that check them on small instances,
and proofs checked by TLAPS that hold for every instance.

`PROJECT.json` lists the components, the runs, the source lines behind every
definition (`map`), one mutant per checked property, the hazards and the
findings. Paths below are relative to `src/`.

    tlc -config MCLockRecord_safety.cfg MCLockRecord.tla
    tlapm LockRecord_proofs.tla

## 1. Inventory

### lockrecord-java: a lock in a table row (`apps/lockrecord-java`)

* State: the row `(id, locked, owner)` of `` `sys$lock1` ``; per JVM the atomics
  `owner`, `running`, `execCount` of `Main`; per thread its place in
  `Executor.run -> work -> lock / realWork / unlock`.
* Operations: `init` (CREATE TABLE), `lock` (SELECT and UPSERT in one
  serializable transaction, looped with a pause while the row is locked),
  `unlock` (an UPDATE by id), `work`, `realWork` with its three `validate` calls.
* Interaction: threads of one JVM share the atomics; JVMs meet in the row. Every
  database call goes through `SessionRetryContext`, created `idempotent(true)`
  (`YdbConnector.java:78-81`), which runs the whole callback again.
* Hard: optimistic conflicts between the two requests of `lock`; a committed
  call whose reply is lost and which is made again; an executor that dies with
  the lock; a row without a lease.
* Correct when: at most one thread is inside; the row names it; `validate` never
  complains; a taken lock is given back; the JVM can exit.

### repair-legacy-tables: `repair` (`admin/repair-legacy-tables`)

* State: for a table path `p` the scheme objects at `p`, at its temporary path
  and at `p_bak`; per run its place in the list, the operation it waits for,
  `Result` and what it has printed.
* Operations: per table describe and classify, check that the helper paths are
  free, copy with a storage config, verify, rename to the backup, rename the copy
  to the original, verify, drop the backup if `--drop-backup`.
* Interaction: with SchemeShard by asynchronous operations (request, one poll,
  time limit), with applications that write to the table all the while, and with
  other runs of itself, earlier and concurrent.
* Hard: nothing is at the original path between the two renames; a run that has
  given up may see its operation executed later; a rerun finds the remains of a
  killed run; rows arrive between copy and rename.
* Correct when: no row is lost that a user was not warned of, every intermediate
  state can be put right by hand, a run that succeeds has repaired its tables,
  and a table the procedure does not apply to is never touched.

### fix_document_schemes (`admin/backup/fix_document_schemes.py`)

* State: four S3 objects per table directory: `scheme.pb`, `scheme.pb.sha256`
  and their `.orig` copies; per run the scheme and checksum read, and `Stats`.
* Operations: list, then per directory GET, HEAD, COPY and PUT in a fixed order.
* Hard: no two requests are atomic together; any of them may fail, also after S3
  has carried it out; a run may be killed anywhere and is started again.
* Correct when: the originals are never lost or overwritten; the export is
  importable after a run without errors, whatever happened to the runs before it.

### vdisk_compact (`admin/viewer/vdisk_compact.py`)

* State: the selected VDisks by storage group; a thread pool with one task per
  group; per task the VDisk, the operation and what the wait has seen; `Progress`
  under its lock; the errors of all tasks; on each VDisk the operations accepted.
* Operations: select by pool or id, request an operation by HTTP, poll a page
  until the operation is over, count, exit status.
* Interaction: worker threads share `Progress` and meet in the main thread; VDisks
  work on accepted operations on their own.
* Hard: the request is asynchronous, so "idle" may mean not begun or over; a
  request that times out may have been accepted; a poll may be slow or fail.
* Correct when: one VDisk of a group works at a time, the wait ends and ends after
  the operation, exit status 0 means that all was done.

### get_token and TokenAuth (`admin/viewer/get_token.py`, `table_full_compact.py`)

* State: the token file and its mtime, its `flock`; per client the header, the
  time it was loaded, a lock; per thread its place in `ensure_fresh`.
* Operations: `update_token` (lock, look, log in, truncate, write), `setup_auth`,
  `ensure_fresh` before every request.
* Interaction: threads share the header and read it without the lock; processes
  share the file, which clients look at and read without the `flock`.
* Hard: double-checked test; look-then-read; a process killed between truncation
  and write; a thread that waits with a lock for a child that waits for another; a
  login without a time limit.
* Correct when: a fresh token is not overwritten, requests carry a fresh one, no
  client is ended by another, no lock is kept while logins are answered.

### register_private_dns (`admin/baremetal-dns/register_private_dns.py`)

* State: the servers with the address of every private port, the A records of the
  zone, batches Cloud DNS works on; per run its options, the page it is at, the
  servers and records listed so far, the plan and what is left of it.
* Operations: `ListServers` and `ListRecordSets` page by page, `plan_changes`,
  `UpdateRecordSets` in batches, a wait for each, the exit status.
* Interaction: a schedule starts the full run over and over; runs started by hand
  and people who edit the zone meet it there; servers come, go and change.
* Hard: two lists read at different times and page by page; a batch that fails
  after earlier ones were applied; a batch carried out after the run gave up; a
  server that loses one address, which must not rename the others.
* Correct when: only the tool's own records are touched, a living server keeps its
  name, exit status 0 means that the zone is right, and the schedule heals
  whatever was left.

### manage_tablets (`admin/viewer/manage_tablets.py`)

* State: in the database the paths, what the directories list, the registered
  shards, the operations in flight and the tablets of Hive; in the program the
  queue of directories, the objects found, what is below each table, two pools,
  the cached walk over SchemeShard and its lock, the targets and their attempts.
* Operations: find Hive and the start directory, walk, describe tables for
  indexes and changefeeds, read the tablets of each object, go to SchemeShard for
  an object that describe hides, deduplicate, stop or start, exit 0, 1 or 2.
* Interaction: the threads share the cache under `_HIDDEN_LOCK` and the list of
  targets; applications create and drop objects all the while.
* Hard: every page is read at another moment; a path that was seen may be gone,
  listed but hidden, or half deleted; an answer of Hive may be lost and the
  request made again; two objects may share a tablet.
* Correct when: no tablet of another object is touched, no tablet is in two
  threads, exit 0 means done for everything that was there all the time, a failure
  has a reason, and the run ends.

### version-analyzer (`tools/version-analyzer`)

* State: the branch tips on the server, in `refs/remotes` and in `refs/heads` of a
  clone others work in too; per run the names chosen for the branches, the futures
  of the git commands, the commits to be judged, the report.
* Operations: `git fetch` and one fetch per branch, `resolve_ref`, up to four
  `git log` at a time, a look at every commit, the report; later the validator's
  checks of it, with `--recompute-expected`.
* Hard: there is no snapshot: every command looks the tips up again while branches
  are pushed, deleted, fetched and pruned.
* Correct when: no commit is lost between two commands, none is listed without
  need, the report is about what the server had, the validator neither rejects
  a report without a reason nor accepts one that is out of date.

### Not modelled, or in part

| Part | State and operations | Hard behaviour | Status |
| --- | --- | --- | --- |
| `admin/viewer/table_full_compact.py`, the workers | a pool of tablets, a compaction polled to its end | a state that shows late, ten retries, an error that ends the pool | partly: its authorization is in `TokenRefresh`; the wait has the hazards of `VdiskCompact` |
| `apps/insert-5k-java`, `apps/readtable-java` | a counter of tasks in flight, a queue | test and increment apart, drain at the end | planned |
| `repair-legacy-tables find` | a walk that prints | completeness of the output | planned; the walk of `ManageTablets` is the harder one of the two |
| `apps/coordination-java` | one semaphore session | loss of the session | planned |
| `scheme_operations.py`, `tablet_object.py`, `find_legacy_tables.py`, `find_global_locks.py` | read-only reports over the pages that `SchemeShard` describes | a report is of no single moment; it changes nothing | not modelled |
| `cdc_topic_sizes`, `schema_analyzer`, `ydb-restore` | one pass over their input | none beyond their input | not modelled |
| other `apps/*` | samples of one SDK call, with copies of one connection helper | none of their own | not modelled |
| `bench/*` | load generators and statistics | measurement | not modelled |
| shell scripts, `arch/`, dashboards, queries, `pkg/kikimr` | I/O, data, generated code | - | not modelled |

## 2. Modules

| Module | Models | State, and the code behind it |
| --- | --- | --- |
| `Mutex` | what `lock`/`unlock` promise | `holder`, `inside` |
| `LockRecord` | `YdbLockRecord`, `Main` | `row`, `table`, `stale`: the database; `pc`, `attempt`: a thread and its retry context; `owner`, `running`, `execCount`: the atomics |
| `LockRecord_proofs` | theorems about it | |
| `RepairTables` | `repair.go`, the operations of `client.go`, `classify.go` | `tree[p][slot]`: config and rows at the three paths; `call`: the scheme operation; `pc`, `pos`, `opt`, `count`, `printed`: a run; `written`, `late`: history of rows |
| `RepairTables_proofs` | theorems about it | |
| `FixSchemes` | `fix_document_schemes.py` | `scheme`, `sum`, `schemeOrig`, `sumOrig`: S3; `pc`, `pos`, `raw`, `old`, `stats`, `dryRun`: a run; `first`: history, the export as it was |
| `FixSchemes_proofs` | theorems about it | |
| `VdiskCompact` | `vdisk_compact.py` | `pc`, `at`, `op`, `page`, `saw`, `expired`, `failed`: the task of a group; `progress`, `collected`: `Progress` and `all_errors`; `state`: the VDisks; `carried`, `blind`: history |
| `VdiskCompact_proofs` | theorems about it | |
| `TokenRefresh` | `get_token.py`, `TokenAuth`, `setup_auth` | `file`, `flock`, `gpc`: the token file and the processes of `get_token.py`; `phase`, `pc`, `lock`, `header`, `loaded`: clients and their threads; `refreshed`: history |
| `TokenRefresh_proofs` | theorems about it | |
| `PrivateDns` | `register_private_dns.py` | `srv`, `zone`, `requests`: servers, zone, batches in Cloud DNS; `pc`, `opt`, `cursor`, `seen`, `existing`, `plan`, `answer`: a run; `result`: the last exit status; `undisturbed`, `stable`: history |
| `PrivateDns_proofs` | theorems about it | |
| `SchemeShard` | the database as its pages show it (external) | `here`, `listed`, `shards`, `op`, `hive` |
| `ManageTablets` | `manage_tablets.py`, EXTENDS `SchemeShard` | `queue`, `objects`, `nested`, `errors`: discovery; `task`, `collected`, `walk`, `cache`: the pool that reads; `act`, `accepted`: the pool that asks Hive; `readFailed`, `untouched`, `denied`: history |
| `ManageTablets_proofs` | theorems about it | |
| `MissingCommits` | `find_missing_commits.py`, `validate_find_missing_output.py` | `server`, `tracking`, `head`: the tips; `ref`, `left`, `got`, `pending`, `out`: a program at work; `report`, `verdict`: what it leaves; `was*`: history |
| `MissingCommits_proofs` | theorems about it | |
| `MC*` | values of the constants | |

An action is one request to the server together with the code up to the next
one, or one access to a shared atomic. The operators called "Mutant of X" are
plausible slips in X; nothing uses them in a run, they document which property
sees which slip.

### LockRecord

`lock` is `Select` (a locked row leads to `Sleep`, as `ALREADY_EXISTS` does),
then `Commit`, `CommitRefused` (the row was written since the read, or the
request failed) or `CommitReplyLost`. `unlock` is `Unlock`, `UnlockReplyLost` or
`UnlockFails`. `Retry` is one turn of the retry context: from the start of the
callback, up to `MaxRetries` times, then the failure is the answer; `lock` goes to
its pause on any failed commit, an exception out of the SELECT or of `unlock`
ends the thread. `Enter`, `Validate`, `CountWork` and `Leave` are `work` and
`realWork`: `owner` is set after `lock`, looked at three times, and reset before
`unlock`. `Crash` kills a JVM. A serializable transaction is its set of readers:
a committed write marks the transactions that have read the row as `stale`.

Two faults are parameters, since the answer depends on them. `"lock" \in Lossy`:
a commit is made and its reply lost. The retried callback reads its own row as
locked, so the thread waits for itself; nobody gets in (`Orphan` in `Mutex`) and
nobody ever will until the row is edited by hand: safety holds, progress does
not. `"unlock" \in Lossy`: see the finding below; exclusion holds only without it.
The liveness run includes both, failing requests and killed JVMs: a lock is given
back unless a fault of its owner leaves it to nobody (`Orphaned`: the thread that
the row names is dead, or waits for the lock it has itself), and executors end
unless a lock stays so for good.

### RepairTables

The steps `AssertNeedsRepair`, `CheckTemp`, `CheckBak`, then four times
`Send`/`Receive` with `VerifyTemp` and `VerifyOrig` between, are `repairOne` in
its order; `Stop` is the first error that ends `Run`. `GiveUp` stands for a
failed request, a time limit, an operation still in progress after its one poll,
and a kill: they all leave the program without knowledge of what the server
does, and `ServerExecute` may still execute the operation. A table is its
classification input and the set of its rows; a write goes to whatever is at the
original path. `late` are the rows written to the original when a run has made
its copy and has not renamed yet: nothing stops the writers, and these rows are
what is at risk (`RowsSurvive` names them and promises all others).

### FixSchemes

Each step is one S3 request. `Fails` is a request that fails, before or after S3
has done it: one counter of `Stats` goes up and the loop goes on. `Kill` stops a
run; with `Overlap` FALSE the next run begins when the one before has ended. A
scheme is abstracted to whether the parser accepts it and the set of its
attribute blocks: the script changes no other part of the text. A checksum is the
scheme it was computed from, so two different schemes never have the same one.
The counter `checksums_updated`, which goes up just before `updated`, and the
wording of the log are left out.

### VdiskCompact

`StartGroup` is the pool, `Request`/`RequestFails` is `start_vdisk_action`, `Poll`
and `Check` are one turn of `wait_until_idle`: the page is read, then looked at,
with `Expire` (the deadline for the operation to appear) possibly in between.
`NextVDisk` is the end of the `try` in `process_group`, `Collect` the loop over
`imap_unordered`. A failed poll changes nothing and is a stuttering step. The
constant `Inputs` holds what the selection returns, grouped and sorted. The VDisk
is `Accept`, `Appear` and `Finish`. Nothing is assumed about time: the five seconds
for an operation to appear are a guess of the code, and the clock is read after
the answer has come (line 432), so `Expire` may happen before an operation shows,
and between an answer and the look at it. The code then believes an idle page that
tells nothing. `blind` is the history of the operations this has happened to: the
deadline passed and no page that was read, or was being looked at, had shown them;
one that shows later on is taken off. The properties say what holds for all
others. Restarted nodes and pages that are not recognised (both count as idle) are
left out.

### TokenRefresh

Ages are counted in ticks, two to the limit of five minutes, and not told apart
beyond the limits that matter. A tick does not fall between two steps on the file
or in memory (`Hurrying`), while steps of different processes and threads
interleave freely; logins, requests and waiting for either lock take any time.
`Exit` is the end of a `get_token.py`: its `flock` goes with it, also when it is
killed. The read of the header in `Send` and the test in `TestLoaded` are without
the lock; `ApplyToken` replaces the header first and notes the time second. `Hang`
is a login that is never answered: `requests.post` has no timeout
(`get_token.py:37`), nor has the `subprocess.run` that waits for the child
(`table_full_compact.py:60`), so a hung login keeps the `flock` and, in a client,
`TokenAuth._lock` until somebody kills it (`Kill`, which nobody needs to do).

### PrivateDns

`ListServers` and `ListRecords` read one page each (`Page`); what is on a later
page is read later. After the last page of servers the inventory is checked
(`BadInventory`: a run stops before it changes anything), after the last page of
records `PlanChanges` compares what there is with `Desired` within `PruneScope`.
`Apply` hands the next batch to Cloud DNS, which carries it out as a whole at a
time of its own or refuses it (`Execute`), and `Waited` is the answer. `Fails` is a
call or a wait that fails: the run ends, and the batch it was at may or may not
have arrived. A plan is a set of changes; `Batch` takes the next ones in the
order of the names. `Surroundings` are servers that join, leave, get or lose an
address, and records edited by hand, `Changes` times in all together with failing
calls. The key file, the choice of the endpoint and the lookup of the zone by its
name are left out. Two names that differ only in case are one (`LabelOf`).

### SchemeShard and ManageTablets

`SchemeShard` is what the tool relies on and says itself about DROP
(`manage_tablets.py:27-38`): the path disappears from describe at once, the
directory may list it for a while, its shards are deleted one by one and are known
to the operation that deletes them. `ManageTablets` adds the program. Its discovery
steps are one request each: `ResolveHive`, `ResolveStartPath`, `ListDirectory`,
`DiscoverNested`. In the first pool each object is described (`Describe`) or, when
describe hides it, looked up in the walk over SchemeShard, which one thread does
under `_HIDDEN_LOCK` (`BeginWalk`, `ReadTx`, `ReadPath`, `EndWalk`, `WalkFails`)
and which is kept for all later ones (`UseCache`). In the second pool a target is
posted (`Post`), answered (`Reply`) or not (`NoReply`), and made again until its
attempts are used up; with `--no-wait` Hive may do later what it has accepted
(`HiveDoes`). `Refuse` is an answer that is not tried again: access is denied, as
when the token of a long run is out of date, or another method is asked for
(lines 625-629). With `--hive-id` Hive is not looked for. The HTML tables are
abstracted to what they say. `Quiet`, `Keep` and `PostQuiet` only say what a step
leaves as it is.

### MissingCommits

The history is a constant; a branch is a tip, and only moves forward or is deleted.
Every git command is one step that looks its tips up: the four commands of
`find_probable_missing` end in any order (`Future`), the commits are then judged
one by one (`Judge`) when there is a base branch. The validator is the same rules
begun again later (`Validate`, `Check`, `Recompute`, `Compare`). A branch is given in one
of four forms (`Form`): its short name; a ref of the remote; `refs/heads/x`; any
other full ref, which is not fetched by name (`Names`). `head` is the tip in the
clone that the short name falls back to, and that the last two forms mean
(`Tried`): `resolve_ref` returns a full ref as it is given. Nobody moves it. The two windows for
issue ids (`--next-since`, `--base-since`) have one value, and clocks are right: a
commit is younger than its parents (`CommitsAssumption`), since `git log --since`
stops early otherwise. The order and the text of the lines are left out, and so is
`--self-check-outputs`, which only informs.

## 3. Runs

| Run | Instance | Shows |
| --- | --- | --- |
| `lock_safety` | 3 threads in 2 JVMs, 1 retry, 2 rounds per JVM; failing requests, lost replies of `lock`, killed JVMs | exclusion, `validate` is silent, work is counted under the lock, and `Mutex` is implemented |
| `lock_liveness` | the same threads, fair; failing requests, lost replies of `lock` and `unlock`, killed JVMs | a taken lock is given back unless a fault of its owner orphans it, every executor ends unless a lock is orphaned for good |
| `lock_lost_unlock` | lost replies of `unlock` | violated: `validate` finds another owner |
| `repair_batch` | 2 runs, 2 tables of any config, 1 row written to each at any time; any options | rows survive, the gap between the renames can be repaired, a successful run has done its work, unsafe tables are untouched, every run ends |
| `fix_sequential` | 2 runs one after the other, 2 directories of any kind, every failure and kill | originals are kept, the export can be put back, a clean run leaves an importable export that later runs do not change |
| `fix_overlap` | 2 runs at once, 1 directory | violated: originals are not overwritten |
| `vdisk_groups` | 1 to 3 groups, 2 workers, 1 or 3 operations; a VDisk given twice, a run that does not wait, a dry run; requests that fail, accepted or not; deadlines that pass at any moment | of what a group has come to, only the operation it waits for is in flight, exit status 0 and the summary can be trusted, both but for `blind` operations; the run ends |
| `token_refresh` | 2 clients with 2 and 1 threads, a manual `get_token.py`, `MaxAge` 2; a file that is absent, empty, fresh or old; logins that fail or hang, kills | a fresh token is kept, requests carry a fresh one after the first refresh, no client is aborted by another, `TokenAuth._lock` is given back unless a login hangs |
| `dns_schedule` | the scheduled run and one with other options; 3 servers of which two share a name, 3 ports, 2 prefixes, 5 names of which one is nobody's; pages and batches of 2; 1 change or failure at any moment; partial, non-pruning and dry runs | only own records are touched, a living server keeps its name, a good exit means a right zone, names do not shift, the schedule converges |
| `tablets_walk` | 9 runs over seven small databases: topics dropped or created meanwhile, a prefix inside a system directory, changefeeds of a table and of its index, a column store that shares a shard with its table, `--no-wait`, `--hive-id`, a dry run; 2 threads, up to 2 changes and 2 faults, access denied to any request | only selected tablets are asked for, one thread per tablet, exit 0 means done, no false alarm, the run ends |
| `tablets_stale_cache` | the two topics alone, both dropped | violated: what is said to have no shards has none |
| `commits_moving` | 7 commits with a merge, shared ids and skipped paths; 3 changes of the server or the clone at any moment; with and without fetch, base branch and filter; short names and full refs | no commit is lost, what is listed is missing, the validator agrees and can be relied on, the report is about the current server for short names and refs of the remote |

Why the bounds are enough. Two threads of one JVM and one of another are the
least that distinguish the shared atomics from the shared row, and the third
thread is the one that enters when a lost `unlock` frees the lock of the second.
One retry is the first one that finds its own effect; `MaxWork` only bounds how
often a round repeats, and a round leaves no trace but `execCount`. Two runs are
a killed one and its rerun, or two that overlap; two tables or directories are
what is needed for an error in one to affect the next, since no step reads more
than one. One row written at any time is before, between or after any two steps;
rows do not interact. In `VdiskCompact` three groups on two workers make one wait,
two VDisks are the least for order within a group, and operations differ only in
their number. Two threads of one client meet in its lock and its header, the third
is in another process; two ticks to `MaxAge` make a token that is fresh but not new.
In `PrivateDns` pages and batches of two are the least that split both lists and
the plan and still put two of their members together; one change between any two
requests is what a run can see wrong, since it reads every page once. In
`ManageTablets` two droppable topics are a first and a second reader of the cache,
two faults are a lost answer and its retry, and two threads let one walk while
the other waits. In `MissingCommits` three changes are a push, the fetch that brings it into
the clone and one more in between, or one of each branch.

Fairness. The JVM schedules its threads, database calls return (the SDK has
request time-outs), and `Main.run` leaves `waitTime()` after five minutes:
`WF` of each thread's step and of `StopRunning`; a commit that is possible again
and again is not refused for ever (`SF` of `Commit`: an optimistic conflict has a
winner). Nothing is assumed of faults. In
`RepairTables` the program runs, and the server answers a call it has got (or the
call ends in `GiveUp`, which needs no fairness). In `VdiskCompact` threads run and
polls succeed in the end (`WF`: the code polls for ever, so without this the run
does not end), time passes (`WF` of `Expire`) and a VDisk goes on with what it has accepted. In `TokenRefresh`
processes and threads run, a login that is answered ends after its ten attempts (one
that hangs need not end), and the kernel does not pass over a waiter of the `flock` for good (`SF` of `Lock`); nothing is assumed
of the `threading.Lock`, which is not fair. In `PrivateDns` the full run
is started again when it has ended, as the help text asks (`register_private_dns.py`,
line 642), a run goes on, and Cloud DNS finishes or refuses what it has accepted. In `ManageTablets` the program
goes on and Hive does what it has accepted; nothing is assumed of the database.

`Terminated`, and `Over` in the newer modules, is a stuttering step in the states
where everything has ended, so deadlock is checked in every run: no other state is
without a successor (`TokenRefresh` and `PrivateDns` have no end).

What a run does not show, on purpose. `WaitedFor` and `SuccessMeansCarriedOut` say
nothing of an operation that the deadline has passed on before a page showed it,
and `WaitedFor` nothing of a VDisk whose request was reported as failed: it may
have accepted the request all the same, and the program goes on to the next one.
With exit status 0 an operation may therefore not have begun; the code has no means
to know. `LockGivenBack` leaves out a login that is never answered, which stops every
client that needs a token, and `LockReleased` an orphaned row. `FetchedIsCurrent`
leaves out `refs/heads/x`, see section 5. `token_refresh` promises a fresh header
from the first refresh on: `TokenAuth.__init__` takes the token of the file at any
age. A dry run of `repair` prints the paths it would repair like those it has
repaired.

## 4. Proofs

Every safety property that a run checks, invariant or action property, is also a
theorem; liveness is not. Each proof module states its inductive invariant, shows
that every action keeps it, and derives the properties. The
invariants were tried on small instances with TLC first.

`LockRecord_proofs`, for any set of processes and threads, any bounds and every
fault:

* `TypeCorrect`: `Spec => []TypeOK`.
* `Invariance`: with `"unlock" \notin Lossy`, the inductive invariant. Exclusion
  alone is not inductive: it needs that the row names whoever is inside
  (`HolderRecorded`), and this is kept by a commit only because a commit that is
  not stale has read a free row (`FreshReadIsFree`), so nobody was inside. The
  conjunct on `Main.owner` rests on exclusion: `Enter` and `Leave` would
  otherwise overwrite the owner of another thread that validates.
* `Exclusion`, `NeverMismatched`, `CountedOnlyUnderLock`: the properties of the
  same names as in the run, from the invariant.
* `Refinement`: every step of `LockRecord` is one of `Mutex` or stutters.

`RepairTables_proofs`, for any list of tables and any runs that overlap, give up,
are killed and are started again:

* `Invariance`: what a run may still do to a table, itself or through an operation
  it has sent and no longer waits for, depends on how far it has come (`Copied`,
  `Verified`, `Orphan`, `Moved`, `Placed`). The helper paths are what keeps runs
  apart: while the copy is there no second one can be made, and while the backup
  is there no other run can rename the original; so each has one owner
  (`OneOwner`), and the owner can rely on what it has seen (`Owns`).
* `RowsAreKept`, `GapsAreRecoverable`: `RowsSurvive` and `GapIsRecoverable`, from
  where the rows are (`RowsKept`).
* `DoneIsRepaired`: `DoneMeansRepaired`. A table that is repaired stays so
  (`Good`), also under the late operations of other runs.
* `UnsafeIsUntouched`: `UnsafeUntouched`. Whatever is pending for a table was sent
  by a run that had classified it (`Cleared`), and the three paths of a table are
  all of applicable tables or untouched (`Classified`).

`FixSchemes_proofs`, for any export and any number of runs:

* `TypeCorrect`: types, and that every directory a run has passed is counted in
  exactly one counter of its summary, overlapping runs included.
* `Originals`, `CanBePutBack`: with `Overlap = FALSE`, `OriginalsKept` and
  `Recoverable`. The invariant adds that one run is at work (`OneAtWork`), that an
  object without an original beside it is still the one of the export (`Saved`),
  and what the run at work knows at each request (`Checked`): past `orig` the
  original is saved, past `sumOrig` the checksum is. `fix_overlap` shows that the
  assumption is needed.
* `CleanExport`, `RerunIsSafe`: with `Overlap = FALSE`, `CleanMeansImportable` and
  `CleanIsFinal`. The invariant `KInv` adds what any sequence of broken runs may
  leave of a directory (`Shape`: a scheme is as exported or rewritten, and the
  checksum never runs ahead of it), what the run at work knows of it (`Knows`), and
  that a directory passed without an error can be imported (`Passed`).

`TokenRefresh_proofs`, for any number of clients, threads and runs of `get_token.py`:

* `TypeCorrect`: types, and that both locks are held by whom the program counters
  say. It needs that a client has one child at a time (`OneChild`): a second one
  would be started in the place of a first that holds the `flock`.
* `FreshKept`: `FreshTokenKept`, since whoever logs in, truncates or writes has
  found the file old with the `flock`, and it still is (`OldWhileWritten`): without
  the `flock` a file is opened but not changed, and time does not make it fresh.
* `SentTokensAreFresh`: `SentFresh`. What a client goes on to read is fresh when it
  is read (`ReadFresh`), and the header is never older by more than `MaxAge` than
  the noted time says (`HeaderBounded`), although the two are written one after the
  other and read without the lock.
* `AbortsAreExplained`: `AbortExplained`, from `ReadFresh`.

`PrivateDns_proofs`, for any servers, pages, batches, options and number of runs,
with every change and failure of the surroundings:

* `OwnRecords`: `OwnRecordsOnly`. A change is known by what it replaces, so the
  invariant follows it from the plan to the batch that Cloud DNS carries out: it is
  of a name under one of the prefixes, of a kind the options allow (`Own`), and
  says truly what the run had read (`Faithful`).
* `LiveServersKept`: `LiveKept`, that nothing a run does takes its name from a
  server that has not changed since the run began. Its core is about pagination
  (`SeenRight`): such a server is among those listed so far exactly if its page is,
  whatever comes and goes on the pages around it.
* `DoneIsSynced`: `DoneMeansSynced`. Of a run nobody has disturbed the invariant
  says what it knows (`Informed`): after the pages of servers all that are there,
  after each page of records the records up to it, and then that a record it
  answers for is right or one of its pending changes makes it so. A batch moves the
  changes from pending to made; a refused one ends the run, so nothing is said.
* `NamesStay`: `NamesDoNotShift`. That a name shows which port it belongs to rests
  on the ports of a server having different addresses (`OwnAddresses`), which
  every change of the surroundings keeps.

`ManageTablets_proofs`, for any tree of paths, options, number of threads, changes of
the database and faults. That `Path` is a finite tree closed under prefixes, and
which kinds hold which, is assumed (`SchemeAssumption`, `TreeAssumption`):

* `TabletsApart`: `OneThreadPerTablet`. The targets of the second pool are what
  `Dedupe` has left, one path for each tablet, and no step adds a target.
* `SelectedOnly`: `OnlySelected`, by `Base`: all that is queued, found or read is
  true, the pages of a drop and the cached walk included.
* `FalseAlarmsNever`: `NoFalseAlarm`, by `Excused`: what is hidden from describe has
  not been there all the time, each lost answer is one attempt of one target, and a
  target that is given up is gone or has lost all its attempts, unless access was
  denied to it, which is a state of its own.
* `ZeroKeepsThePromise`: `ZeroMeansDone`, by `Thorough`: as long as no error is noted,
  a path that has been there all the time is found or a directory above it is still
  queued, or a table that leads to it (`Found`); what is done has told its tablets
  (`Told`); and no tablet is forgotten between the two pools (`Carried`).

`VdiskCompact_proofs`, for any groups, modes, number of threads and failing
requests, and whenever the deadlines pass:

* `WaitIsRight`, `ExitStatusIsRight`: `WaitedFor` and `SuccessMeansCarriedOut`. The
  invariant says, for each group, that of the VDisks whose requests were answered
  only the one that is waited for has anything in flight that is not `blind`
  (`FlightRight`), what has been seen of it (`WaitRight`: once it is `Known`, that is
  seen, or passed by the deadline and not `blind`, it has begun, so an idle page
  means over), and that what is behind is carried out or `blind` (`CarriedRight`).
  That a VDisk is in one group only, its id names the group, is an assumption on
  `Inputs`.

`MissingCommits_proofs`, for any history, options and number of pushes, deletions and
fetches. What a commit reaches is the least set with its parents, not a recursion,
so no induction over the history is needed. `RefsAssumption` says that a branch was
never rewritten (no forced push), as the model does when it moves one:

* `Invariance`: without a snapshot the tips only move forward or vanish
  (`Forward`), so what a command returns lies between what it would have been at
  the start and what it would be now (`Gathering`), and so does what is left of
  the list while it is judged (`Judging`).
* `NothingIsLost`, `MissingIsReal`, `AcceptedReportIsCurrent`: `NothingLost`,
  `MissingAreReal`, `AcceptedIsCurrent`, from these bounds.
* `RejectedMeansMoved`: `ValidatorAgrees`. While nothing moves every command gives
  one fixed answer (`Unmoved`), so tool and validator compute the same set.
* `FetchedTipsAreCurrent`: `FetchedIsCurrent`, from `Fetched`: what the clone has of
  a branch that was fetched by its name only moves forward, and a short name is not
  resolved to the clone's own branch while the remote's is there.

Only model-checked: liveness (`LockReleased`, `ExecutorsEnd`, `RunsEnd`, both
`RunEnds`, `LockGivenBack`, `Converges`), since temporal reasoning with fairness and
ENABLED is out of the prover's reach; and `TypeOK` of the modules whose runs do not
name it as a property, of which each proof has the part it needs (`Typed`).

## 5. Findings

* `lock_lost_unlock`. `unlock` updates the row by id without testing the owner,
  in a retry context that treats it as idempotent. When the reply of the first
  UPDATE is lost, another thread takes the lock, the repeated UPDATE frees it, and
  a third thread enters while the second works. `Main.validate` reports it.
* `fix_overlap`. Two runs at once: the check for `scheme.pb.orig` and the copy to it
  are two requests, and the second run may copy the rewritten scheme over the
  original. The script says originals are not overwritten; it holds for runs one
  after the other, which is proved.
* `tablets_stale_cache`. The walk over SchemeShard is made once per process. A topic
  dropped after it and before its own describe is not in the cached map, and the
  tool says that SchemeShard has no shards for it while all of them are registered.
  The run counts it as an error, so exit status 0 is not affected
  (`ZeroMeansDone`).
* Met while `ZeroMeansDone` was proved, and not a run of its own: with `--path-prefix`
  inside a directory whose name begins with a dot, and without `--include-sys`, one
  listing that fails in `resolve_start_path` (`admin/viewer/manage_tablets.py:855-872`)
  makes the walk start above that directory, pass it by (line 939), find nothing and
  exit with 0; without the failure the prefix is walked. The promise of
  `ZeroMeansDone` therefore leaves out what lies below such a directory (`Wanted`).

* Met while `FetchedIsCurrent` was restated, and not a run of its own: a branch may be
  given as "short name or full ref" (`tools/version-analyzer/README.md:40`). For
  `refs/heads/x` the fetch updates `refs/remotes/<remote>/x`, "so analysis uses the
  current server tip" (`find_missing_commits.py:197-199`), but `resolve_ref` (lines
  221-227) returns `refs/heads/x` itself, the branch of the clone, which may be
  older, and no note is made of it. `FetchedIsCurrent` therefore promises the
  server's tip only for the other forms.

## 6. Plan

1. Done: the lock and its abstract specification, the repair command, the
   export fixer, VDisk compaction, the session token, DNS registration, tablet
   management with the database it looks at, and the comparison of branches.
2. Done: proofs of all safety properties of the runs.
3. `TaskCounter`: the throttled writers of `insert-5k-java` and `readtable-java`,
   with the bound on tasks in flight that really holds, and the drain at the end.
4. The workers of `table_full_compact.py` on top of `TokenRefresh`.
5. Abstract specifications, as `Mutex` is of the lock, of what `repair` and the
   export fixer promise, and proofs that the modules implement them.
6. The walk of `find`, and the session of `coordination-java`.
