# TLA+ models of the neighbor pruner and the analysis store

This directory holds TLA+ models of the code under `src/`:

- `src/src/net/prune.rs` is the peer network's neighbor pruner, `PeerNetwork::prune_frontier` and its helpers.
- `src/src/vm/checker/check_db.rs` is the contract-analysis store, `AnalysisDatabase`.

The models are checked with TLC. Each run is listed in `PROJECT.json` ("runs"), together with:
- the mutants that show each checked property can fail;
- the map from every TLA+ definition to the source lines it translates;
- the findings;
- the hazards.

## 1. Inventory

### Components

| Component | Source | State | Operations |
|---|---|---|---|
| Health/uptime comparator | prune.rs 131-157 | none (pure) | `compare_neighbor_uptime_health` |
| Weighted samplers | prune.rs 61-80, 160-180 | none (pure; RNG) | `sample_drop_probability`, `sample_org_by_neighbor_count` |
| Org distribution builder | prune.rs 84-124 | reads `events`, `peers` and the peer DB | `org_neighbor_distribution` |
| Outbound diversity pruner | prune.rs 183-279 | local `org_neighbors`, `ret` | `prune_frontier_outbound_orgs` |
| Inbound host-quota pruner | prune.rs 281-335 | local `ip_neighbor` | `prune_frontier_inbound_ip` |
| Pruning orchestrator | prune.rs 358-413 | `events`, `peers`, `prune_inbound_counts`, `prune_outbound_counts` | `prune_frontier` (`dump_peer_table` only logs) |
| Connection table, peer DB | not under src/ (spec sections 3 and 6) | live conversations, their stats, org of each peer | connect, disconnect, health updates, clock |
| Analysis store | check_db.rs | SQLite table `type_analysis_table` (contract name → serialized analysis) in a file or `:memory:`, one open savepoint | `initialize`, `memory`, `open`/`check_schema`, `begin_save_point`, `roll_back`, `commit`, `insert_contract`, `load_contract`, `get_public_function_type`, `get_map_type` |

### How they interact

`prune_frontier` is called from the single thread that owns the peer table. It runs these steps in order:
1. It runs the inbound pruner.
2. It deregisters the returned keys and counts them in `prune_inbound_counts`.
3. It runs the outbound pruner on what is left.
   - The outbound pruner groups connections by org (the builder) and sorts each group with the comparator.
   - It then hard-trims orgs over `soft_max_neighbors_per_org`.
   - Finally it samples orgs in proportion to their size until `soft_num_neighbors` is reached.
4. It deregisters and counts those keys in `prune_outbound_counts`.

The analysis store is independent of the pruner. Several processes may open the same analysis file, and SQLite's file locks then order their savepoints.

### What makes the code hard

- **HashMap iteration order:** over `events`, over `org_neighbors` and over `ip_neighbor`.
- **Random draws.**
- **A comparator that is not a strict weak order** (line 142).
- **A hard-trim** whose `ret` accumulates across orgs while each org's list is cut by `ret.len()` (lines 217-231).
- **Unsigned subtractions:** `now - first_contact_time`, `num_outbound - ret.len()`.
- **A DB error part-way through a pass.**
- **Panics:** `Vec::remove`, `gen_range(0, 0)` and `unreachable!()`.

### Properties per component

- **Comparator and sort:** the insertion sort stably sorts by its comparator. The outbound eviction picks the worst-ranked connection of an org first.
- **Samplers:** a key is selected with probability weight/total, and never with weight 0.
- **Outbound pruner:**
  - Evictions are distinct, live, outbound, non-preserved and known to the peer DB.
  - After the hard-trim, no org is over the cap unless the target was reached.
  - It never prunes below the target.
  - It never panics.
  - It reaches the target unless the candidates are exhausted.
- **Inbound pruner:**
  - It prunes only above `soft_num_clients`.
  - Each host keeps `min(n, cap)` connections, and those are its oldest.
- **Orchestrator:** the counters count exactly the connections each path evicted.
- **Analysis store:** the committed rows change only at a commit, and then by exactly the inserts not rolled back. This holds through drops, panics and crashes.

## 2. Modules

### `NeighborRanking.tla`

This module models the comparator and `slice::sort_by`.
- `CompareUptimeHealthLess` is the comparator as written, including `uptime_bucket_1 > uptime_bucket_1` at line 142.
- `RankLess` is the documented ranking (line 142 read as `uptime_bucket_1 > uptime_bucket_2`). Only `PrunesWorstFirst` uses it; no action does.
- `UptimeBucket` is `max(0, round(log2 u))` computed exactly on integers.
- `ElapsedBucket` is the bucket of the u64 subtraction `now - first_contact_time` (lines 132-134). When the clock has stepped back below a first contact, a release build wraps to 2^64 - d, which `as f64` rounds to 2^64: bucket 64. A debug build panics instead; the model is of the release build.
- `SortByAt`/`InsertHeadAt` is the standard library's insertion sort, which `sort_by` uses for slices of at most 20 elements.
  - It takes one "is less" relation per comparator call (`lts[c]` for the c-th call), because line 205's comparator reads `get_epoch_time_secs()` on every call.
  - It returns the sorted list together with the number of calls made so far.
- `SortBy(s, lt)` is the same sort with one relation for every call.

### `WeightedSampler.tla`

This module models the two samplers as recursive walks over a HashMap iteration order (a sequence), given the random draw.
- `sample_drop_probability` works with `f64`. Its threshold test is done exactly on fractions.

### `PruneFrontier.tla`

This module models the pruner and its environment.

**State.**
- `peers` maps each live key to `[outbound, first_contact_time, health]`. It stands for `events` plus `peers`: event ids are one-to-one with keys.
- `now` is the clock.
- The two telemetry maps are `prune_*_counts`.
- The locals of the running pass are `pc`, `preserve`, `pruned_by_ip`, `num_outbound`, `db_error`, `org_neighbors`, `orgs_todo` and `ret`.

**Actions.** Each action is one step of the code. Every HashMap iteration order and every random draw is an existential choice.

| Action | Code |
|---|---|
| `PruneInbound` | the call of `prune_frontier_inbound_ip` and the deregister/count loop, lines 359-377. It includes per-host orders of equal first-contact times (`GroupOrders`). |
| `OutboundBelowTarget` | the fast return at 186-189 |
| `OrgDistributionFails` / `OrgDistributionBuilt` | `org_neighbor_distribution`, and the sorts of lines 193-208 (`SortOrgNeighbors`) |
| `TrimOrgWithinCap` / `TrimOrgOverCap` / `TrimOrgPanics` | one iteration of the hard-trim loop, 212-235. The panic is `remove(0)` on an empty list. |
| `TrimDone` | the loop exit and the test at 237 |
| `SampleOrg` / `SampleDone` | one iteration of the sampling loop, and its exit, 245-272 |
| `DeregisterOutbound` | lines 379-396: deregisters and counts the outbound evictions and ends the pass (the frontier dump of 398-413 only logs) |
| `Connect`, `Disconnect`, `HealthChange`, `Tick` | the environment, modelled from the spec. They are enabled only between passes. |

`PassSpec` starts from any connection table (`InitAnyTable`) and takes only pass steps. It checks a single call. `Spec` interleaves the environment with up to `MaxPasses` passes.

### `PruneSpec.tla` (abstract)

This module states what a call of `prune_frontier` promises, with its loops hidden.
- **`EvictInbound`:** the per-host quota, keeping each host's oldest connections.
- **`EvictOutbound`:** removes non-preserved outbound connections with a peer DB record, and none while within `soft_num_neighbors`.
- **Counters:** each evicted key's counter grows by exactly one.
- **`Abort`:** the panic.
- **`Environment`:** any change of the table between passes that keeps the surviving connections' direction and first contact time.

`PruneFrontier` instantiates it as `Abstract`, mapping `phase` from `pc`: idle, panicked, or "outbound" for every step after the inbound pruner. It checks `ImplementsPruneSpec == Abstract!Spec`:
- the loop steps of the outbound pruner are stutters;
- `PruneInbound` is `EvictInbound`;
- `DeregisterOutbound` is `EvictOutbound`.

### `AnalysisDB.tla`

This module models `AnalysisDatabaseConnection` and `AnalysisDatabase`.

**State.**
- `db[t]` holds the committed rows of the file and of `:memory:`; `schema[t]` records whether the table exists.
- `conn` is closed, open on a database, or panicked.
- `sp` and `working` are the open savepoint and the rows seen through it.
- `pending` is a history variable: the inserts since the savepoint began or was last rolled back.
- `op` and `result` are the last call and what it returned.

**Actions.**
- One action per function: `Initialize`, `Open`, `BeginSavePoint`, `GetPublicFunctionType`, `GetMapType`, `InsertContract`, `RollBack`, `Commit`.
- `DropSavePoint` and `Close` are Rust drops. rusqlite rolls an uncommitted savepoint back, and a `:memory:` database dies with its connection.
- `SqlFailure`: any `.expect(SQL_FAIL_MESSAGE)` panics, and unwinding drops the savepoint.
- `Crash`: the process dies and restarts. SQLite's journal keeps the file at its last commit.

`begin_save_point` borrows the connection mutably, so the code allows one savepoint per connection and sequential calls.

### `AnalysisDBShared.tla`

This module models several connections open on one analysis file, such as several processes sharing it. It shows how SQLite's rollback-journal locking orders their calls.

**State.**
- `file` holds the committed rows.
- `lock[c]` is connection c's lock: none, SHARED, RESERVED or PENDING.
- `sp[c]` and `writes[c]` are c's savepoint and its uncommitted inserts.
- `ins[c]` is c's `insert_contract` call between its check (line 133) and its INSERT (line 136).
- `alive[c]` is false after c's process panicked.

**Actions.**
- `BeginSavePoint`: a deferred transaction, so no lock is taken.
- `ReadContract`: the `get_*` readers; a read takes SHARED.
- `InsertCheck` and `InsertExecute`: the two halves of `insert_contract`.
  - The INSERT needs RESERVED.
  - If another connection holds RESERVED, SQLite returns SQLITE_BUSY at once, because waiting could deadlock.
  - A name already present breaks the UNIQUE constraint.
  - Both outcomes panic through `.expect`.
- `Commit`: RELEASE. A transaction that wrote goes PENDING until no other connection holds SHARED, then writes the file.
- `RollBack`: ROLLBACK TO, which keeps the transaction's locks.
- `DropSavePoint`: the savepoint dropped without commit.
- `BusyTimeout`: a wait that outlasts the busy timeout, which panics.
- `Restart`: a panicked process starts again.

What each operation returns is modelled in `AnalysisDB`. This module keeps only the locks those operations take.

### MC modules

`MCNeighborRanking`, `MCWeightedSampler`, `MCPruneFrontier` and `MCAnalysisDB` fix the constants. Their checks work as follows:
- `MCNeighborRanking` enumerates every input of one sort of three connections: the clock, the stats, the HashMap order.
- `MCWeightedSampler` checks each sampler against the proportional distribution, counting draws over every iteration order.
- `MCPruneFrontier` has five keys: `k1`-`k3` on host `h1` and org `o1`, `k4`-`k5` on host `h2` and org `o2`.
  - A second org assignment, `MCPeerOrgPartial`, leaves `k5` without a peer DB record. `prune_env` uses it with keys `k1`, `k2`, `k5`, so the `None => continue` of lines 107-108 is taken whenever `k5` is an outbound candidate. `prune_pass` uses `MCPeerOrg`, where every key has a record.
  - `KeySymmetry` permutes keys within a host/org class. This is sound because every constant function is constant on each class.
- `MCAnalysisDBShared` has three connections, two contracts and two analyses, with connections and analyses symmetric.
- `MCNeighborRanking` also enumerates `tick`, the first comparator call that reads `now + 1`, and with `SpecClockBack` it allows first contacts after `now`.
- `MCAnalysisDB` has two contracts and two analyses, with a public function `f1` and a map `m1` split between them, and at most 2 faults. The contracts are symmetric.

## 3. Runs

| Run | Result | Shows |
|---|---|---|
| `analysis_db` | pass, 19 000 states | `CommitAtomicity` across inserts, roll_backs, drops, two SQL failures or crashes, on both databases |
| `ranking_clock_back` | violation | `OlderNeverRanksFirst`: with `now = 0` and a first contact at 1 (clock set back a second), the newer connection lands in bucket 64 and the older one, of equal health, sorts first |
| `ranking_tick` | violation | `SortedHeadAsAtOneReading`: with the comparator as written, a second boundary between comparator calls puts at index 0 a connection the same call puts there at neither clock reading (now 3, the tick before call 2: `k2` first, where one reading gives `k3` or `k1`) |
| `analysis_db_shared` | pass, 1 300 states (symmetry) | `InsertCheckHolds` for three connections on one file, in every interleaving, with busy answers and restarts |
| `sampler_org` | pass | `sample_org_by_neighbor_count` is proportional, for 3 orgs with weights 0..3, in every iteration order |
| `prune_env` | pass, ~650 000 states, 1 min | `EvictionsSound`, the refinement of `PruneSpec` and `PassTerminates`, with the environment running between up to 3 passes, over `k1`, `k2` (host `h1`, org `o1`) and `k5` (host `h2`, no peer DB record) |
| `prune_pass` | pass, ~950 000 states (symmetry), 2 min | `EvictionsSound`, `OrgCapAfterTrim`, `PassMakesProgress` and the refinement, from every table of 5 keys and every preserve set |
| `prune_panic` | violation | `TrimNeverPanics`: org `o1` with 3 and org `o2` with 2 outbound, cap 1, target 1: `remove(0)` on an empty list |
| `prune_overshoot` | violation | `NoOvershoot`: 4 outbound, target 3, two orgs of 2: two are pruned |
| `prune_target` | violation | `TargetMetUnlessExhausted`: the candidates the trim drops are never pruned |
| `prune_ranking` | violation | `PrunesWorstFirst`: the older connection is pruned, because of the comparator's self-comparison |

The safety properties:
- `EvictionsSound`: `ret` has no duplicates, and holds only live, outbound, non-preserved keys with a peer DB record, in each phase after the distribution was built.
- `OrgCapAfterTrim`: once the trim is done and the DB did not fail, either the target is reached or every org keeps at most the cap.
- `ImplementsPruneSpec`: the refinement above. It covers the per-host quota and the rule that each evicted key is counted once.
- `PassTerminates` (liveness): every started call returns or panics.
- `PassMakesProgress`: suppose a pass finds more outbound connections than `soft_num_neighbors`, at least one of them classified (outbound, not preserved, known to the peer DB), and no DB error. Then it prunes at least one.
  - This is what spec 7's "relying on the next maintenance cycle to retry" needs.
  - Without the environment the table only shrinks, so repeated passes converge to the target or to a table with nothing classified.
  - Convergence itself is not stated as a liveness property. The caller picks the preserve set and the peer DB may fail on every pass, so nothing in the code makes it hold. The per-pass premise is what can be checked.
- `CommitAtomicity` (an action property of `AnalysisDB`):
  - the file's committed rows change only in a commit on the file;
  - a commit lays exactly `pending` over the committed rows.
- `InsertCheckHolds` (`AnalysisDBShared`): while an `insert_contract` call is between its check and its INSERT, the name is still absent from what its savepoint sees. This holds because the check's SHARED lock keeps every other writer's commit waiting.
- `TypeOK`: among other things, the two counters never exceed the number of passes.

`MCWeightedSamplerDrop.cfg` is kept outside the runs. `sample_drop_probability` is private and has no caller in `src/`, so it has no run of its own. With that cfg, TLC shows the sampler is not proportional: for weights {A:1, B:3} in that order, A is returned for 3 of 4 points.

## 4. Bounds

- **All soft limits are 1**, except 3 for the target in the overshoot run. With that, two orgs of 2-3 connections exercise:
  - the fast path;
  - the trim within and over the cap;
  - the panic;
  - sampling;
  - the empty-candidate exit.
- **Two hosts** cover both the "under the host cap" and "over the host cap" cases.
- **`MaxTime`:**
  - `MaxTime = 1` in the environment run gives equal and different first contact times, and lets the clock tick between passes.
  - `MaxTime = 4` in the ranking runs gives buckets 0, 1 and 2. One tick, at any of the 3 comparator calls of a 3-element sort, moves an uptime of 1 into bucket 1. A first contact one second after `now` already wraps.
- **Three connections** on the analysis file: two can race on one name while a third holds SHARED and keeps a commit PENDING.
- **Health levels `{0, 1}`** are enough to order two connections within a bucket.
- **`MaxPasses = 3`, three keys** in the environment run: a key can be pruned, reconnect and be pruned again, so the counters reach 2 and the refinement checks each pass's increment against the counts earlier passes left. Four keys with two passes run past the 5-minute budget. `prune_pass` keeps five keys and one pass.
- **`MaxFaults = 2`** lets a crash follow a SQL failure, or two crashes happen, inside one savepoint's lifetime and across restarts.

## 5. Fairness

- **What is assumed.** `FairSpec` adds `WF_vars(PassBody)`, weak fairness of the steps of a pass after it has begun.
- **Why the code justifies it.** `prune_frontier` is one synchronous call on the thread that owns the table. Once called, that thread keeps executing it; the environment's actions are disabled meanwhile.
- **What is not assumed.** Nothing is assumed about when passes begin, or about the environment.
- **Deadlock.** The pass-only runs set `CHECK_DEADLOCK FALSE` because a call ends, either by returning or by panicking.

## 6. Not modelled

- **SQLite's WAL mode, and locks beyond those listed in `AnalysisDBShared`.** The code opens the file with rusqlite's defaults: rollback journal, and no `BEGIN IMMEDIATE`.
- **The `serialize`/`deserialize` round trip of `ContractAnalysis`.** It is not under `src/`; an analysis is a model value.
- **The connection layer and peer DB.** They are not under `src/`. They appear only as the environment actions and the `PeerOrg` constant. That is why that component stays "partly" modelled: its own code (`register_neighbor`, `deregister_neighbor`, `PeerDB::get_peer`) is outside this repository's `src/`, so only what the spec says of it is modelled.
- **Logging and `dump_peer_table`.** They only log.
- **Floating-point rounding** in `sample_drop_probability`.
- **The clock inside `PruneFrontier`.** It is fixed during a pass. The clock stepping back and the clock ticking during a sort are checked in `MCNeighborRanking`, on the comparator and the sort themselves.

## 7. Further work

- **Convergence over repeated passes.** This would need a fairness assumption about the caller's preserve sets and about peer DB errors. Nothing under `src/` justifies one.
- **A 6-key pass run.** At about 2 minutes for 5 keys, it would exceed the 5-minute budget of a run.
- **Composing the pruner with the analysis store.** The code never links them.
