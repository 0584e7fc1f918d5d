# Verification of Situation Report

TLA+ models, TLC runs and TLAPS proofs for the backend of Situation Report.
Paths are relative to `backend/crates/`; `graph/` stands for
`pipeline/src/situation_graph/`.

## 1. The system

Some thirty adapters poll or listen to outside services. Their events are stored and
put on one broadcast channel. The pipeline enriches news articles, correlates events by
rules, clusters events into *situations*, arranges the situations into parents and
children, completes them with the answers of language models and searches, and publishes
the result to the browser and to the database.

| Part | State | Operations | Talks to | Hard behaviour |
|---|---|---|---|---|
| Source registry (`sources/registry.rs`) | a task per polled source, two per stream; failures, health rows, switches | poll, connect, fail, give up, forward, report | bus, database | two tasks per stream, a lagging receiver, giving up, restarts |
| Polled adapters (`sources/*.rs`) | items seen, watermarks, rotations, delays | poll, answer, refused, failed | registry | what is remembered of a poll that fails half-way, full sets, late items |
| Stream adapters (`ais`, `bgp`, `bluesky`, `certstream`, `telegram`, `shodan`) | connection, buffers, last message seen | connect, read, backfill, poll, flush, disconnect | registry, database | messages during an outage, dead connections, seeds that fail |
| Correlation window and rules (`pipeline/window.rs`, `core.rs`, `rules/`) | queue of events, indices by position, incidents | push, prune, evaluate | bus | indices and queue apart, cooldowns, restarts |
| Event flow (`pipeline/pipeline.rs`, `embeddings/`) | enrichment, embedding and re-ingestion queues, `pending` | select loop, workers, sweep | graph | dropped and late answers, one entry per key |
| Situation graph (`graph/mod.rs`, `merge.rs`) | situations, `parent_id`, rejected pairs, buffered events, indices | ingest; per tick: prune, merge, consolidate, country sweep, split, sweep, flush | everything below | passes on snapshots they have made stale themselves, caps, cycles, orphans |
| Phases and severity (`graph/lifecycle.rs`) | phase, peak rate, severity | evaluate per tick | graph | a transition that skips the rest of the evaluation |
| AI results (`pipeline/pipeline.rs`, `intel/`) | requests and answers in flight, `title_pending` | request after a tick, apply between ticks | graph | answers applied to a graph that has changed since |
| Published view (`graph/dto.rs`) | none: recomputed | filter, collapse, flatten, cap, clean up, dedupe | browser, persistence | parents and children must agree after each filter |
| Persistence (`pipeline/pipeline.rs`, `graph/mod.rs`) | rows, up to 32 unordered writers | upsert per tick, restore at start | graph | crash between writes, old write last, rows never deleted |
| Searches (`intel/search.rs`, `graph/dto.rs`) | reservations, counters, cooldowns | reserve, ask, answer, deliver | graph | slot taken twice, three limits, restart |
| Narratives, budget (`intel/narrative.rs`, `gemini.rs`, `budget.rs`) | version per situation, spend per month | require, look, ask, record, write | database | several calls in flight for one version, check and charge apart, month change |
| Alert rules (`pipeline/alerts.rs`, `server/routes/alerts.rs`) | rules loaded, last firings, hourly counts, history | create, delete, reload, match, fire, write | database, browser | a reload that fails, limits that are forgotten, a rule deleted while it fires |
| Summaries, entity graph, scoring, replay, server, frontend | caches, counters | | | |

What makes each part correct:

- registry: health tells the truth about the tasks; no source falls asleep;
- adapters: an item upstream is broadcast, and once, but for the losses the code accepts;
- correlation: the indices describe the queue; a pattern gives one incident, not none;
- alert rules: none fires more often than it may, whatever happens to it in between;
- event flow: every article is shown, is enriched at most once, and leaves every queue;
- graph: `parent_id` is a forest over situations that exist, within the caps, and a
  rejected pair is not joined again;
- phases: a situation without events ends; severity is earned;
- AI results: no answer, however late, harms the forest in more than a known way;
- view: every published child has a published parent that lists it, two levels deep where the parents close no cycle;
- persistence: what is restored names no parent that is missing, and has cycles for known reasons only;
- searches and budget: limits hold, whatever is in flight, and every request ends.

`PROJECT.json` lists the hazards of each part at their lines, with the properties that
cover them.

## 2. What is modelled

Every component has a module of its own, which ends with what it promises unless a module
`...Properties` does; `MC...` and its `.cfg` are an instance for TLC, `..._proof` holds the proofs.
They compose:

```
 SituationTree <== SituationForest <-- SituationAI        <==  refined by (INSTANCE ... WITH)
 ViewContract  <== SituationView                          <--  extended by
 ViewContract  <-- SituationStore
 EnrichmentContract <== EventFlow
 ModelBudget   <-- Narratives
 SourceFeeds, SourceStreams, EventRows  <--  Sources
 Correlation   <-- Alerts
 SourceRegistry   SituationLifecycle   SituationMembers   WebSearch
```

`SituationStore` runs the promise of the view, not its passes: `view` shows that
`SituationView` keeps `ViewContract`, and the store is checked, and proved, against it.

### The hierarchy: `SituationForest`

State: `live` is the key set of `clusters`; `parent` is `parent_id`; `rejected` is
`merge_rejections`; `tick` is `tick_count` modulo 4, which decides the passes. `stage`,
`snap`, `rank` and `todo` are a running pass: where `tick_clustering` is, the parent
map the pass read at its start, the order by event count it found, and the identifiers
its loop goes over. `used` holds every identifier given out, as UUIDs do not come back.

| Action | Code |
|---|---|
| `Ingest` | `ingest`, as far as it opens a situation |
| `StartTick` | `prune_stale_with_cache`, `expire_merge_rejections`, the branch on the tick number |
| `MergePair`, `EndMerge` | the applying loop of `merge_overlapping`, one pair a step; `enforce_max_children_cap` |
| `TopicMerge`, `EndTopic` | `consolidate_by_topic` with the grandchildren that move up |
| `CountryMerge`, `EndCountry` | `country_sweep_consolidation`, one theater a step |
| `SplitDivergent`, `EndSplit` | `split_divergent` |
| `SweepOrphans` | passes 3, 3b, 3c of `sweep` in one step |
| `SplitByCoherence`, `EndSweep` | passes 4 and 5 of `sweep` |
| `FlushPending` | `flush_pending`, `evaluate_phases` |

The event loop runs a tick without yielding, so the steps of a pass interleave with
nothing; they are separate because each sees what the earlier ones of its pass did.
Similarity of titles, topics and places, ages, event counts and the iteration order of
hash maps are data: every outcome is allowed. The model therefore has every behaviour
the code can have for some data, and possibly some that no data produces.

`SituationTree` is what the hierarchy promises and nothing of how: a forest that
changes by situations appearing, leaving with their children released, being adopted
or set free.

### What situations are made of: `SituationMembers`

The same graph seen from the events: `graph` gives each situation its terms (entities, topics
without a colon), `links` (`event_ids`), `count` (`event_count`) and `parent`; `index` is
`entity_index` and `topic_index`; `buffer` the noise buffer; `pass`, `todo`, `kept`, `joining`,
`into` are a running `flush_pending`; `asked` are the retroactive searches under way;
`shells` remembers which situations were split. `Ingest` is an event with its four outcomes,
`Flush`, `Retry`, `GroupOpens`, `GroupJoins`, `Flushed` the steps of a flush, `Adopt` any merge,
`Release`, `Split`, `Prune`, `Sweep` the passes, `Ask` and `Answer` `retro_sweep_candidates` and
`retroactive_add`, `Restart` `restore_clusters`. Which passes may merge, split or release whom is
`SituationForest`'s matter: here any two situations at the top level may join.

### The AI results: `SituationAI`

Extends `SituationForest` with the requests `tick_situations` sends: `titling`
(`title_pending`), `audits` (a pair of `TickOutput::merges` each), `batches` (grouping),
`applying` (the answer whose groups `apply_llm_consolidation_groups` goes through), and
`merged`, the pairs joined by this tick's `merge_overlapping`. A request in flight stands
for the spawned task and for its answer in the channel; `select!` takes answers in any
order. `Dispatch` ends a tick; `TitleRefused`, `TitleReceived`, `TitleDuplicate` are
`update_cluster_title` when it drops a title, keeps it, and finds another situation with it; `AuditConfirms`,
`AuditRejects` (`unmerge`), `GroupsReceived`, `ApplyGroup`, `GroupsDone` follow the arms of
the loop. What a model answers is open, within what the parsers let through:
`consolidate_situations` does not remove a repeated identifier.

### Phases and severity: `SituationLifecycle`

The passes take situations one by one and read little of the others, so the model follows
one: `data` is its record (phase, severity, ages, rate and peak, events, sources), `live`
whether it is in the graph, `open` whether a child of it goes on, `agreed` the severity its
children passed on (a child may be critical: one that was before it got a parent stays so where
the loop leaves it early). `Create` and `Absorb` are ingestion, `Settle` the children's end,
`Elapse` time, `Tick` one tick: the pruning at its start, the regrouping, the transition
table with its dwell times, the severity with its caps. The two `continue` statements of
`evaluate_phases`, which leave the severity as it is, are kept.

### The published view: `SituationView`, `ViewContract`

`active_clusters` as a machine, one action per pass and one step per iteration where an
iteration sees the earlier ones: `Filter`, `CollapseSingleChild`, `Flatten`,
`CapCategoryCounts`, `CleanupOrphans`, `Compare` and `MergeDuplicates` (the near-duplicate
pass), `FinalFilter`. `stage` is the pass, `out` what is still published, `up` and `listed`
the parent and the child list of each published copy, `parent` and `strong`, `garbage`,
`size`, `similar` the graph's data, which is chosen once and stays: any parents, for AI results
leave situations under themselves and in longer cycles. `Climb` is one turn of the loop of
`find_root`, for all rows at once: `root` is how far each has come, `hops` how many turns are used
up; round a cycle it goes until none is left. `ViewContract` is the
pair of input and output: what is published is a part of the graph, and in two levels,
except for the situations that are `Tangled`, on a cycle of two or more or below one.

### Persistence: `SituationStore`

`Tick` replaces the graph by any other, of which is only known that parents exist (AI results
may have closed cycles), publishes
a view of it and spawns a write per situation (`writes`); `WriteRow` and `WriteFails` finish
one in any order, up to 32 at once in the code; `Restart` drops what was in flight and
restores `live` and the parents, `restored`, from `rows`, with the filter on age and the removal
of parents without a row. Of the hierarchy between two ticks only the view is kept. `muddled`
remembers whose writes failed or overlapped, `caught` which situations were their own parent or
in or below a cycle at a tick that published them.

### Event flow: `EventFlow`, `EnrichmentContract`

An article arrives in copies. A copy travels `feed` → `embedQ` → `batch` → `vectorQ` →
`cache` on one side and, through a task of its own (`Begin`, `Store`, `Return`, `Finish`,
`EnrichmentFails`: lookup and permit, model and write, the way back, the showing), into `reingestQ`
on the other. The task sends the copy back and shows it in two steps: the loop may have put it into
the graph before it is shown. `pending`
is the buffer for an enriched copy whose vector is still to come; `Age` lets its ten seconds
pass, `Sweep` takes out what has aged. The GPU is switched from outside at any moment, so whoever
asks finds it either way. `Loop` gathers the arms of
`select!`, `Worker` the embedding worker. `try_send` on a full channel
drops, `send` waits: every queue has its capacity. `EnrichmentContract` is what a copy
may see of all that: it goes into the graph as it came, is shown at most once, enriched if it was
(`enriched`), and only then goes into the graph once more, before or after it is shown.

### Searches: `WebSearch`

`Spawn` is a tick that finds a situation due and reserves a slot, `TurnedAway` one that gets
none; the task then asks the limiter once more (`Ask` or `Refused`), waits for `Answer` and
`Return`s, and its result is `Deliver`ed to the loop. `Appear` and `Vanish`
are situations coming and going, `Elapse` is the clock by which the limiter's windows (30 s,
an hour, a day) pass, `Restart` forgets them. A task is for a `Purpose`: a gap in what is known of
the situation, or its escalation; only some of them can come to an empty query (`Proper`).

### Sources: `SourceRegistry`

Per source: where its task is in its loop (`due`, `busy`, `sleeping`, `parked` once it
has returned), `consecutive_failures`, the status in `source_health`; per polled source
its switch; per stream what its forwarder has not received of the bus (`inbox`), its
`first_event_received` (`greeted`), and whether it is about to write the status (`hand`). `heard`
remembers whose events a forwarder took for its own, `promoted` the streams reported healthy since
the start, `starts` counts the restarts. An
action per arm of the two loops of `start_all`, two for the forwarder, which takes an event and
sets its flag (`Take`) and then waits for the write of "healthy" (`Announce`), while the stream's own
task may write another status; one for the
switches, one for a restart, which only the database survives. One event stands for a
batch; the outcomes of writes that fail are left out (the code logs them and goes on).
Durations are left out, and so are pushes to telephones.
`RegistryAssumption` says that no events of a source carry the name of another's stream, as is the
case for the registered sources: the streams are called `ais`, `bgp`, `bluesky`, `certstream`,
`telegram` and `shodan-stream`, and only their own events are. Where two did, the forwarder would
report one healthy for the other's events; nothing in the registry prevents that.

### Polled adapters: `SourceFeeds`

Twenty-five adapters share one machine: `BeginPoll` decides what this poll asks (regions,
feeds, pages in turn), `Answer`, `Refuse` (HTTP 429) and `Fail` are the outcomes of one request,
`EndPoll` hands over what was found and empties a set that has grown too large. `Answered` is what an
answer lists, `Reading` what the adapter remembers and has found after each of its items in turn, so
that a memory that overflows in the middle of an answer is emptied there. What differs is a record per
adapter (`Adapters`), each mapped to the lines of its `poll`: which parts it asks and in what order,
what it remembers, when it forgets, what a refusal or failure does to the rest of the
poll, and what becomes of an item without coordinates. Upstream `Publish`es, `Mend`s and
`Withdraw`s items. What an item says is left out.

### Streams: `SourceStreams`

One of six streams at a time, a record each: how it learns of a broken connection, whether
it listens from the start or from now, what it reads back after an outage. Upstream
`Publish`es; `Connect`, `Unresolved`, `Disconnect`, `Noticed`, `Bar`, `Die`, `Regain` are the
connection; `Read`, `Expire`, `Tick` the message loop with its buffers; `Backfill`, `Seed`, `Poll`,
`FailedPoll` what Telegram does on top.

### The table of events: `EventRows`, `Sources`

`EventRows` is the table the adapters write to and the identity each adapter gives to its
events: `naming`, a name and a time per builder of events. `New` is `insert_event` with its
`ON CONFLICT DO NOTHING`: of a batch the events whose row is not there yet, the first of each row;
`Persist` is the loop over the batch, of which single writes may fail, `After` the table it leaves;
`rows` counts the rows of an item, `written`, `unwritten`, `hidden` are history. `Sources` puts
the adapters over the table: a behaviour follows one adapter, polled or streaming, and what it
broadcasts at the end of a poll is written in the same step. What a stream broadcasts waits in the channel
(`waiting`) for its forwarder: `Forward` takes a message out and writes it, if the events of the stream
spell its name (`signs`; those of the Shodan stream do not), `Lag` is one that the channel drops
before that. A restart empties the adapter's memory and the channel and keeps the table; `missed` remembers the
messages that a lag or a restart took.

### Correlation: `Correlation`

`window` is the queue of events with their ages; `byKind` the index by position, rebuilt
when pruning removes something; `incidents` are those raised in six hours, the active ones
among them those in memory; `heard` is history. `Receive` pushes an event, asks the rules it
triggers in their order and keeps the incidents that no active one covers. `Persist` is the
write of an incident, `Prune` the timer, `Elapse` the clock; `Restart` reloads the window and
the incidents of the last hour, without their places. Nine of the ten rules of `rules/` are a
record each: what they need of which kinds of event, what relates the events, how far back
they look. Places are related by two given relations. The tenth, `MilitarySurge`, keeps a state
of its own: `sightings` of aircraft per cell of a grid, a `baseline` of snapshots, the last alert.

### Alert rules: `Alerts`

Extends `Correlation` with what the loop does with an event after the correlation rules.
`ruleRows` is the table of rules, which `CreateRule` and `DeleteRule`, the API, change;
`alertRules` those the loop has since its last `RefreshRules`, which may find none; `lastFired`
and `hourly` are the tracker. `Evaluate` goes with `Receive`: it asks the loaded rules, and a rule that
`CanFire` gives an entry of `alerts`, which `PersistAlert` writes to the history (`recorded`) or
not. `Elapse` and `Restart` are one step with those of `Correlation`.

### Budget and narratives: `ModelBudget`, `Narratives`

`ModelBudget` is `budget.rs`: `month`, `since` (spent since the last write), `spend`, the `row` of the database
and `writes` in flight; `real` and `unseen` are history, what was charged in truth. `Narratives` extends it
with the tasks that use it: narratives (`Tick`), images to be read and the analysis (`Require`),
summaries (`Summarise`, which follows a narrative); enrichment and titles ask the local model only.
A task goes through `LookAtBudget`, in a new month through the two steps of `ResetBudget` (`Clear` sets
the counter to zero, `Open` names the month and writes the zero, over a charge made in between), and
`Answer` or `Fail`; a narrative then through
`Deliver` into the loop and `Save` by a task of its own; `told` is the version in memory, `stored`
in the database. `Turn` is a new month, `Restart` reloads the row.

## 3. Runs

All runs pass; each property has a mutant of the code in `PROJECT.json` that breaks it under
the same instance.

| Run | Instance | Shows |
|---|---|---|
| `forest` | 4 situations, `MaxChildren` 2, `CountryThreshold` 2 | `Acyclic`; `TreeSpec`, the refinement of `SituationTree`; `MergesRespectCap`, `RejectionsHold` |
| `ai` | 3 situations, `MaxChildren` 1, one title and one audit or batch in flight | `StaleResultsHarmless`; `ForestBrokenOnlyBy` bounds what an answer may do to the forest; `LimitsHonoured` |
| `view` | 4 situations with any parents, cycles too; caps 1/0/1/0, ten hops | `ViewConsistent`: `TwoLevels` (`ViewContract`) and `ParentsAndListsAgree`; `OrphanedOnlyBy` |
| `members` | 4 events, one the enriched copy of another, two quiet ones that belong together; 3 situations; every cap 1 to 3; two merges, splits, sweeps, searches or restarts | `IndexFollowsTerms`, `CountsCoverLinks`, `BufferLeftOnlyBy` |
| `store` | 2 situations with any parents, three ticks, two restarts | `RestoredClosed`, `RowsFollowView`; `CyclesMixTicks`: the rows of one tick, of a graph that was a forest, restore a forest |
| `lifecycle` | topics armed and plain, severities 0 and 3, children up to critical, ages up to 5 | `ForgottenInTheEnd`, `DeclineEnds`, `ChildrenLoseCritical`, `SeverityEarned` |
| `flow` | two articles, three copies, one enriched before; all channels of one slot, two permits | `EnrichedAtMostOnce` (the refinement of `EnrichmentContract`), `EveryArticleShown`, `NothingWaitsForever` |
| `search` | 2 situations; cooldown 2, two requests in 7, three in 11 | `CapsHold`, `RequestsSpaced`, `SearchesEnd` |
| `registry` | a polled source and a stream, thresholds 3, `BusSize` 2, two restarts | `StatusHonest`: `ParkedPollerIsDown` and `HealthyByOwnEvents`; `HealthyOnce`, `KeepsGoing` |
| `sources` | each of 25 polled adapters, 2 or 3 items, sets of one item; the six streams, 3 messages, pages of 2, two troubles; one write of item 1 may fail; a restart | `PassedOverOnlyBy` and `BroadcastAgainOnlyBy`: all reasons why an item is missed or sent twice; `RowMissingOnlyBy`, `RowTwiceOnlyBy`: the same for rows; `InTheEnd`: `BroadcastInTheEnd` and `WrittenInTheEnd` |
| `correlation` | eleven mixes of two to four events, two places, a restart; two alert rules, one with a cooldown longer than two hours | `WindowConsistent`, `PatternsReported`, `OnePerCooldown`, `AlertsLimited` |
| `narratives` | 2 situations, two tasks, three requests, one failure, a new month, one restart | `WithinBudget`, `KeptWithinAStep`, `VersionFallsOnlyBy` |

Bounds, and why they are enough.

- Hierarchy. Four situations give a grandparent, parent, child and a rival, or a full parent
  with a child too many; three are enough for an answer to meet a situation that has
  become a child, a parent, or is gone, and for a cycle of rows longer than one. The code's
  caps (50 children, 2 to 4 situations per theater, `nd_` and `routine_` caps of the view)
  only decide when a guard starts to hold, and are set so that it does. An identifier is
  never reused, so a behaviour opens at most as many situations as there are identifiers,
  then goes on without new ones. `MaxTitles` and `MaxAsked` bound the answers in flight.
- Members. A link too many, a shed, a full buffer and a full leaf all occur with caps of 1 to 3
  instead of 500, 200 and 150; three situations are a parent, a child and a rival, or a shell and
  its two parts; two rewrites show each of them on what another has left behind.
- View and store. Four situations are a cycle and two that hang below it or apart, or a line of four. For
  the store two are enough for a loop, a cycle of two and a row of another tick than its parent's; the third tick and
  the second restart let what was restored be published and restored again.
- Lifecycle. The durations keep their order and the sums that are compared; beyond
  `Horizon` no guard tells two ages apart.
- Queues. One slot each, so that every `try_send` and every `send` meets a full channel; a
  second copy of an article meets the first at each place of its way; 4096, 1024, 256 and 64
  slots only make that rarer.
- Sources. Thresholds are 8 and 10 in the code; 3 leaves room for a failure that is neither
  the first nor the last. A bus of 2 of 4096 events lets a forwarder lag. A set of one item
  overflows at the second; three items are needed where two generations are kept, and where
  an adapter remembers a part. A trouble of a polled adapter is a failure or a refusal at any
  place of a poll. Items 1 and 2 are of one day, 3 of another; item 2 states no time. Three messages and pages of two let a poll of Telegram miss the oldest; two failed
  polls replace the code's limit. The forwarder may lag at message 1.
- Correlation. The counts a rule needs (20 banners, 50 anomalies, 5 outages, 10 censorships,
  3 detections) are one or two. What matters is the order and age of the events of one
  pattern, and every mix has the events of one or two rules that share kinds.
- Searches. The hour and the day are longer than the cooldown times the cap, and the day is
  no multiple of the hour, so that windows reset at different phases.
- Budget. A call costs more than what is left, crosses a step or not; one month turns.

The runs of the hierarchy modules and `narratives` use symmetry, and have no liveness
property. `ai` also leaves rejections and merges that no guard can meet again out of the
fingerprint (`MCAI.tla`).

`CHECK_DEADLOCK FALSE` in every run: a graph that is out of identifiers, a registry whose
sources have given up for good, a view that is finished, a bounded upstream with nothing more
to publish may have nothing left to do.

Fairness, each kind where the code gives it.

- `registry`: a sleeping task wakes (a timer), a due task starts, a forwarder with an
  event takes it and ends the write it waits for (tokio runs what is ready), and a poll returns, because `start_all` builds
  the HTTP client with a timeout of 30 seconds (`sources/registry.rs:104`). None for
  streams, which may stay silent, for switches, or for restarts.
- `lifecycle`: time passes and the analysis interval ticks (`TicksRecur`).
- `flow`: enrichment tasks end (a first-come semaphore, requests that time out), time passes,
  `select!` picks among ready arms at random. Nothing of the embedding worker, which may be
  stuck for ever.
- `search`: a task ends by the timeout of its request, the loop takes results.
- `sources`: polls begin and end, connections succeed in the end, what is on the wire
  is read, the timer ticks. Upstream fails `MaxTroubles` times; refusing for ever refutes nothing.
  None of the forwarder: what a stream broadcasts is not promised a row.
- No other specification assumes fairness.

Fairness is mostly stated on states (`[]<>` of a predicate) rather than as `WF` of an
action with many instances; in each case the action that leaves the state is enabled in it.

## 4. Where code and comments disagree

Met while modelling. The models follow the code; the properties above say what holds all the same.

Hierarchy and view

- `consolidate_by_topic` "Respects max_children" (`graph/merge.rs:568`), but lets a child that
  has children in as one too many, which nothing cuts back until a later pass does.
  `MergesRespectCap` allows just that one.
- Grandchildren are to be reparented and only those "that can't be absorbed stay"
  (`graph/merge.rs:850`, `:862`); those the child gained earlier in the pass stay as well,
  because the index is not refreshed.
- `merge_rejections` "prevents re-merging the same clusters" (`graph/mod.rs:60`); a
  grandchild that moves up joins its rejected parent again. `RejectionsHold` is about
  situations at the top level. Rejections expire by the wall clock, in a replay too.
- "The smaller cluster is merged into the larger one" (`graph/mod.rs:1626`, `:1684`): when a
  titled child duplicates its own parent and is the larger, the parent and its children are
  put under the child, the child itself included. `ForestBrokenOnlyBy` shows that no other
  result closes a cycle, but for a grouping answer that repeats an identifier.
- `unmerge` undoes "a merge" (`graph/merge.rs:1038`), yet releases the child from whatever
  parent it has by the time the audit answers.
- The view cleans up orphans, then removes duplicates (`graph/dto.rs:568`); a winner that
  loses a later pair leaves its children without a published parent (`OrphanedOnlyBy`).
- `find_root` gives up after ten steps (`graph/dto.rs:450`), though "Flatten multi-level hierarchy"
  knows no limit: under a deeper line of situations the view has more than two levels. Every tick
  may put a hierarchy under another, so nothing bounds the depth. The proofs about the view
  assume `Shallow`; with `MaxHops` one, TLC finds the chain of four that breaks `TwoLevels`.
- On a cycle of parents, which AI results may close, `find_root` goes round until its ten steps are used
  up, and the situations of a cycle of two are each published as a child of itself or of the other
  (`TwoLevels` excepts them).
- A restart drops parents whose row is missing or too old (`pipeline/pipeline.rs:639`), but restores
  cycles (`CyclesMixTicks` says which).
- In `graph/lifecycle.rs` the hard cap's `continue` (`:507`, `:537`) keeps a child Critical
  for a tick, contrary to `:315`, `:572`, `:680`; the decay of the peak compounds; a
  situation only news report on goes back and forth between phases.
- `pipeline/core.rs` prunes by a fixed six hours; several dwell and guard settings are read
  by nothing.

What situations are made of

- "Event count (kept in sync with event_ids.len())" (`graph/mod.rs:91`) is false after the first
  merge, trim or restart; `CountsCoverLinks` is what is left of it. Nor does
  `total_events_ingested` mean what `graph/lifecycle.rs:824` says.
- `split_divergent` takes the shell's topics out of the index and does not enter them again
  (`graph/merge.rs:1333`, `:1420`): until the next restart the shell is found by no topic.
  `create_cluster` enters topics with a colon, which nothing removes. `IndexFollowsTerms` names both.
- `graph/lifecycle.rs:324` and `:546` take `event_ids` as sorted by time; late events, retroactive
  ones and those of a merged child are appended.
- `split_by_coherence` looks embeddings up by `source_id` (`graph/lifecycle.rs:944`,
  `graph/merge.rs:1441`); the cache's keys have the source type before it
  (`embeddings/src/cache.rs:121`), so no situation is ever split for incoherence.
  `SituationForest` lets it happen.
- "restored across restarts without data loss" (`pipeline/pipeline.rs:640`): a row holds the first
  20 entities, 15 topics and the newest 100 events; `last_retro_sweep` is read and never written.
- Events that "aren't already linked" (`query_retro_events`) are those not among the links
  that are left: what was trimmed, shed or not restored is linked and counted again, and two rows
  of one `source_id` in one answer are both linked.
- In the live pipeline every event is important or of high volume, and routine ones of high
  volume are filtered before the graph (`pipeline/pipeline.rs:262`): the noise buffer only ever
  holds withdrawals of routes below High.

Sources

- "Persist matching events to DB" (`sources/registry.rs:206`): the Shodan stream is called
  `shodan-stream` (`sources/shodan.rs:459`), its events `shodan` (`:612`), so its forwarder
  never stores them (`RowMissingOnlyBy`). "Promote from connecting to healthy" (`registry.rs:222`) also
  promotes a stream that failed: the flag is set and the status written in two steps, between which
  the stream's own task may write "error" and return. It promotes once in the life of the process, so a
  stream that reconnects stays "connecting" while its data flows (`HealthyOnce`).
- Only `ais.rs` raises `AuthError`, so a refused key never disables a polled source,
  contrary to `rate_limit.rs`.
- GDACS, Copernicus and IMB remember an item before they find that it has no coordinates; IMB
  takes a map as read after its first incidents ("Mark map as completed after full ingest"),
  and a first map larger than the set starves the others; UKMTO and GDELT lose what is dated
  before what they have seen; an HTTP 429 makes `nuclear.rs` discard what it has remembered;
  `adsb.rs` discards military aircraft when a later answer cannot be decoded; `gfw.rs` never
  asks for half of its pairs. `PassedOverOnlyBy` and `BroadcastInTheEnd` list these and no others.
- `acled.rs:389`, which `server/main.rs:127` does not register at present, gives every report the identifier `acled` and its day as its time: the table
  keeps the first report of a day and drops the rest (`RowMissingOnlyBy`). Adapters that name
  all their events alike and stamp them with the moment lose those of one microsecond.
- A write that fails is logged (`registry.rs:311`); an adapter that remembers the item
  does not write it again, one that does not makes it good (`WrittenInTheEnd`).
- `latest_positions` takes what is written last, whatever its time (`db/queries.rs:110`).
- `firms.rs` "clear oldest half" clears everything; `geoconfirmed.rs:58` says the
  table removes duplicates, which it does for the rows (`RowTwiceOnlyBy`); they are broadcast all the same.
- `telegram.rs:534` seeds the newest message "so we don't duplicate": messages of an outage
  are skipped, and after a failed seed the last fifty sent again. "Set TELEGRAM_CODE ... and
  restart" returns without an error, so the registry asks for a new code every ten seconds.
- `bluesky.rs:1084` "use this as an activity check" does nothing; accounts beyond the
  service's limit are dropped in silence.
- `shodan.rs` lists alerts "to avoid duplicates": a failed list counts as empty, and an edit
  replaces the addresses of an alert.

Pipeline

- "Ensures cooldowns survive pipeline restarts" (`pipeline/pipeline.rs:758`, `:920`): only the
  last hour of incidents is loaded, without places, against a cooldown of six
  (`OnePerCooldown` allows a second incident for that reason only). The window is refilled with
  the age zero and, above 10,000 events, with the oldest.
- `rules/infra_attack.rs:13` says 10 minutes and `coordinated_shutdown.rs:13` 15, both use
  300 seconds; `military_strike.rs:86` joins by "or" what its comment joins by "and";
  `osint_strike` looks back 12 hours in a window of 6.
- The alert tracker "Enforce cooldown (in minutes)" (`pipeline/alerts.rs:70`), but cleanup forgets a
  firing after two hours, and a restart all: a rule with a longer cooldown fires again
  (`AlertsLimited`). The hourly limit counts from the first alert on, so twice the number less one
  fit into some hour, and the first is never counted against a limit of zero. A failed refresh
  leaves no rules for two minutes, as does a start. A rule with a history cannot be
  deleted; `last_fired_at` is written by nothing; rules of other types than keyword are
  stored and never asked.
- A search reserves a slot (`pipeline.rs:2246`, `:2298`), then takes another
  (`intel/search.rs:649`, contrary to `:646`), and is refused if the first was taken less than 30
  seconds before. Its counters, the daily cap included, are forgotten at a restart;
  `search.rs:65` says one a minute and ten an hour, the code half a minute and sixty.
- The budget's "DB persistence ensures counters survive container restarts"
  (`intel/budget.rs:82`): the total is written about every ten cents, by tasks in any order, and
  a reset for a new month may wipe what was spent in it. An image without text is charged and
  not recorded (`intel/gemini.rs:489`). `WithinBudget` and `KeptWithinAStep` say what is left.
- "Claude removed from the chain entirely" (`intel/narrative.rs:160`, `analyze.rs:111`);
  `pipeline.rs:1873` runs the analysis again with it. A late narrative turns the version back, and
  rows of a version that exists are never replaced (`VersionFallsOnlyBy`).
- An article found enriched is not shown (`event_has_enrichment`); nothing marks an article as
  being enriched, so two copies may be enriched at once (`EveryArticleShown`, `EnrichedAtMostOnce`).

## 5. Proofs

Eight modules prove theorems, for every value of the constants that satisfies the
named assumption of the module (finite sets, numbers that are naturals, a null value that is
none of the identifiers). `PROJECT.json` lists the theorems with the property each states.

`SituationForest_proof`. The inductive
invariant is `TypeOK`, `Acyclic`, `NoDanglingParent` and `SnapshotsFit`. `Acyclic` is not
inductive: `MergePair` attaches to a parent that may itself have become a child in this
pass, so that a chain of merges could close. What rules it out is `SnapshotsFit`: each
situation the pass found at the top level hangs, if at all, under a larger one it also
found there, in the order by event count it began with, so a cycle would have to climb
in that order for ever. For `consolidate_by_topic` it says that a situation still at the
top level still has the children the pass's index gives it, for the last two merge
passes that what they have yet to visit is at the top level. Acyclicity is stated by a set with no
bottom, not by a transitive closure: every non-empty set of situations has one whose
parent is not in it. This keeps the lemmas about attaching and detaching first-order.
From the invariant follow `Invariance`, `TypeCorrect`, `AlwaysAcyclic`, `NeverDangling`,
`SnapshotsAlwaysFit`, and, step by step, `ImplementsTree` (initial states and every step
map to `SituationTree`), `RejectionsAlwaysHold` and `MergesAlwaysRespectCap`.

The second half is about `SituationAI`, where `Acyclic` does not hold. Every lemma about a step
of a pass is therefore stated twice over: the rest of the invariant, `Base`, is kept without it, and
`Acyclic` is kept if it was there. `AIInv` adds that groups are applied between ticks, when
no pass has a snapshot that they could make stale. `TitleFacts`, `RejectFacts` and `GroupFacts`
say what one result does to any hierarchy; from them come `StaleResultsNeverHarm`,
`ForestAlwaysBrokenOnlyBy` (nothing but the two named results turns a forest into something else)
and `LimitsAlwaysHonoured` (the caps and rejections of the passes do not rest on acyclicity).

`SituationMembers_proof`, for any events, terms and caps. `IndexFollowsTerms` and
`CountsCoverLinks` are inductive next to the types of graph and flush (`MembersKept`): what is indexed
is a situation already drawn, and a group being merged has a live situation to go into.
`BufferLeft`, the action property about the noise buffer, needs `Passes` in addition: while a pass has
the events, the buffer is empty, and they fit in it together, so `Flushed` puts back all that are
left. Order by time is defined by ranks, `Ranked`, and not by the library's sort, about which
nothing can be proved; lemmas show that every rank is taken and that a link just added is
among the newest.

`SituationView_proof`, for any parents, cycles included. The invariant goes through the passes: until
`Flatten` a row has its parent of the graph (`Traced`), from then on there are two levels, save for
tangled situations (`Flat`); the two
directions agree after every pass (`Agreed`), not only in the end; losers and winners of the
comparison stand at the top level (`Duels`). `Climbing` is why flattening works: from a row that is not in
or below a cycle every turn of `find_root` comes one row nearer to the end of its line, and from the
others never leaves the cycle. It gets there in time because of `Shallow`, the one hypothesis of
the theorems: no situation has more than
`MaxHops + 1` others above it. It is a condition on the hierarchy the view is given and is needed
(section 4). `ViewAlwaysConsistent` and `AlwaysOrphanedOnlyBy` follow.

`SituationStore_proof`, for any parents and any number of ticks and restarts. `RestoredClosed` and
`RowsFollowView` need `StoredAreUsed` (a row is of a situation the graph had), `OneWriteEach` (a
situation whose writes are not muddled has at most one, of its last view) and `TicksFlat`:
all rows and outstanding writes of one tick, taken together, have two levels, wherever they
are, save for the situations caught in a cycle at that tick. From the last follows
`CyclesAlwaysMixTicks`: a cycle in what a restart loads passes
through two ticks or through a situation that was caught. The module takes of the graph only
that parents exist (`NeverDangling`, `StaleResultsNeverHarm`), and of the view only
`ViewContract`, which for hierarchies that are `Shallow` is `ViewAlwaysConsistent`.

`EventFlow_proof`. `OneWayBack`: an enriched copy on its way back is at one place, the channel
or the waiting list, was enriched, is shown so or is about to be, and has gone into the graph once. The
types say so of every queue and of each task (`Journeys`, `FeedSent`, `BackReady`, `WaitReady`); no queue
holds a copy twice. `FlowKeepsContract` maps every step to one of `EnrichmentContract` or to none;
`LimitsHold` bounds the channels, permits and cache for any sizes.

`Narratives_proof`. `BudgetHolds` needs `Charged` and `Capped`: the counter passes the cap by no more than
the calls that have looked at it and are not paid for yet. `SpendingKept` needs `Kept`: the last
write of the month, or the row if none is under way, is less than a step behind the counter,
unless it was lost or overtaken, or a charge was wiped by the zero of the new month. `VersionsGrow` needs `InTurn` (a request asked for later goes on from a
version that is not older) and `Saved` (of the rows of a situation one is the newest, which a
restart goes back to). It assumes finitely many situations.

`Limits_proof`, for any events, places, spans, thresholds, caps and cooldowns, and any number of restarts.
A log in the order of its ages loses, when it is pruned, exactly a front part (`OverdueFacts`),
so positions can be compared before and after. `WindowConsistent` is inductive
next to `LogTypes`, `HeardInOrder` and `KnownSinceStart`: what the window holds of this start stands
at the place the history gives it, with its true age; a place stays right because pruning the window
and ageing the history both cut in front. `OnePerCooldown` speaks of all pairs of incidents of six
hours and is inductive with the types of incidents, once one step is understood: `Receive` adds
incidents rule by rule, each after those it added before, none that an active one covers.
`AlertsLimited` needs `Tracked`: of the alerts since this start the tracker knows the last one, unless
that was two hours ago, and how many fell into the hour it counts; of the hour before, at most one
less than allowed are still less than an hour old, because its first alert is over an hour old
when the count begins anew. `PatternsAlwaysReported`
joins what is known of window and incidents (and of the sightings of `MilitarySurge`): a rule finds in
window and index what the history says is there, and if it
finds it, an active incident covers it afterwards (`Reported`); it raises none otherwise, save for
what it knows of the time before the start (`Warranted`). `AlertsAssumption` keeps
cooldowns within the six hours of history. For the searches, `CapsHold` counts requests, the
limiter counts reservations; `LimiterKnows` relates them: the limiter's windows have reset no
later than the history's, and it has counted at least as many. `RequestsAlwaysSpaced` follows from
its third part, that a slot was taken no earlier than the last request.

`Sources_proof`. Of the registry, for any sources, thresholds, capacity and number of restarts,
the invariant `IInvRegistry` is the types, `ParkedPollerIsDown`, `HealthyByOwnEvents` and `AnnouncesOnce`
(a forwarder that is about to write has set its flag, and has not written since the start); `OwnStep`
gathers what every step of a task does to its own source, so that each action is shown to be
one, and one lemma carries the invariant over it. `StatusesAlwaysHonest` joins the two;
`HealthyAtMostOnce` proves the action property `HealthyOnce`.

Of the adapters, the streams and the table, for every adapter of the code, any number of items and
messages, any bound of the sets and sizes of pages: `SourcesInvariance`, and with it that the reasons
listed are all there are (`NothingPassedOverElse`, `NothingRepeatedElse`, `NoRowMissingElse`,
`NoRowTwiceElse`).

- Polled adapters, `IInvFeeds`: `Faithful` says that what an adapter remembers has been found, or is
  accounted for by one of the accepted reasons, and that it has not forgotten otherwise than its
  kind of memory does; two generations of a set hold between them the last items read, in the
  order they were read (`InGenerations`), from which follows how long an item is safe. `DonePartsRead` is for the maps
  that are read once, `NothingToLose` for polls that may be given up half-way. `Suits` collects
  what the proof uses of the twenty-five records; `AdaptersSuit` checks each.
- An answer is read item by item by the recursive function `Reading`. That it exists is proved
  (`StepsExist`), then lemmas say what one item does and carry it over the answer (`Faithful` at
  each item, and that an item once found is still there).
- Streams, `IInvStreams`: what has been sent and lies before the connection has been
  broadcast or is among the losses (`ListensInOrder`, of streams that listen from now on); the
  cursor is the newest message broadcast, and a reconnection goes on after it (`ResumesAtCursor`,
  Bluesky); polls have reached what is below the newest message known (`PollsInOrder`,
  Telegram).
- Rows, `RowsKept`: a row that is missing has another event of the same identity in its
  place, or its write failed, or, of a stream, the message is still in the channel, was missed by the
  forwarder, or does not carry the stream's name. Of a batch the first event of each row is written; that there is a
  first is the existence of a least element, which is proved from the well-foundedness of the naturals.

An attempt at `NothingRepeatedElse` failed for a reason. The property said that an item broadcast again
had been forgotten before the answer came. `firms.rs` and `rss_news.rs` forget in the middle of an
answer what they knew when it began, and broadcast an item further down again. The property now
speaks of what is remembered just before the item (`RepeatedOnlyBy`), and the run has three
items for FIRMS, so that this happens.

The second half of `SituationView_proof` is about `SituationLifecycle`, for any durations, thresholds, topics and
numbers of children. `LifecycleTypes` is its type invariant; that children agree on a severity is part of it.
`SeverityAlwaysEarned` follows case by case from what one round of `evaluate_phases` makes of any situation
(`EvaluatedFacts`): one that goes on is rated for its phase, one declared old news was rated
Medium at most, one resolved for having declined too long keeps its severity.

Model-checked only:

- liveness (`EveryArticleShown`, `NothingWaitsForever`, `SearchesEnd`, `KeepsGoing`,
  `ForgottenInTheEnd`, `DeclineEnds`, `ChildrenLoseCritical`, `InTheEnd`): fairness and `ENABLED` are
  beyond the prover. Every other property of the runs is a theorem;

- what the library defines by recursion over sequences, sets and bags. The models state such things by
  ranks, least elements and positions, about which the prover can reason. Its induction theorems take an
  operator as a parameter and cannot be used; where induction was needed (`StepsExist`,
  `LeastElement`, `Induction`) it is over a set, from the well-foundedness of the naturals.

## 6. Not modelled

- Of what is modelled, these are left out: the references `ukmto.rs` has seen (`:404`), which matter
  only if the date of an incident changes; the start without any situations in the database, which
  fills the window with a week of events instead of six hours (`pipeline/pipeline.rs:1128`), of which those too
  old for the window go with its next pruning; the order of the messages of a stream in the channel, as the rows they
  make do not depend on it.
- Scoring: similarity of texts and embeddings, thresholds, event counts, percentiles. Numbers
  and floating point without state of their own; the modules that depend on them allow every outcome.
- Entity graph, summaries of kinds of high volume: caches and statistics of names
  and numbers, read by nothing that is modelled.
- Parsing and fetching: what an item says, prompts and texts, the wording of answers,
  retries inside an HTTP library. The adapters' control around a request is modelled.
- Claude's daily budget (one caller); the alerts `shodan.rs` manages at the service.
- Replay driver, HTTP, SSE and WebSocket server, SQL and migrations, configuration, the
  Telegram login tool, the frontend: input and output, or sequential programs that tests reach.
- The wall clock that expires rejections in a replay (`graph/merge.rs:1052`); two tasks that write
  a stream's status and then broadcast it (`sources/registry.rs:426`), which shows in the order of
  two messages to the browser only.
