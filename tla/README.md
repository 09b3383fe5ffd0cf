# Formal models of goheadroom

goheadroom (`src/core`) shortens what an LLM application sends to its model:
it takes the messages of a request, compresses the parts it may touch, and
stashes what it dropped in a CCR store (compress, cache, retrieve) under a hash
that a marker in the text names. These modules model that machinery in TLA+,
check it with TLC on small instances, and prove the main results with TLAPS.

## 1. Inventory

| Part | State | Operations | Interacts with | What is hard, what makes it correct |
|---|---|---|---|---|
| CCR store interface, `ccr/ccr.go` | none | `Put`, `Get`, `Len`, `ComputeKey`, `MarkerFor` | every compressor that drops bytes | one cell per key: no lost Put, no foreign or replaced payload |
| In-memory store, `ccr/inmemory.go` | map, ring of keys, head, count | `Put`, `growRing`, `Get`, `Len` | goroutines of all requests | map and ring must agree; two-phase `Get`; expiry against eviction; ring at its limit |
| SQLite store, `ccr/sqlite.go` | one table in a file | open, `Put`, `Get`, `Len`, `Close` | SQLite, other processes with the same file | ignored errors, two roundings to seconds, processes that die and come back |
| Redis store, choice of backend, `ccr/redis.go`, `config.go` | keys of a server | `Put`, `Get`, `FromConfig` | server | ignored errors; expiry is the server's |
| Pipeline, `transforms/pipeline/orchestrator.go`, `traits.go` | one record per `Run` | `Run`, `runReformats`, `estimateBloats`, `ReformatOutputFromLengths`, `OffloadOutputFromLengths` | transforms, store | fork and join, decisions on old ratios, exact accounting, nesting markers, a shared bounded store |
| Pipeline configuration, `config.go`, `pipeline.toml` | thresholds | `Default`, `ParseTOML` | pipeline | ratios at their boundaries |
| Offloads, `pipeline/offloads` | none | `EstimateBloat`, `Apply` | store, compressors | stash before dropping; which lines are noise |
| Reformats, `pipeline/reformats` | none | `Apply` | pipeline | lossless: runs of a template, numbers |
| Live zone, `transforms/livezone`, `compress.go` | one request | three dispatchers, `CompressText` | cache control, tokenizer, compressors, store | what a provider has cached must not change; totals of the manifest |
| Cache control, `cachecontrol` | none | `ComputeFrozenCount`, TTL order | live zone | last marker of a prefix |
| Policy, auth mode, `compressionpolicy`, `authmode` | none | classification, policy | callers | precedence of headers |
| Tokenizers, `tokenizer` | cache, registrations | `GetTokenizer`, `RegisterHf`, `ClearHfRegistrations`, `DetectBackend` | live zone | check, then act, under two locks; entries that are never invalidated |
| Diff compressor, `diffcompressor`, `unidiff`, with `diff_noise.go`, `diff_offload.go` | none | parse, score, select hunks, trim context, count, print | pipeline, store, content detection | headers in unusual orders, context at the ends of a hunk, counts that must be those of the output, a marker inside what is trimmed |
| Log compressor, `logcompressor`, with `log_template.go`, `log_offload.go` | a state machine per trace | levels, traces, scores, groups, deduplication, cap | pipeline, store | an alarm must survive template, groups and cap; traces must end |
| Search compressor, `searchcompressor`, with `search_offload.go` | none | parse, rank files, select, print | pipeline, store | names that look like separators and numbers; two budgets |
| Adaptive sizer, anchor selector | none | clusters, knee; regions, density, duplicates | log and search compressors, crusher | flat curves, rounded shares |
| Smart crusher, `smartcrusher`, `compaction` | one array or object | analyse, choose a strategy, plan, prioritise, tabulate | live zone, JSON offload | budgets against what must be kept; a table that says what the array said |
| JSON and code compressors, content detection, tag protector, safety, recommendations | none | parse, detect, protect | dispatchers | order of detection, pairs of tool calls |
| Relevance, signals, kompress | tables, a model | score | crusher | data, not control |
| Parity harness, benchmarks, `cmd` | none | compare, measure | everything | tools, not the program |

`PROJECT.json` lists every component with its status and every hazard at its
line.

## 2. Plan

In the order of importance; 1 to 10 are done.

1. `CcrStore`, the promise of a store; `InMemoryStore`, which keeps it.
2. `Compression`, the promise of a compression; `Pipeline`, which keeps it with
   concurrent Runs over a shared store.
3. `LiveZone`: the turns of a conversation whose prefix a provider caches, with
   `AnthropicWalk`, the walk of the Anthropic dispatcher and its frozen count.
4. `ChatWalk`, `ResponsesWalk`: the walks of the other two dispatchers.
5. `TokenizerRegistry`: the cache, its races and its stale entries.
6. `SqliteStore`: lost Puts, restarts, seconds; it implements `CcrStore` with the
   steps that errors and deaths add.
7. `DiffParser`, `DiffCompressor`: one diff through both of its offloads.
8. `AdaptiveSizer`, `LogTemplate`, `LogCompressor`: one log through its reformat
   and its offload.
9. `SearchCompressor`: one output of grep.
10. `AnchorSelector`, `ArrayAnalyzer`, `CrushPlanner`, `Compaction`,
    `SmartCrusher`: one array or object.
11. Left: `JsonMinifier` (numbers beyond 2^53), the order of TTLs in cache
    control, the policy by auth mode, the pairs of tool calls (`safety`), the
    JSON and code compressors; the store that `Pipeline` assumes as a module of
    its own that `InMemoryStore` implements until an entry is purged.

Theorems still planned: that refinement, and the properties of the log and search
compressors.

## 3. Modules and code

| Module | Models | State and actions in the code |
|---|---|---|
| `CcrStore` | interface `Store` of `ccr/ccr.go` | abstract: a cell per key, a running call per goroutine |
| `InMemoryStore` | `ccr/inmemory.go` | `data`, `ring`, `ringLen`, `head`, `count` are the fields of the struct. A `Put` is `PutBegin` (the clock is read) and, under the lock, `PutOverwrite`, `PutInsert` (eviction loop, `growRing`, insertion) or `PutPanic`. A `Get` is `GetAbsent` or `GetRead` under the read lock, `GetHit` or `GetExpired` without one, and `GetPurge` under the write lock |
| `Compression` | what `traits.go` promises of a pipeline's result | abstract: the wire only shrinks, a lossy step names what it replaced |
| `Pipeline` | `pipeline/orchestrator.go`, `traits.go`, the stash shared by `offloads/` | per Run: `current`, `saved`, `steps`, `keys`, `score` are the locals of `Run`, `runReformats` and `estimateBloats`; `rnext` and `running` are what is left of the two goroutine groups; `pc` is "fork" between the start of the goroutines and the join, "stashed" between an offload's `Put` and the end of its `Apply` |
| `LiveZoneTypes` | `livezone/compress.go`, `types.go` | `compressTextWithCCR` as `Compresses`, `Compressed` with the keys it names (`FooterNames`, `MarkerNames`), `Stashes`; the blocks of a manifest |
| `AnthropicWalk`, `ChatWalk`, `ResponsesWalk` | `livezone/anthropic.go` with `cachecontrol`, `openai_chat.go`, `openai_responses.go` | which messages are live, and the reason for each that is not |
| `LiveZone` | `compress.go` and the clients around it | `Say` extends the conversation; `Send` is one call of `CompressLiveZone`: `SendAsIs` (mode off, nothing live), `SendUnchanged` (nothing gained), `SendCompressed` (manifest, stash, new body) |
| `TokenizerRegistry` | `tokenizer/registry.go`, with the loading of `tiktoken.go`, `tiktoken_ffi.go` | `cache`, `hfRegistry` are the globals; a step is a critical section, and between `Miss` and `Store` no lock is held |
| `SqliteStore` | `ccr/sqlite.go` | `rows` is the table; a call of a process is two steps, the reading of the clock (`PutBegin`, `GetBegin`) and the statement (`PutUpsert` or `PutLost`; `GetScan` and `GetReturn`, or `GetMiss`); `Restart` is a process that dies and opens the file again |
| `SeqOrder` | `sort.SliceStable`, `sort.Ints` and minimum, maximum, sums | operators |
| `DiffParser` | `parseDiff`, `parseSegments` of `diff_noise.go`, `unidiff.DetectDiff`, the estimate of `diff_offload.go` | four scanners of the same lines, each a recursive function over them |
| `DiffCompressor` | `diffcompressor.go`, `diff_noise.go`, `diff_offload.go` | `Receive` builds the content; `NoiseLeaves`/`NoiseDrops` and `DiffLeaves`/`DiffCompresses` are the two offloads as the pipeline calls them; `wire` is the text, `shown` which input line each of its lines is |
| `AdaptiveSizer` | `adaptivesizer.go` | `ComputeOptimalK`: clusters of hashes, the knee of the curve of word pairs; the set of results that the check by zlib may lead to |
| `LogTemplate` | `reformats/log_template.go` | `ApplyTemplate`, and `Expand`, which reads a template's table back |
| `LogCompressor` | `logcompressor.go`, `log_offload.go` | `Reformat`, then `OffloadLeaves`, `OffloadKeeps` or, when the marker has eaten the savings, `OffloadDiscarded`; `selectLines` is all of the selection: groups, traces, deduplication, context, cap |
| `SearchCompressor` | `searchcompressor.go`, `search_offload.go` | `Receive` a line; `OffloadLeaves`, `OffloadKeeps` or `OffloadDiscarded` with the parser, the ranking, the selection, the printing and the marker |
| `AnchorSelector` | `anchorselector.go` | `SelectAnchors`: budget, weights, three regions that share what was seen |
| `ArrayAnalyzer` | `analyzer.go`, `field_detect.go`, `outliers.go`, `statistics.go` of `smartcrusher` | `AnalyzeArray`: statistics of fields, pattern, crushability, strategy |
| `CrushPlanner` | `planning.go`, `orchestration.go` | `CreatePlan`: the four plans, `PrioritizeIndices` |
| `Compaction` | `compaction/compaction.go` | `Compact`: the table with flattened columns; `FormatCompaction`: its cells as printed |
| `SmartCrusher` | `crusher.go`, `crushers.go`, with both callers (live zone, JSON offload) | `Receive`, `ReceiveMember` build a document; `CrushDicts`, `CrushStrings`, `CrushNumbers`, `CrushMixed`, `CrushKeys` and `PassSmall` are the branches of `processArray` and `processObject` |

Each `MC` module gives small values to the constants, and each proof module
extends the module it is about. `DataLemmas` holds the lemmas about `SeqOrder`
and about recursive functions that several of them need. `LiveZone` extends the three walks, `DiffCompressor`,
`LogCompressor`, `SearchCompressor` and `SmartCrusher` the modules of the parts
they call; `Pipeline`, `InMemoryStore` and `SqliteStore` instantiate the promise
they keep as `Promise`. Operators
that a comment calls "Mutant of" are faulty variants of the operator after them:
each property fails when one of them takes that operator's place.

### Abstractions

- Hashes do not collide: a key is the kind of hash and the text hashed. Offloads
  and the live zone use blake3, the compressors' own footers md5, so that one
  text has two keys.
- A time is a number of ticks of a clock that only moves on; it may move at any
  point between two steps.
- `Pipeline`: a content is its size and the marker it ends with. A transform may
  return any content that its checks let through (a shorter one for a reformat; a
  shorter one with its marker for an offload), skip, or fail. The store evicts
  and does not expire. Estimators may return any score, in any order. Ratios are
  percentages, compared by multiplication.
- `LiveZone`: requests are well-formed; the fallbacks for malformed bodies are
  left out. A text is one of five kinds (`MCLiveZone`): short,
  without a compressor, compressed with a gain that a marker leaves or does not
  leave, and compressed with a footer of the compressor's own; compressor and
  tokenizer are functions of the text. "developer" is "system". The store that the CCR
  variant is given is unbounded and does not expire: its own behaviour is
  `InMemoryStore`'s. The blocks of a manifest are a set. Model name, request id
  and auth mode are handed through and have no effect. Content in `system` and
  `tools`, which no walk touches, has no marker.
- `TokenizerRegistry`: the C and the Go tiktoken are one, as the second is tried
  when the first fails and both cache their encodings. Each registration is of a
  new tokenizer. `seen` is a history variable.
- `InMemoryStore`: a capacity of zero is excluded (the constructor then makes a
  ring without slots). `purged`, `panicked` and `older` are history variables.

- `SqliteStore`: SQLite runs one statement at a time, and a statement that fails
  has changed nothing. There are two ticks to a second. A Get whose row is found
  may still fail, which is a miss. `at` and `putAt` are history variables.
- Compressors: a text is a sequence of lines, and a line what the code's matchers
  tell apart of it: a kind of diff line with its text and the words a query may
  name; a log line's words with the level and the start they mean; the pieces of
  a line of grep between separators. Regular expressions are not run over
  characters. Scores, weights and ratios are percentages and products are exact.
  Where Go's order of maps or of equal elements under `sort.Slice` decides, the
  result is one of a set.
- `AdaptiveSizer`: the SimHash of an item is the set of its bits, its word pairs
  are given with it, and the check by zlib may add a fifth or not.
- `SmartCrusher`: rows are small records whose values may be objects one level
  deep; lists are opaque; a number is an integer of tenths; a text is what the
  code asks of it (length, date, an alarm word, entropy, a mention of the query).
  One call crushes one array or object: what lies deeper in it, scores of
  relevance, fields to preserve and the JSON text around it are left out.
- Thresholds that are configuration or constants of the code are CONSTANTS, and
  the instances make them smaller: `FewItems` 4 is the code's 8, the first items
  that are all kept; `MinItemsToAnalyze` 4 is 5; `ChangeWindow` 2 is 5;
  `VarianceThreshold` 1 is 2; `LevelRatio` 40 is 10, percent of six rows instead
  of hundreds. The order among them is that of the code.

## 4. Runs

| Run | Bounds | What it shows |
|---|---|---|
| `store_calls` | 2 goroutines, 3 keys, 2 payloads, capacity 2, first ring of 1, clock 0 to 1 | `CapacityBound`, `RingMirrorsData`, `PanicNeedsPurge`, `FifoUntilPurged`, `PurgeOnlyExpired`, the refinement of `CcrStore` |
| `store_panic` | 1 goroutine, 3 keys, capacity 2, the code's first ring | violation of `NoPanic` |
| `sqlite_restarts` | 2 processes, 2 keys, 2 payloads, 2 ticks to a second, 2 seconds to live, clock to 8, symmetry of keys, payloads and processes | `LivesItsTime`, the refinement of `CcrStore` with lost Puts, blind misses and deaths (`LossySpec`) |
| `pipeline_pair` | 2 Runs, 1 reformat, 2 offloads of one hash, sizes to 3, store of 2 | `StashedFirst`, refinement of `Compression` |
| `pipeline_solo` | 1 Run, 2 reformats, 2 offloads of two hashes, sizes to 4, store of 2 | `Accounting`, `StepsInOrder`, `Unwinds`, `DecisionsStand`, `SuccessSparesOffloads`; liveness `Returns` |
| `zone_turns` | each format; 4 messages, 2 markers, every mode and CCR option | `FrozenUntouched`, `ManifestTellsChanges`, `SavingsAreReal`, `OriginalsReachable`, `NoOrphans`, `StableInToolLoop`, `ResponsesPrefixStable` |
| `tokenizer_races` | 2 callers, 2 models, 4 tokenizers made | `MissUsesRegistration`, `SettledForGood` |
| `diffs` | every sequence of up to 4 of 11 pieces of a diff | `WholeHunks`, `CountsMatchOutput`, `DetectorsAgree`, `OriginalReachable` |
| `logs` | every sequence of up to 4 of 11 pieces of a log | `WordsRecoverable`, `AlarmSurvives`, `TracesFollowFrames` |
| `searches` | every sequence of up to 5 of 8 lines | `ReadsBack`, `EndsShown`, `ParsersAgree` |
| `crush` | every array of up to 6 items from 17 chunks, every object of up to 6 of 9 members, 4 callers | `AlarmsSurvive`, `WithinBudget`, `AnchorsFit`, `TableReadsBack` |
| `crush_lossless` | the same | violation of `CompactionIsLossless` |

The type invariants and the inductive invariants of the seven components with
proofs are theorems for all instances (section 5) and are not run again.

Why the bounds are enough:

- A store of two entries whose ring begins with one slot grows, wraps, evicts,
  and overflows by a stale slot; three keys let a deleted key return while two
  others live. With a time to live of 0 and two instants entries expire, are
  read before and after it, and are stored anew between the two locks of a Get.
  Two goroutines are enough for any two critical sections to interleave, two
  payloads to tell a replaced entry from the one that replaced it. The cap on
  the ring's growth matters when a full ring has a stale slot.
- Two Runs with two offloads each make up to four Puts into two entries, so that
  either Run evicts what the other, or it itself, has stashed. Contents of size 3
  leave room for a reformat and an offload, or for two offloads that nest; size 4
  for a reformat and both.
- Four messages hold a frozen part, a live one, one above the live one, and one
  that is appended between two requests; two markers leave an unmarked frozen
  message between them. A message has one or two slots, so that one of them may
  be compressed and the other passed through. After the user four messages leave
  room for an assistant between two tool results, and for two results in a row.
- Four tokenizers are one for each caller and two registrations of one model.
- Two seconds of two ticks each let a Put and a Get round in different seconds,
  and a row be at the cutoff, before it and after it; a clock of twice the time to
  live lets a row expire and be stored anew.
- Four pieces of a diff hold a file with its names, two or three hunks, a binary
  marker or a second file, in every order, also those that git does not print;
  hunks are longer than twice the context, one file and three hunks are the
  limits, so that both limits bite.
- Four pieces of a log hold two runs of a template next to an error, a trace and
  what ends it; the cap of four lines is less than what is selected. Two pieces with
  a warning in a summary within a trace are as good as the least total, two, which
  is when `AlarmSurvives` makes no claim.
- Five lines hold three files, one more than may be shown, and three matches of
  one file, one more than may be shown of it.
- Six items are two more than are kept by default, and chunks of one kind of row
  bring about each strategy: all four plans, the table, the two limits, groups of
  several kinds.

`CHECK_DEADLOCK FALSE` is given to the runs of `Pipeline`, whose Runs are called
once and return, and to `diffs`, `logs`, `searches`, `crush` and
`crush_lossless`, in which one text is compressed and that is the end. The other
systems never stop, and TLC checks that.

### Fairness

Only `Returns` needs it. `FairSpec` gives weak fairness to each goroutine of a
Run that has begun: its reformat loop, each estimator, the join, the offload
loop. The Go scheduler runs a runnable goroutine eventually, transforms are loops
over their input that end, and no goroutine waits for anything but the
`WaitGroup` of the join and, for the length of a `Put`, the store's mutex. That
`Run` is called is not assumed.

## 5. Proofs

All theorems hold for every value of the constants that the `ASSUME`s of the
modules admit; these are types, distinctness of null values, and positive
capacities.

**`InMemoryStoreProofs`**: `TypeCorrect`, `Inductive`, `CapacityIsBounded`,
`RingIsExact`, `PanicsNeedPurge`, `EvictionIsFifo`, `PurgeIsSafe`, `Implements`.
`CapacityBound` is not inductive: the eviction loop stops when the ring is used
up, so it matters what a full map and a ring with stale slots may look like
together. The invariant says that the ring overflows by one slot at most, at its
full length, after a purge (`RingBound`); that a stored key is missing from the
ring only then; and that in an overflowing ring the first slot names a stored key
whenever the map is full, so that one turn of the loop makes room
(`OverflowInv`). Lemmas on `%` carry the slots through wrap-around and growth.

**`PipelineProofs`**: `TypeCorrect`, `Inductive`, `AccountingIsExact`,
`StepsAreOrdered`, `MarkersUnwind`, `StashComesFirst`, `DecisionsAlwaysStand`,
`SuccessIsSpared`, `Implements`. The invariant adds to the properties what holds
half-way through a Run: no keys before the join (`KeysInv`), the next transform's
number above all reported (`StepsInv`), and the input of a stashing offload in the
store or evicted (`StashedInv`), whatever other Runs do in between.
`DecisionsStand` relates what a Run has done with an offload to the scores and the
ratio of its reformat phase. It is not inductive: an estimator that is still at work
after the join would change a score behind a decision. `JoinInv` says that no
estimator or reformat is left at work once a Run is past the fork; `DemandInv`, that
nothing is decided before, and that the offload whose input has just been stashed is
demanded.

**`LiveZoneProofs`**: `TypeCorrect`, `FrozenIsUntouched`, `OriginalsAreReachable`,
`NothingIsOrphaned`, `ManifestIsTrue`, `SavingsAlwaysReal`, `ResponsesPrefixIsStable`
and `ToolLoopIsStable`, for conversations of any length and any compressor and
tokenizer. `FrozenUntouched` and `OriginalsReachable` are inductive with the types;
that the conversation only grows links one request to the next, and that the store
does keeps an original where it was put. `ResponsesPrefixIsStable` rests on an
invariant that gives each item's form on the wire as a function of the item and the
request's options alone. `ToolLoopIsStable` does the same for the other formats while
only tool results are appended. `SavingsAlwaysReal` splits the manifest's sums into
blocks that were compressed and blocks that were passed through: the difference of
the totals is what the first have lost, and each of them tells its own part.

**`TokenizerRegistryProofs`**: `TypeCorrect`, `SettlesForGood`,
`MissesUseRegistration`. Numbers of tokenizers only go up, so that a
registration seen at the start and found at the end has been there all the while
(`SeenIsOld`, `RegisteredIsOld`); a resolver that has read the registry while it
was there has its tokenizer (`ResolverUsesRegistration`).

**`SqliteStoreProofs`**: `TypeCorrect`, `EntriesLiveTheirTime`, `Implements`, for
any number of ticks to a second and any time to live. What a row shows is the time
of its Put cut to seconds (`StampInv`); a later second means a later time
(`UnixReflects`), and a second or more between two times is a later second
(`UnixStep`). `Implements` has one case per step (`StepImplements`), and takes a
`Restart` to be a call that is forgotten.

**`DataLemmas`**: what the models' helpers on data do, for every input. The
library's induction theorems take an operator as a parameter, which no installed
prover can instantiate; these lemmas take a *set* instead: a property that fails
for some number fails for a least one (`NatLeast`), and the inputs for which it
fails are such a set. From it follow the recursion of a function over 0..n
(`LoopExists`: a loop is the only function that begins and goes on as it does),
induction over finite sets, sums, sorts (`SortedBy`: `ByRank` lists every
place once, in the order of the ranks) and the places of a sorted set
(`SortedPlaces`).

**`SmartCrusherProofs`**: `AlarmsAlwaysSurvive`, `BudgetsHold`, `AnchorsAlwaysFit`,
for documents of any size. A result is made in one step, and the invariant
(`WellFormed`) says only what the documents are; the work is in the selections.
`AlarmsAlwaysSurvive` holds for all limits: an error or an outlier is critical,
what is critical has priority over the budget, and deduplication drops an item
only for an equal one before it. `BudgetsHold` assumes `FirstPct + LastPct <= 50`,
`MinItemsKept >= 2` and `MaxItemsAfterCrush >= 2`: the code has 30, 15, 3 and, by
default, 15. With shares of more than half the two ends of an object exceed its
budget, and a budget of one has no room for two ends. `AnchorsAlwaysFit` assumes
`DedupAnchors`, `MinAnchorSlots`, `MaxAnchorSlots` and `MinItemsToAnalyze` of at
least 2: true, 3, 12 and 5 in the code. In `WithinBudget` a text that is an error and an
odd one takes two places of the budget, as in the code. `TablesReadBack` is for
arrays of any objects that the crusher is given (fields have a place in
`FieldOrder`, an empty text is of length 0). A table is
made of an array of objects only (`OutcomesReadBack`), and has each column that each
field becomes (`CompactLists`, `ColumnsInTable`): the field itself, or the fields of
its objects when all its values are objects of the same keys (`WholeColumnShows`,
`PartColumnShows`). The tag of a column then tells its booleans from the rest
(`TagsFit`, `InnerKinds`), and by it each printed cell reads as the value that was
there (`LeafReads`, `ObjectReads`).

**`DiffCompressorProofs`**: `ScannersAgree`, `ContentComesBack`, `CountsAreTrue` and
`HunksStayWhole`, for diffs of any number of chunks, in any order, and for all limits. `ScannersAgree` runs content
detection and the compressor's parser side by side, line by line (`Agree`): the
detector counts hunks, the parser opens and closes files. They part on a
line of a hunk that looks like a file's name, which is what `Plain` excludes.
`ContentComesBack` has the invariant `Reach`: before the diff
offload nothing is stashed and the wire is the content, or the stash has the
content under the noise marker and that marker is on the wire. That a marker stays on the
wire, or what holds it is stashed in its turn, needs what each of the two offloads
prints: where every hunk and file is in the content (`DiffLaid`), that the selection
takes hunks from the parsed ones (`SelectedHunks`, `CappedAre`), the text of the
result (`DiffText`), and the segments of `diff_noise` (`SegmentsLaid`, `NoiseType`).
`CountsAreTrue` adds to `Reach` what is reported (`CountInv`). The footer sums over
files and hunks, the property counts a set of hunks and a set of lines: they agree
because no two parsed hunks share a header or a line (`HunksApart`), so that the
union has as many elements as its parts have (`PartsCounted`), and because the text
holds the header of a hunk only when that hunk is kept (`KeptShown`), and with it
every change of the hunk (`ChangesKept`).

`HunksStayWhole` has the invariant `WholeInv`. While the diff is read, every line is
shown; before the diff offload what `diff_noise` leaves is faithful to it
(`Faithful`): the numbers of its lines ascend (`Ascends`), and a line of a hunk
follows the one above it or both are gone (`Adjoins`), as the noise offload drops
hunks and whole files and nothing in them (`NoiseInOrder`, `NoiseIsFaithful`). A hunk
that the compressor parses is therefore a stretch of the diff, and all its changes are
printed, with the context around them, or none (`HunkWhole`, `AllWhole`);
`StaysWhole` puts the two offloads together.

Model-checked only: `Returns`, as liveness is out of the prover's reach; and, not
proved yet, `WordsRecoverable`, `AlarmSurvives` and `TracesFollowFrames` of the log
compressor, and `ReadsBack`, `EndsShown` and `ParsersAgree` of the search compressor.
These are about what recursive functions compute for every input, and each needs an
induction of its own in the manner of `DataLemmas`.

## 6. Where the code and its documentation disagree

With a run:

- After a Get has deleted an expired entry, its key stays in the ring. A Put can
  then overflow the ring, and the next that needs a slot panics in `growRing`
  (`store_panic`). `PanicsNeedPurge` proves that nothing else leads there.
- The table that replaces an array prints a nested list as `{}`, whatever it
  holds (`crush_lossless`). `TableReadsBack` says what does hold: fields without
  lists whose booleans have a column for themselves can be read again, but for the
  difference between missing, null and empty.

Read in the code while modelling it, without a run:

- Stores and pipeline: a key that returns after a purge is listed twice in the
  ring, and its old slot makes it the victim before older keys (`inmemory.go:109`;
  `FifoUntilPurged` is what holds); another Run's Puts can evict an offload's key
  before its Apply returns; an offload below `bloat_threshold` is applied when the
  reformats underwhelm, against `traits.go:153` (`SuccessSparesOffloads` says when
  it is not).
- Live zone: the user message compressed in one Chat request is sent as it was
  said once it is history, so that the cached prefix changes (`StableInToolLoop`
  is what holds); the footers of compressed logs, searches and diffs ("Retrieve ...:
  hash=" and an md5 key) go on the wire although the live zone gives the log compressor
  a store that it drops and the other two none, so that nothing is stored under their
  keys (`compress.go:49-74`, `searchcompressor.go:173-181`, `diffcompressor.go:253-269`,
  against `docs/PROXY_ANALYSIS.md:581`; the model has them as `FooterNames`, and
  `OriginalsReachable` is what holds: with CCR the live zone's own marker leads
  back); one compressed slot re-marshals the whole body, against
  `docs/PROXY_ANALYSIS.md:517`; a passed-through block counts in the total of
  compressed tokens but not in its own; the Responses walk compresses every user
  message, against `openai_responses.go:16-17`.
- Tokenizers: two callers that miss the cache together get different tokenizers,
  one of which is lost; a model whose encoding could not be loaded once, or that
  is registered after its first lookup, keeps the estimator.
- Compressors: a warning in a summary line within a trace scores as much as an
  error, and the cap takes the first of equals (`logcompressor.go:657-684, 761-779`),
  so that with ten such warnings above it the only error of a log may go
  (`AlarmSurvives` is what holds); the log template loses white space between words, so that it is
  lossless in words only (`WordsRecoverable`); `diff_noise` takes a hunk for noise
  when its texts are equal without white space, indentation included.
- The two search parsers (`searchcompressor.go:224-262`, `search_offload.go:83-109`),
  whose agreement `ParsersAgree` states for the lines that `PlainLine` admits only:
  a name with digits between dashes (`log-2-x:1:`) ends at its first number for both,
  and is misread; the compressor lets the two separators of a number differ, the
  estimate does not; a drive is a letter, a colon and a slash for the compressor and
  a letter and a colon for the estimate, so that `x:1:` is a file for one of them;
  after a double colon (`a::1:`) only the estimate finds a number.
- Smart crusher: a column of several types has one tag, that of its last value or
  `json`, so that `true` the boolean and `true` the text are printed alike
  (`compaction.go:585-634, 424-460`; numbers and texts of digits likewise, which the
  model keeps apart, as its texts are none); the plan for scored rows keeps `maxItems - 3` of the best
  (`planning.go:243`), which is none when the sizer allows its least, three,
  against `types.go:14`; the JSON offload
  builds its crusher without constraints (`json_offload.go:25`), so that rows with
  errors may go, against `docs/PROXY_ANALYSIS.md:503` (`AlarmsSurvive` counts them
  for callers with constraints only); change points are places among a field's
  numbers and used as places among rows (`analyzer.go:232`); `stringifyValue`
  strips the zeros of whole numbers, so that 200 and 20 count as one value
  (`outliers.go:219`).

## 7. Not modelled

What is planned is in section 2. Not planned:

- Redis: each call is one command of a server whose expiry and failures are its
  own; the choice of a backend is a table.
- Compression policy and auth mode: pure functions of headers, whose result the
  live zone hands through.
- Content detection but for diffs, tag protector: regular expressions over
  characters. Safety and recommendations: read by none of the parts modelled.
- JSON and code compressors: parsers and printers of languages.
- Relevance and signals (floating-point data and keyword tables), kompress (an
  external model behind cgo), the counting of tokens (library code).
- The tools: parity harness, benchmarks, commands.
