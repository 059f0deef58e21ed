# A verification of Ontolith

Ontolith is an RDF database server in Rust. This directory holds TLA+ models of
its storage, transaction, query, reasoning, cluster, security and gateway code,
TLC runs that check them on small instances, and proofs that TLAPS checks for
every value of the constants. Paths are relative to `src/crates/` unless they
start with `docs/`; a crate's name loses its prefix `ontolith-`, and `src/` below
a crate is left out. `PROJECT.json` maps every definition to its lines.

1. [Inventory](#1-inventory)
2. [Modules, and how they correspond to the code](#2-modules-and-how-they-correspond-to-the-code)
3. [Runs](#3-runs)
4. [Proofs](#4-proofs)
5. [Where the code differs from what one may expect](#5-where-the-code-differs-from-what-one-may-expect)
6. [What is left out](#6-what-is-left-out)
7. [Plan](#7-plan)

## 1. Inventory

How the parts interact: a request reaches the **gateway**, which authenticates it
(**security**), and runs it. A query is parsed (**SPARQL parser**), rewritten and
evaluated (**planner and executor**) on the storage engine's read interface, if asked
for with what the **reasoner** concludes. A write reaches an engine through one of three
**write paths**: the transactional service and the ingest handler take a slot from the
**transaction manager** and stage, commit or abort in the **in-memory** or **RocksDB
engine**; SPARQL Update numbers its own transactions and uses the engine alone. After
each commit the gateway brings the **semantic index** up to date. The **cluster** crates
hold a simulator behind one lock and a **raft plane** on openraft. Documents enter and
leave through the **parsers and serialisers**, also between two servers.

| component | state | what is hard | correct when |
|---|---|---|---|
| Transaction manager (`transaction`) | table, deadlines, next id, counters under one lock; an atomic clock | commits that meet their deadline, cleanup with the caller's time, saturating deadlines and a wrapping clock | outcomes are final, the admission limit holds, counters and deadlines agree with the table |
| In-memory engine (`storage/infrastructure/mod.rs`) | versions, subject index, staged operations, log, pins | state changes before the log is asked; snapshots and checkpoints in two steps; recovery rebuilds numbering and staged work | it implements the abstract store, versions never change, a transaction reads its own writes, the log describes the state |
| RocksDB engine (`rocks.rs`) | column families, and in memory what is staged, retained, pinned, counted | a number is taken before its durable write; an index backlog with a watermark; an unlocked dictionary; reopening after a crash in any of these | index reads equal scans, the newest version is the live state, a value in use keeps its one number |
| Write paths | one call per client; no lock is held between two engine or manager calls | two numberings of transactions, failing log records at each step, cancellation half way | nobody touches another call's staged work, nothing stays behind, no slot leaks, every call returns |
| SPARQL parser | the text that is left, labels, prefixes, pending expansions | what a filter, a BIND or a subquery's variable means depends on where it stands | what is parsed means what SPARQL 1.1 says of the text |
| Planner and executor | one query at a time | one term is bound in two representations; order of patterns; cyclic paths; tenant views | answers are the relational meaning, optimising changes none, a tenant sees its own graphs |
| Reasoner, SHACL validator (`reasoner`) | a closure that grows by rounds; the depth of a nested validation | guards that end a closure early; shapes that refer to themselves and end at a depth limit | conclusions and verdicts are what rules and shapes mean |
| Parsers, serialisers, RDF model | the document that is left, bases, contexts, minted labels | what one writes another must read; scopes of JSON-LD contexts; bodies cut short | what is written and read back is what was meant |
| In-process cluster (`cluster/infrastructure/mod.rs`) | nodes, shard map, log, applied and commit indexes under one lock | who counts as reachable changes; reads at several levels; transfers in two steps | the slots stay partitioned, terms ascend, a leader has the whole log, the commit index moves to what a majority of the reachable voters applied |
| Raft plane (`raft/`) | a column family openraft writes through; registries folded from applied entries | purges and conflict deletions are several writes; a snapshot is three reads; forwarded changes are retried | a crash inside a call loses only entries the store still names, no committed one; registries agree, a change is committed once |
| Security (`security`) | audit file with its chain of hashes; tenant records and key digests; cached provider keys | half-written lines, racing updates of one record, key rotation | the file verifies, a key admits exactly from its answer to its revocation, no key outlives its lifetime |
| Gateway, semantic index (`server`) | requests under way, counters, the index and its lock, backups and their scheduler | the index follows the store under a lock of its own, and its failures go unnoticed; the scheduler sleeps while its schedule changes | requests are counted and confined to their tenant, the index holds what is committed unless an indexing failed or was cut, backups recur |
| Codecs and encodings, geo, observability, AI, core types and SDK, compliance suites and console | — | pure byte layouts with round-trip tests, floating point, counters nobody reads, no state | not modelled; the reason is with each in `PROJECT.json` |

`PROJECT.json` lists the hazards at their lines with the properties that would catch
them. One has no property: `delete_by_key` writes no log record (section 5).

## 2. Modules, and how they correspond to the code

| module | models |
|---|---|
| `TxnManager` | `transaction/infrastructure/mod.rs` |
| `StoreOps` | what one write operation does to a graph, and to what a transaction reads |
| `TxnStore` | abstract: what the storage layer promises (`StorageEngine`) |
| `MemEngine`, `MemRecovery` | the in-memory engine; the same with recovery from its log. Implements `TxnStore` under `graph <- Latest, staged <- pending` |
| `RocksEngine` | the durable engine. Implements `TxnStore` or loses everything staged, under `graph <- db.data, staged <- Staged` |
| `RocksDict` | its dictionary: encoding, staging, collection, clear, reopening |
| `WritePaths` | service, ingest and update over `MemEngine` and `TxnManager`, composed with `INSTANCE` |
| `SparqlSyntax` | `sparql_parse.rs` over tokens |
| `SparqlValues`, `SparqlEval`, `SparqlUpdate`, `SparqlQuery` | values and operators; the algebra evaluator with its views; update requests; the optimizer and the pipeline of one request |
| `Reasoner`, `Shacl` | rules, rounds and guards; shapes, targets, constraints and their nesting |
| `RdfTerms`, `Turtle`, `RdfXml`, `JsonLd`, `Exchange` | terms and line formats; the other readers and writers; result documents and what two servers send each other |
| `ClusterSim` | the simulator |
| `RaftStore`, `RaftRegistry` | the store of one node; registries, forwarding and transfers of several |
| `AuditLog`, `TenantKeys`, `Access`, `JwksCache` | audit file; tenant registry; credentials, tokens and permissions; provider keys |
| `Gateway`, `BackupScheduler` | handlers as concurrent requests with the semantic index; backups |
| `MC*` | instances for TLC |
| `*Proofs`, `*Theorems` | theorems; lemmas on folds of operations (`StoreOpsTheorems`), on sets of naturals and on induction over intervals (`NatSetTheorems`) |

A handler that runs under one lock is one action, and everything it does there (the
pruning of a commit, say) is part of it. Where the code leaves a lock and takes another,
writes several records, or calls another component, there are several actions:
`CaptureVersion`/`PinVersion`, `CheckpointScan`/`CheckpointTruncate`, `CommitBegin` and
`WriteDone`/`WriteFailed`, each engine or manager call in `WritePaths`, each of the writes of a
purge in `RaftStore`, each of the reads of a snapshot build, `Tick` of the simulator.

*Data.* A graph of the engines is a pair of sets: the code looks before it pushes, so its
vectors hold no duplicates. Predicate and object are one field, because only the subject is
ever looked at alone. A query sees sequences, where the order in which a store lists triples
decides. The parsers read tokens, and documents are cut where the code looks (an IRI after
each `/` and `#`); a hash is the history it stands for, without collisions; a clock
is a small counter. What the code reads in `HashMap` order is chosen freely.

*History variables* (marked so where they are declared) remember what a property needs and
no action reads: which values an encoding interfered with (`shaken`), which log entries
a crash inside a call took or an installed snapshot lacked (`unbacked`, `unmarked`, `gaps`), which terms an indexing
left out (`left`), what was published, received or raced.

*External:* openraft (a sequence of committed entries only the leader extends, applied in
order at each node's pace, and calls to the store within its contract), RocksDB batches
(atomic), quick_xml and serde_json, digests, the transport.

## 3. Runs

Bounds are constants named `Max...`, described where they are declared. Several runs hold
scenes that share no variables: a behaviour takes the actions of one scene, and the others keep
their initial values.

| run | question | instance, and why it is enough |
|---|---|---|
| `txn_manager` | deadlines, counters, outcomes under every order of operations | 4 transactions, limit 2, timeouts 0, 1, 3, a clock 0..3 that wraps: expired, live and saturated deadlines coexist with refused begins |
| `mem_engine` | chain, pruning, pins, read-your-writes, refinement | 2 transactions, every kind of operation, a reader, retention 2 with prunings to 0 and 2, 3 versions. `MaxWal = 0`: the log refuses every record, and no engine action reads it |
| `mem_recovery` | does the log describe the state | the log takes every record. Scene "recovery": strict replays at any moment, also of recovered engines. Scene "checkpoint": one checkpointer whose scan and cut interleave with two transactions and recoveries |
| `mem_two_checkpoints` | the same with two checkpointers | **violated**, see below |
| `write_paths` | isolation, leaks, slots, agreement, termination | one service, ingest and update client each; requests that use every update operation; the log takes all |
| `write_log_failure` | what a refused record leaves behind | two services that compete for one slot and an update, any record may be refused |
| `rocks_engine` | durable store and dictionary | scene "store": 1 transaction, a reader, retention 1, both index modes, 3 versions, 1 crash, a new and an older database. Scene "dictionary": 2 values, 2 encoders, 2 numbers, 1 restart, 1 mishap |
| `sparql_query` | answers, optimizer, tenants | fifty-odd queries and fourteen updates over all 256 subsets of eight triples (a cycle of blank nodes, an IRI on both sides, equal numbers of two types), each optimised three ways, each also for a tenant |
| `knowledge` | conclusions and verdicts | a lesson per rule with each premise dropped in turn, hierarchies, equalities, tenants; recursive shapes, paths, siblings, patterns, negations |
| `sparql_parser` | requests and documents | some six thousand requests printed from what they mean, eight thousand documents written in every format and read back |
| `cluster` | simulator, raft store, registry | 3 nodes and logs of 3 entries in the scenes elections, layout, time, reads; a store of indexes 0 to 3, 2 terms, 1 crash anywhere, and in a scene of its own one of indexes 0 to 2 that also installs snapshots, whole or with the first entry only; 2 processes in the scenes registry, forwarding, plane |
| `services` | records, requests, backups | 3 audit appends and 2 restarts, 2 tenants and 2 callers, provider rotations, 2 connections with 3 requests and 2 starts, an index in memory or persistent whose writes may fail, 2 administrators; and the functions behind credentials over all small inputs, in radix 4 |

`NodeSymmetry` in `cluster` permutes the three nodes: no action or property names one, and where
the code takes the first of several in map order the model chooses freely. No run replaces a definition of the modules; `CHECK_DEADLOCK FALSE` stands
where requests end, clients stop calling or bounds are reached.

**Liveness and fairness.** `CallsReturn` (a call of a write path that has begun returns)
assumes weak fairness of `Step(c)` for each client: its thread is scheduled again and again.
Nobody has to begin a call, and no step waits for another client, since the engine's locks are
held for one action only. `BacklogDrains` (an index operation left behind is applied in the
end, also over crashes) assumes weak fairness of `Open`, of the end of a write and of
`CatchUpIndex`: a process is restarted, a write returns, the maintainer polls
(`rocks.rs` 965-997). `BackupsRecur` assumes that time passes, that the scheduler's thread runs and
that requests end. Failures, crashes, refusals and preemptions are never assumed to happen or
to stop.

**The violated run.** `PendingTailKept` with two checkpointers: `checkpoint_wal_with_retention`
(`storage/infrastructure/mod.rs:255`) reads the log, computes a prefix and truncates it in a second
step. Two overlapping calls cut the same length twice, and the second cut can take the staged
record of an open transaction, which the test at line 1716 says is kept.

## 4. Proofs

Eight modules hold theorems. They hold for every value of the constants that satisfies the
named assumptions (which TLC evaluates on every run). Stronger hypotheses are part of a theorem
and named below with the reason. `PROJECT.json` lists the theorems.

**`TxnManagerProofs`**: `TypeOK`, `DeadlinesOnlyActive`, `ActiveBounded`, `MetricsAgree`,
`OutcomeFinal`, `NoDeadlineNoTimeout`. The inductive invariant is the conjunction of the four state
properties: a cleanup counts correctly only because deadlines belong to active transactions, and
`OutcomeFinal` needs that a fresh id is not in the table. `MoveOne` (a transaction that leaves
Active shifts one unit of cardinality) carries the counting.

**`MemEngineProofs`**: `VersionsImmutable`, `PinnedKept`, `RetentionBounded`, `ImplementsStore` from
`IInv`: the versions are numbers below `next_version` with both ends present, or a commit
could overwrite one. `TypeOK` and `ReadYourWrites` from `TypeInv`, which adds the types of what is staged
and that the index is the newest version's; `StoreOpsTheorems` proves what the folds over a
transaction's operations compute. `CheckpointKeepsLog` from `LogInv`: the log is well formed, a replay
holds the staged operations, and a planned cut ends where nothing is open. Its hypotheses are that the
log takes every record and that there is one checkpointer (the run above shows why).
`LogDescribesState`, and `UncutLogDescribesState` of the behaviours the run checks, add `ReplayedChain`: the chain is
what a replay would build. Hypotheses: the log takes every record, and no key deletes.

**`WritePathsProofs`**: `StagedIntact`, `NothingLeftStaged`, `SlotsAccounted`, `OutcomesAgree` and
`NothingLeftBehind`, under `LogKeepsIngest`: the log takes every record or nobody ingests, because the
ingest handler returns on a refused record without undoing anything (`server/app.rs:1628`). `CallOK`
says for each program point in which table the transaction of the call is, `IdOK` for each id who owns
its slot, its staged operations and its commit record, `Distinct` that no two calls, finished ones
included, have an id in common. None of the properties is inductive alone. `Moves(c)` says that a
step of client `c` changes only its own call and id, one lemma per action establishes it, and
`Frame` carries the rest over once.

**`RocksProofs`**: `VersionsKept` from `EngineInv`: stored versions are below the durable counter,
the number of a write under way is not, and neither is the next one, so a number a failed write lost is
never read. `ReadsAgree`, `VersionsSound` and `ImplementsStore` from `StoreInv`, whose core is that
the index families with the backlog applied are the indexes of the statements (`Covers`); operations
in a row remove some statements and add others whatever the graph (`LivePatches`), so a backlog
may be applied again to families that have it already, as opening does. Hypotheses: `ModeFixed`, since a
restart in the other index mode leaves a backlog nobody applies, and `KeysApart`, since in a batch that mixed key deletes
with statements the statement families and the version would differ (no caller builds one).
Its third part is the dictionary: `DictionarySound` from `DictInv`: a value on its way to its number has
none and one thread that brings it, a number a thread took is nobody's, a decoded number decodes to its
value, and a collection spares what was referred to when it began. The property excepts the races
that really break it (section 5), and the invariant speaks of the values those have not touched.

**`ClusterProofs`**: `StoreSafe`, with crashes inside a call too: what `get_log_state` tells is there, but for the
entries a torn cut or purge took and those behind an installed snapshot's end; the applied entries are whole but for
those an installed snapshot lacked; nothing committed is lost but what a torn cut had taken before openraft
counted it; the saved vote covers every entry; a snapshot holds no more than was applied. Histories name the
excepted entries exactly, so anything else missing would violate it. `StoreInv` says what a half-done call relies on:
which purge point counts, how `log_last` relates to the entries before it is written, what a builder carries
while entries are applied beside it, and that what is committed and not applied is in the log or was taken by a torn cut. `RegistrySafe`: registries that bootstrapped and folded alike are equal, a change is
committed at most once, one answered ok was committed, a transfer has one receipt at most, in order. `RegistryInv`
has five parts: the counts, "the registry is the fold of the entries since its bootstrap"
(`HeldInv`), what each call's state says of the committed entries, whom a process may believe to lead,
and the numbers of the transfers.

A fold over a sequence is a recursive function of the number of elements folded, and what it computes
is shown with a set in place of a predicate: the set of the prefixes for which a fact holds is the
whole interval (`IntervalInduction`, `PrefixRecursion` in `NatSetTheorems`).

`SimulatorSafe` and `SimulatorSteps` from `SimInv`. The shard map is a list of
consecutive ranges from slot 0 on, whatever the layout, the bias and the rebalances since, so each slot has one
owner; and the lag noted for a follower bounds what it misses of the entries clients appended. The lag
itself is too small once a barrier is logged after it was computed, so the invariant speaks of client entries, which
no step but `append_entry` adds, and that one brings the lags up to date. Dealing replica sets
(`ReplicaTrue`) and the commit index (`CommitIndexTrue`) are reasoned about once for the handlers that
share them. `CheckLeavesServed` follows from the two halves of a failover: whoever is elected serves and leads
every shard, and a shard that was lost gets an heir among the serving nodes if there is one.

**`ServicesProofs`**: one invariant per service, joined in `ServicesInv` for the behaviours the run checks
(`RecordsSafe`, `RequestsSafe`).

- *Audit log* (`AuditSafe`). What a reader sees says nothing of whose lines were run together, so `AuditInv` holds a
  chronicle: a rising function `end` from lines to appends such that line `n` was made by the appends since
  `end[n - 1]` and up to `end[n]`, each whole append to a finished line has the line that ends with it, and a digest in a
  line is that of one of its appends. As long as nothing is damaged, each line continues the one before and the next append continues
  the last (`Chained`). `VerifiedIsGenuine` follows: a line that verifies shows the payload its digest was made of, hence that of an
  append in its stretch, and stretches do not overlap.
- *Tenants* (`RegistryAgrees`, and with `Authenticate` also `KeyAdmits`). `TenantInv` says for each point of a call what it
  has read and what it still may write, that a key not yet taken is new, that the index holds what the record lists
  (`IndexSound`), and that whoever read an older record is marked as racing, so that its write excuses what it breaks.
- *Provider's keys* (`KeysFresh`): the cached keys are those of the document published at `fetched_at`.
- *Gateway* (`GatewaySafe`). Its statuses and counters agree with the requests under way, counted as a
  set of threads (`CountersExact`). `IndexComplete` needs `ReadCovers`: what a reconciliation has read, with the
  statements other requests are about to reconcile, covers the committed ones, and it works alone (`LockHeld`). What a failed or
  cut indexing or a start leaves out is in `left`, which the next one that reads the statement settles again. `CapHolds` needs that the
  room for a list is counted in occurrences, of which a term may have several.
- *Backups* (`OneScheduler`): a thread exists only once `scheduler_started` was set, which one request at most does.
- *Credentials*: `TokensAreExact`, `IdentitiesAreBound`, `KeysRanked` hold for any credential, without a state. `TokensAreExact`
  failed at first for a token without kid whose signer's key is registered for another algorithm: `Jwks::select`
  takes such a key only when it is alone. `NamedAlone` now says so.

Assumptions: an event has the seven columns and a known outcome, and a cut leaves at least a part of a first field
(`AuditAssumption`), traffic and threads are finite, statements and graphs well-formed (`GatewayAssumption`), the lifetime is a number (`JwksAssumption`),
there is an interval and all are positive (`BackupAssumption`).

**Only model-checked.** `CallsReturn`, `BacklogDrains` and `BackupsRecur` are liveness under fairness. `AnswersExact`,
`OptimizerSafe`, `TenantIsolated`, `ParsedAsWritten`, `FormatsExact`, `ReasonerExact` and `ValidationExact` compare recursive functions
over data, which the code writes recursively and the models with `RECURSIVE` operators, outside what the
installed provers can use. Of `SamplesExact` the arithmetic and base64url recur over digits and stay with TLC;
the rest of it is proved.

## 5. Where the code differs from what one may expect

Met while modelling, and excepted by name in the property concerned. Besides the violated run:

*Engines.* `delete_by_key` writes no log record, so recovery brings the statements back.
`snapshot_with` reads a version and pins it under another lock; a commit in between can prune it, and
reads then answer from genesis. The listing of all named graphs projects staged default-graph triples as
well (`AllQuads`; `storage/application/mod.rs:406`). `DeleteQuad` without a graph acts on named quads
only (`domain/mod.rs:64`). In `RocksDict`: two threads that miss a value give it two numbers; a
`META_NEXT_NODE` written out of order or not at all lets a restart issue a number again, which
`rocks.rs:397` and `2122` say never happens; a collection drops numbers between their encoding and
their staging, and a doomed duplicate takes its value's forward entry along. `load_retained_versions` (`rocks.rs:1128`)
forgets a version whose default graph is empty.

*Updates.* An update whose first log record is refused keeps its staged operations
(`docs/L3-ontolith-parser-query.md:321`). CLEAR/DROP NAMED and ALL list committed quads only. MOVE reads its
source twice (`execute.rs:527`), so what another transaction commits in between is deleted uncopied; MOVE
between the default graph and the tenant's own name for it empties it, because graph references
are compared as written (`501`). DELETE/INSERT is staged solution by solution (`408`), so a later
solution's delete removes what an earlier one inserted. A blank label of an INSERT template is one
node per operation, not per solution.

*Queries.* `bound_term` (`2901`) probes for one representation of a value bound as another, so the
order of patterns decides whether rows are lost; `OptimizerSafe` is therefore stated for stores
without an IRI on both sides. The rule cls-svf1 (`reasoner/infrastructure/mod.rs:1123`) concludes too much.
SELECT DISTINCT is placed below the projection (`sparql_parse.rs` 520-531), so rows that differ in hidden variables stay apart.

*Validation.* `qualified_value_context` (`shacl.rs:1816`) looks for the owner of a property shape by address in the
`sh:property` lists of shapes: for one nested in another it finds none, and the qualified counts are skipped without
a word. Of two shapes that list one property shape, each has its own copy and its own siblings. A `sh:pattern` without anchors matches
anywhere in the text (`2376`), as SHACL says, although the head of the file (`17`) documents a full-string match.

*Raft plane.* Each process seeds its registry at bootstrap (`raft/mod.rs:1027`) and folds what it finds
applied, so one that starts late may hold other nodes. A snapshot may claim a later last applied id or
membership than its data holds (three unlocked reads): installing it drops applied entries, and its membership may be
of an entry behind its end. A build that ends after a snapshot was installed may put an older one back. `install_snapshot`
sets `log_last` to the snapshot's end also when the log reaches past it (`rocks_store.rs` 487-503), so after a
crash the rest is forgotten. A crash inside `delete_conflict_logs_since` leaves `log_last` naming entries that are gone, which the next
process counts among what it stores and may acknowledge; one inside `purge_logs_upto` leaves entries missing behind an
old `last_purged`. A drain that stops at a failed transfer drops those after it, so they have no receipt
(`raft/mod.rs:1330`). `cluster_tick` adds to a counter and stores it in two steps.

*Documents.* Minted labels (`b1`, `rdfxmlN`, `_:n<id>`) can meet written ones of the same name. A Turtle
object `()` becomes a blank node named after `rdf:nil`, RDF/XML collections end in `_:rdf_nil`, nested node
elements read as properties, `xml:base` reaches siblings, whitespace of literals is collapsed. N-Triples
labels with `.` are written but not read, bytes are taken for characters and `\u` is not
decoded. Prefix IRIs are not resolved against the base. In JSON-LD a null item breaks a list's chain,
`@import`ed terms are expanded before local overrides, prefixes depend on key order, `@propagate: false`
applies to keys only, a term's language beats a language map's tag. Rows whose cells are all empty are
dropped from TSV and CSV, an ASK in CSV reads as a header, texts of SPARQL XML results are trimmed although
`sparql_results.rs` 5-9 claims byte for byte, and since `FEDERATION_ACCEPT` names that format, federated literals lose
the spaces at their ends. A LOAD's `Accept` makes a peer answer N-Quads, so named graphs come along; SILENT covers
fetching, not reading; a body cut short is not noticed; an export under enforced tenancy holds each triple twice.

*Services.* The gateway drops what `index_terms` says when it reconciles and when it starts (`app.rs` 170, 868, 898), and what
`remove_terms` says (899): an embedding that fails or a column family that cannot be written leaves committed terms unindexed, or
deleted ones indexed, and the request is answered 200. POST `/semantic/index` answers 500 and keeps the terms before the one that failed
(807). The persistent index counts a term as often as a list of new terms names it (`ai` `rocks.rs` 84-101), so its cap is met early. After
a restart an in-memory index covers only the default graph (160-171); a
late reconciliation after an ingest can index deleted terms again, a full one indexes before it evicts and evicts
what was indexed explicitly, and repeated terms count against the cap. Semantic search, SHACL
validation and materialisation read all tenants' statements. Concurrent backups may be recorded out of
order, and a failed one counts as the last run. A failed fetch of provider keys is an error, although
`oidc.rs` documents that the old set is kept. HS256 tokens ignore `nbf`; an `exp` that is not an integer reads as
absent. `events()` of the audit log returns the file only. In the durable tenant store racing puts leave stale digest entries;
an administrator's update reads the status twice.

## 6. What is left out

*Engines and writes.* Metric counters; the mode of a transaction; tuning and backup files; the raw
accessors of other families; snapshots, checkpoints, key deletes and deadlines on the write paths, where production
code does not use them. `OffsetAssumption`: the manager never issues as many ids as an update counter's offset, as the
code assumes. Rocks batches hold no key deletes, and in the run an index mode outlives restarts.

*Queries and parsers.* Characters, escapes and keyword boundaries of SPARQL; string, date and geo functions, casts,
GROUP_CONCAT; the text of EXPLAIN. The comparison with SPARQL 1.1 leaves out: OPTIONAL filters on outer
variables, unions of three after other elements, SELECT DISTINCT with a projection that hides variables (placed below it, section 5), the hint beside MINUS,
bracketed terms as arguments of paths. Shapes nest up to 6 where the code allows 32.
MINUS, unions, filters, services and grouping are evaluated, but no second definition says what they should answer, but for groups
being a partition.

*Documents.* Decimals and floats, XML and JSON tokenizers, fragments in bases, nested JSON-LD lists; JSON-LD documents are
samples. Media types are sets of the words the code looks for; bodies are cut between terms.

*Cluster.* Learners, addresses, regions, histories for display; a key is its slot; one drain of transfers at a time; openraft goes on
from what the store tells it, a torn call is not resumed, and its start-up may do any part of what it is allowed to; the in-memory store of the test harness and the HTTP framing.

*Services.* Reads of the store and of the index's column family that fail; digests, discovery, JSON texts, connection handling, gRPC, rendering, health and metrics texts. Numbers
are in radix 4 with digits of 3 bits to bytes of 4, so that carries, borrows and overflows happen within three digits.

## 7. Plan

1. An abstract registry for `RaftRegistry` (a set of committed changes) with the refinement, and one for
   `RaftStore` (a log with a commit index).
2. What the folds of `Access` compute (`NumbersExact`, `BytesSurvive`), by induction over digits in the form of `PrefixRecursion`.
3. The routing of cluster requests in the gateway, and the text forms left out in section 6.
