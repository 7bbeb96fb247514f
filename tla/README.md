# Verification of apiwatch

`apiwatch` detects drift between an API and its contract. It keeps contracts in
a lock file (`api.lock`): *declared* ones taken from OpenAPI documents and
*observed* ones inferred from recorded JSON bodies. This directory holds TLA+
models of the program, the TLC runs that check them on small instances, and
TLAPS proofs of the properties that hold for every instance. Paths below are
relative to the repository; `main.rs` stands for `src/main.rs`.

## 1. The system

| part | code | state | operations |
|---|---|---|---|
| commands | `main.rs` | none across runs; a lock in memory during one | `init`, `lock`, `lock --update`, `record`, `verify`, `verify --all`, `diff`, `coverage` |
| lock document | `lockfile/mod.rs` | `ApiLock`: version, three declared maps (route-only, v3, v4), one observed map | `load`, `render`, `new_v4`, `replace_declared_v4`, `record_observed`, `select_verify_target` |
| file writing | `lockfile/atomic.rs`, `fs::write` | `api.lock`, temporary files | create without clobbering, replace by rename; truncate and write |
| observed shapes | `observed/mod.rs` | `Shape` with observation counts, threshold | `infer`, `merge`, `apply_map_annotations`, `compare`, tiered report |
| capture | `har.rs`, `remote.rs` | groups of bodies, skips | filter and group HAR entries, fetch |
| OpenAPI loading | `openapi/mod.rs`, `openapi/identity.rs` | resolver caches, expansion count | reference resolution with cycles and budget, `allOf`, canonical names |
| comparison | `diff/mod.rs`, `contract/mod.rs` | none | `diff_contracts` and one function per part of an operation |
| declared payload | `lockfile/v3`, `lockfile/v4` | table of schemas by hash | intern, expand, validate, digest |
| policy | `config.rs` | none | discovery, ignore rules, severity overrides, exit code |
| output | `output/mod.rs` | none | text, JSON, SARIF |

How they interact: every command is one process that runs to its end and shares
nothing with others but the file `api.lock`. `lock` goes OpenAPI loading ->
payload -> lock document -> file; `record` goes capture -> shapes -> lock
document -> file; `verify` reads the file, picks the entry, and compares either
two contracts (then policy decides the exit code) or a shape with a body.
There are no threads, callbacks or messages inside the program.

What is hard:

- **Two commands on one file.** Nothing locks `api.lock`. Each writer loads,
  computes and writes; `init` and `record` truncate the file in place.
- **Interruptions.** A kill or a full disk between truncation and the last byte
  leaves an empty, unparsable or cut file; a cut text may still load.
- **Sequences of commands** that take a lock through format versions 1 to 4,
  where rendering writes one of three declared maps.
- **Merging shapes** in any order, with unions, counts, thresholds and maps that
  may be declared late.
- **Caches in the resolver**, whose results depend on what is on the stack.
- **Partial failure** in `verify --all` and in a HAR import.

What makes each part correct:

- commands and file: a reader sees a whole lock or an error; exit 0 means the
  effect is stored; a command that fails changes nothing; nothing recorded is
  forgotten; damage is never overwritten.
- lock document: what is held in memory is what its text loads as; migration
  loses no entry; a name has one provenance.
- shapes: the summary of the bodies whatever their order; a recorded body
  verifies; a missing field is reported exactly when its history requires it.
- capture: every entry is recorded once or listed as skipped; a captured
  endpoint, asked as it was captured, verifies against a server that has not changed.
- resolver: a reference becomes an unfolding of what it names whatever was cached
  before; every component an operation reaches is shown; resolution ends and is
  paid for within the budget.
- comparison: no change is silent; a contract does not differ from itself; the
  request and response directions are dual.
- payload: expanding what was interned gives it back; tampering is refused.
- policy: ignoring and overriding only change what their rules name; the exit
  code is monotone in the changes.

The full list of hazards, each with its line, is in `PROJECT.json`.

## 2. Modules

| module | models | notes |
|---|---|---|
| `LockDocument` | `ApiLock`, the text of the file as a `Document`, `load`/`render`, every operation on a lock in memory, the calls a HAR import makes, and what a cut or overwritten text loads as | pure operators; a contract is an opaque value, a shape the set of bodies merged |
| `LockStore` | processes running commands on the file, one action per step | state machine |
| `LockRegister` | the abstract promise: a register of documents with atomic operations that may be damaged by an interruption | abstract specification |
| `LockSerial` | the refinement mapping from `LockStore` to `LockRegister`, and properties of serial use | |
| `ObservedShape` | `infer`, `merge`, map annotations, `compare_at`, the tiers | recursive operators, TLC only |
| `ObservedContract` | one observed entry recorded into and verified, with the recorded bodies as history | state machine |
| `Capture` | HAR files, path identities, `--name`, `--from-url`, the `verify --all` loop, a service that changes and a network that fails; the lock is that of `LockDocument` | state machine with fairness |
| `OpenApiText` | the text stage of `load_contract_text`: what YAML is rid of, 3.1 rewritten to 3.0, and (external) what `openapiv3` makes of it | recursive operators over trees |
| `SchemaNormalize` | `normalize_schema` without references: composition, `allOf`, nullability, enums | recursive operators |
| `ContractTerms` | identities of authentication schemes, changes and their severities, requiredness | the vocabulary of every comparison |
| `ContractSchema` | the contract's `Schema`, policies, what a structural key is made of, the order of branches | one level of a schema |
| `SchemaTree` | a set of normalised schemas with all that is inside them, and their depth | constants and what is assumed of them |
| `SchemaKeys` | `structural_key`, `shape_key` | recursive operators |
| `SchemaDiff` | `diff_schema` with everything it calls; the reports and keys of inner schemas are its constants `DiffOf`, `KeyOf`, `ShapeOf` | one level of a schema |
| `ContractDiff` | `diff_contracts` with servers, authentication, parameters, bodies, responses; the report of two schemas is a constant, as in `SchemaDiff` | pure operators |
| `SchemaValues` | which JSON values a schema's reader accepts and its writer may send | the reference the comparison is judged by; one level of a schema |
| `SchemaRecursion` | `diff_schema` and the meaning of schemas at every depth: `SchemaDiff` and `SchemaValues` with themselves in the places of their constants | recursive operators |
| `SchemaPromises` | what a report of `diff_schema` is to promise, and the gaps it is known to have | constants, what is assumed of them, and statements about two schemas |
| `SchemaEvolution` | versions published, verified and locked one after the other; how a version is loaded is its constant `Loaded` | state machine over `SchemaPromises` |
| `TextEvolution` | the same of texts of OpenAPI documents, and what a text says itself | `SchemaEvolution` with `OpenApiText` and `SchemaNormalize` |
| `ContractBuilder` | `normalize` of a document: path items, parameters of two levels, bodies, responses, security, servers, references with cycles, canonical identities | pure operators |
| `SchemaTable`, `LegacyTable` | the payload of an entry of version 4 and 3: interning by hash, expansion, validation, digest | one level of a schema; a table is expanded by a recursive function |
| `VerifyPolicy` | `.apiwatch.yaml`: discovery, ignore rules, severity overrides, limits, exit code; scoping by selectors | pure operators |
| `DeclaredVerify` | `lock` and `verify` of a declared API from the document to the exit code | state machine composing `ContractBuilder`, `ContractDiff`, `SchemaPromises`, the tables and `VerifyPolicy` |
| `SchemaResolver` | `SchemaResolver` of `openapi/mod.rs`: recursion, visiting set, caches, external files, budget, pre-scan | state machine |
| `SchemaExpansion` | what the resolver's trees must be, by the reference graph of the document | statements about graphs and paths, without recursion |
| `Optional` | the value `None` | |
| `LockDocumentProofs`, `CaptureProofs`, `SchemaResolverProofs` | theorems of the modules they are named after | §4 |
| `LockStoreProofs` | theorems of `LockStore` and `LockSerial` | §4 |
| `ComparisonProofs` | theorems of `ContractDiff` and `VerifyPolicy`, and what `diff_schema` is worth for two schemas | §4 |
| `EvolutionProofs` | theorems of `SchemaEvolution` | §4 |
| `DeclaredProofs` | theorems of `DeclaredVerify` | §4 |
| `NaturalFacts` | a set of numbers has a least one, a finite one a largest and an increasing listing | lemmas the others cite |
| `MCLockStore`, `MCObservedContract`, `MCCapture`, `MCTextEvolution`, `MCDeclaredVerify`, `MCSchemaResolver` | the values TLC runs with | |

How they hang together: `LockStore` treats a declared contract as an opaque
value and a shape as the set of merged bodies. `DeclaredVerify` and
`TextEvolution` look inside the contract, `ObservedContract` inside the shape.
`Capture` uses `LockDocument` as it is, and its "a body conforms if it was
recorded" is the property `RecordedBodiesVerify` of `ObservedContract`. The
resolver is apart because its question, what a cache hands out, needs steps.

**State and actions of `LockStore`.** `file` is what the bytes at the path parse
as: `absent`, `whole` (a rendered text), `torn` (parses, but no command rendered
it), `empty` or `garbage`. `proc[p]` is a process: the phase of its command, the
command, the lock it holds in memory, the index of the next `record_observed`
call and its exit status. One action per step that another process could get
between: reading the file (`UpdateLoad`, `RecordLoad`, `InitCheck`, `Verify`),
each `record_observed` call, filling the temporary file, the rename
(`PersistNew`, `PersistReplace`), truncation, a first part of the bytes, the
rest of them. `inputs` says whether what a command reads besides the file is in
order: the OpenAPI document, the HAR file or body, the configuration, the headers.
If not, `RefuseInput` ends a `lock` or `record` before it writes anything, and
`Verify` ends in an error, as it does for want of the file or of the entry
(`main.rs:402-410`, `:510`, `:549`). What those parts compute is a parameter of
the command. `WriteError` and `Kill` are the faults. A rename over a file that
another process holds open turns that process into an `orphan`: its bytes go
nowhere and it still exits 0. Where two in-place writers meet, the file is any
of either text, a mixture that parses (`Overlay`), or garbage. A text cut short
parses as its first entries and what is left of the entry at the cut (`Cuts`): an
observed one may have lost part of its shape, and then its threshold line, or
digits of that line; a list of routes its last ones. A payload of version 3 or 4
has a digest over all of it, so a part of one does not load.

**State and actions of `ObservedContract`.** `shape` and `threshold` are the
entry, `recorded` the bodies so far (the lock does not keep them; properties
compare with them). `RecordNew` and `RecordMerge` take a group of bodies (one for
`--from-json`, several for a HAR endpoint) and a list of `--map-at` paths.
`Verify` is an operator: it changes nothing. Scalars have no value, keys are
numbers, thresholds are tenths (for the counts in reach the float comparison
`observations / parent >= threshold` is the integer one).

**State and actions of `SchemaResolver`.** The recursion of `resolve`,
`resolve_external` and `normalize_schema` is a stack of calls; `visiting` is the
set of their keys. A key is a bare name for a component of the resolver's own
file and a path with a name for another file's, as in the code. `caches` has one
`normalized_schema_cache` per resolver: an external file's resolver starts with
a copy of its caller's (`Push`) and is dropped when the call returns (`Return`).
The step at the next reference is one of: cut a cycle, take a cached schema and
charge its size, fail, or enter the component and charge its node. An expanded
schema is a function from its paths (the positions taken from the root) to what
stands there, a component or a cycle reference; a call holds the references of its
component, the one it has come to and the schema so far, to which `Resolved` grafts
one reference after the other, and `Size` is `schema_node_count`. A failure
unwinds every call; the pre-scan drops it while the count is at most two thirds
of the budget. `doc` is chosen from `Documents`, which is all the input there is.
Files that do not exist and URLs are failures like a missing component; operation
schemas are references (an inline one is charged a node and is otherwise the
same); parameters, bodies and responses are resolved without a cache and left out.

**State and actions of `SchemaEvolution` and `TextEvolution`.** A family is the set
of versions of one document; `version` is the one published. `current` is its
normalised schema, or an error: any of the outcomes in `Loaded(version)`. `Publish`
replaces the version, `Verify` computes the report of the locked against the current
schema, `Update` locks a version whose report has nothing breaking. `source` and
`clients` are history: the version that was locked, and the schema the team began
with. In `TextEvolution` a version is a text, a tree of mappings, lists, words and
truth values marked as YAML or JSON, and `Loaded` is `Outcomes`; where the code goes
through `allOf` members in the order of their hashes, there is an outcome for every
order.

**Recursion over schemas.** `diff_schema`, `structural_key`, the hash of a schema in
a lock and the meaning of a schema recur. What they make of one schema from the same of its inner schemas is
written without recursion, with the latter as constants, so that theorems can be
stated of it; `SchemaKeys` and `SchemaRecursion` close the recursion, and the runs
use these. The report of inner schemas has places counted from where it was made;
`Under` puts it in its place. In `DeclaredVerify` the same holds of what a document's
schema becomes (`SchemaOf`), of what is inside a schema (`Nested`) and of the hashes of
version 4 and 3 (`IdOf`, `IdOfV3`): `MCDeclaredVerify` closes them. Branches of a
schema are in the order of their structural keys, wherever it comes from: the loader
sorts them so (`openapi/mod.rs:1821`) and so does the expansion of a lock
(`v4/schema.rs:392`, `v3/schema.rs:360`).

**State and actions of `DeclaredVerify`.** A case fixes what may be published
(`docs`), selected, configured and edited. `Publish` changes the document,
`Configure` the configuration files, nearest first, `Lock` builds the contract,
scopes it by `--operation` selectors and stores it in the format of version 2, 3
or 4 (older formats as an older release wrote them), `Edit` changes a version 4
entry by hand: a node of the schema table is replaced, dropped or added, a
reference is moved, the scope widened, and the digest is left or computed again.
`Verify` loads and validates the entry, builds and scopes the current document,
compares, applies the configuration and sets the exit code. `lockedDoc` and
`edited` are history. A document is `[paths, schemes, security, servers, ...]`
with references by name; its schemas are those of `ContractSchema` already
(`TextEvolution` is about how they come to be). A hash is the value hashed. What
cannot be built is told by a predicate (`ValidParameter`, `ValidBody`, ...). A
reference that leads in a circle is an error for a path item or a scheme
(`Follow`); for a parameter, body or response it is cut to a cycle reference at the
name it comes back to (`End`, `CycleTo`), as `visiting` does. The
default response of an operation is in the document and in no contract (`Statuses`).

**State and actions of `Capture`.** `service` maps a request (method, path, query,
host, content, headers) to its present answer; `Serve` changes one. A HAR entry is
filed under method and path (`OwnKey`), or under a path identity above it, or under
`--name`, which may look like any other name, `GET /users` included (`Asked` is what
a name is split into). `Sent` is the request of `--from-url`, with the headers of
the command; `Target` the one `verify --all` makes of a name: to the base URL,
without a content. `ResponseIsJson` goes by the media type or by a path that ends
in `.json`. `Browse` adds an answer to
`har`, `NewCapture` starts another file. `ImportNamed` and `ImportKeyed` are
`record --from-har` with and without `--name`, `RecordUrl` is `--from-url`; each
is atomic here since `LockStore` has the interleavings. `verify --all` is a run
with a step per entry: `StartVerifyAll` loads the entries, `FetchNext` fetches the
next one in the order of names, whatever the service answers then or no answer at
all, `Conclude` sets the exit code. `origin` and `changed` are history.

## 3. Runs

`tlc -config <run>.cfg <module>`; deadlock checking is off in all of them because
every behaviour ends when the bound on commands, bodies or operations is reached.

| run | question | bounds |
|---|---|---|
| `LockSerial` | do the commands, one at a time, with faults anywhere, implement the abstract register? is exit 0 only given for a stored effect? is anything forgotten? | 1 process, 5 commands out of 13, 2 names, 6 initial locks of versions 1-4 |
| `LockFamily` | with `lock`, `lock --update` and `verify` interleaved and interrupted, is the file ever torn, does a verify ever miss an entry that is there, does an old lock lose an API in its migration? | 2 processes, 5 commands |
| `LockRaces` | with every writer interleaved and interrupted, are locks in memory always well formed, does rendering lose anything, is damage final? | 2 processes, 4 commands |
| `ObservedPlain` | is the shape the order-free summary of the bodies, does `verify` judge by their history, is everything it does not enforce in a tier? | up to 4 bodies of 14, groups of 1 or 2, thresholds 0, 0.5, 0.7, 1.0 |
| `ObservedMaps` | with map annotations on any command: are shapes canonical, is merging monotone, do recorded bodies verify? | up to 3 bodies of 10, 5 lists of paths |
| `Resolver` | is what operations refer to an unfolding of the document, with no cycle cut where it need not be? is every node paid for? does every resolution end? | 3 components in one file (725 documents) or 4 in two (336), 2 operations, budget 15 |
| `TextEvolution` | does a text mean in the contract what it says? does a report without a breaking change leave every exchanged value readable, over several versions too? is silence sameness? | 11 families of 2 to 20 texts: scalars, fields, key policies, depth two, unions, `allOf`, 3.1 types and places, metadata names, moved sections; 52 values; both usages |
| `DeclaredVerify` | do requests of old clients still work when nothing is breaking? is silence sameness? does the lock lose anything, accept what it would not write, refuse what it wrote? do old formats invent changes? is every exit 0 explained by the configuration? | the cases of `MCDeclaredVerify`, each a handful of documents about one part of an operation, with formats 2 to 4 |
| `Capture` | does each captured body end up in the right entry? is the exit code of `verify --all` true, silent without change, and always reached? | the scenes of `MCCapture`; captures of 2 entries, 3 recorded bodies |
| `UpdateRace` | violated: two `lock --update` of different names, one entry is lost | 2 processes, 2 commands |
| `HiddenChange` | violated: with A and B referring to each other, an operation that uses B never shows A | one file, 1 operation |
| `SilentLoss` | violated: a property called `tags` changes its type in a YAML document and nothing is reported | one family of 2 texts |

Why the bounds are enough: the interesting situations need a lock with one or
two entries, a second command between the two halves of a first one, and a third
that meets what they left; five commands in sequence are enough to create,
record, merge, migrate and read back. A field becomes required at three objects
(`MINIMUM_OBSERVATION_FLOOR`), so four bodies cross the floor with every ratio
from 1/4 to 1. Two keys and two levels of nesting give unions of objects, empty
collections and maps of maps. Three components are enough for a cycle that is
entered from outside, for an alias into it and for a component reached twice;
four in two files for a chain that leaves the document and comes back. The two
files of `Resolver` share no name, because a component of an external file is
replaced by the document's component of the same name (see below): `NamesApart`,
which TLC evaluates for every document of the run and which is the hypothesis of one
theorem (§4).
With a budget of 15 some documents exceed it in the pre-scan, some in an
operation and most never. A rule of the comparison looks at one node of a schema
and at its direction, so schemas of depth two in both usages apply every rule at
the root and under a field, an item, a key policy and a branch; three versions in
a row (any number is allowed) are what it takes for a name to go and come back.
The values have the declared names, an undeclared one, both numbers and every
kind, so two schemas of a family that differ are told apart by one of them.
Two HAR entries are enough for two endpoints or for one endpoint twice, two
identities for one that is a prefix of the other. Every action fires in the
passing runs.

**Fairness and liveness.** `LockStore`, `ObservedContract`, `SchemaEvolution`,
`TextEvolution` and `DeclaredVerify` assume no fairness and no liveness is claimed of them: a command
waits for nothing but the operating system, and an interrupted command simply
stops. `SchemaResolver` assumes weak fairness of its own steps: the loader is one
thread that runs until it returns. `ResolutionEnds` then says that recursion over
any of the documents terminates. `Capture` assumes weak fairness of `FetchNext`
and `Conclude`: every request has a timeout (`remote.rs:71`), after which the loop
goes on. Nothing is assumed of the service, the network or the user.
`VerifyAllEnds` then says that `verify --all` ends however often they act.

### Known gaps

Some properties of `TextEvolution` and `DeclaredVerify` except situations in
which the code is known not to see something. Each is a definition of its own, so
that what is excepted can be read:

- `EnumGap`: an enum that appears where there was none counts as values added
  (and one that disappears as values removed), which is safe in the wrong
  direction (`diff/mod.rs:553`).
- `CycleGap`: two cycle references are equal whatever they point at
  (`diff/mod.rs:514`).
- `TextGap`: what is lost between text and schema: required names that the
  `properties` next to them do not have (`openapi/mod.rs:1721`), `properties`
  without a type, all types of a list but the first, all of `prefixItems` but the
  first, `not` and the `false` schema, a reference inside `allOf`, and in YAML
  every property with the name of metadata (`openapi/mod.rs:124`). A reference in
  `allOf` may come back as the cycle reference it meets, whose target the
  intersection drops.
- `AuthGap`: the alternatives of a security list become one map
  (`openapi/mod.rs:912`), so an alternative that is gone counts as a requirement
  less; and, in the published document (`Hidden`), of two requirements of one
  identity in an alternative the second is dropped (line 935), and one of a name
  nobody declared takes the place of those before it (line 943).
- `RequestGap`: `EnumGap` or `CycleGap` in a schema of the request; in responses the
  two are excepted schema by schema.
- `LegacyGap`: version 3 does not give back composed schemas and cycles as they
  were.

### What the violated runs say

Each of them quotes the sentence it refutes in `PROJECT.json`. `UpdateRace` needs
two commands at once; the others need no concurrency. Disagreements between the
code and a document or a test, met while reading and modelling, which have no run.

About the lock and the commands:

- `init` tests `exists()` and then truncates (`main.rs:26`), so it may destroy a
  lock another command has created in between; `tests/cli_record.rs:659` says it
  never overwrites one.
- `record` writes version 2 or 3 locks (`lockfile/mod.rs:552`, `:587`) while
  `docs/migration.md:24` says that writing always produces v4; a build without
  `legacy-lock-format` then cannot read what it wrote.
- `lock` refuses the file `init` has just written (`lockfile/atomic.rs:27`), while
  `docs/migration.md:50` gives the two in a row as the setup of a project.
- With `--name`, a HAR import never merges its first body (`main.rs:257`), so
  `--merge` on an existing name is always refused.
- A `--path-identity` listed after a prefix of its own gets no entry, and the
  import is refused whatever was captured (`har.rs:204`).
- `verify --all` fetches what the entry's name says: a name without a space is the
  path of a `GET` (`main.rs:433`), and the host, the query, the content and the
  headers of the recorded request are in no name (`har.rs:141`, `remote.rs:73`).
  An unchanged service that answers by one of these may be blamed;
  `NoAlarmWithoutChange` allows an alarm for these reasons only.
- `record --from-url` does not use the headers of the configuration
  (`main.rs:336`), which `verify --all` does.
- A configuration file that does not parse is dropped (`main.rs:660`); the
  phase-3 design, line 196, says "No silent ignoring of misconfiguration".
- An omitted limit is 0 (`config.rs:88`) where the phase-3 design says warnings
  are unlimited by default (line 189); the severity `non-breaking` becomes a warning
  (`config.rs:200`).

- A `lock --update` that reads the file while a `record` has half written it may
  find a text that loads with one entry; the migration of that one is allowed, and
  its rename then drops the entries the record has meanwhile written back
  (`main.rs:226`, `lockfile/mod.rs:449`). This is the same missing lock on the file
  as in `UpdateRace`, and the reason why `MigrationKeepsDeclared` is claimed of
  `lock`, `lock --update` and `verify` only.

About shapes:

- An array of mixed items does not match the lock it was recorded into (the
  phase-4 design, line 251, says a document matches itself), and once an array has
  held a null item it accepts items of any kind.
- Fields of a map's value objects that the lock lacks are never reported as
  unverified, since a body is never inferred as a map (`observed/mod.rs:303`).
- An object merged into a union that holds a map becomes a second variant instead
  of going into the map (`observed/mod.rs:455`).
- A field that is not hardened is compared strictly unless its shape is null
  (`observed/mod.rs:501`); the phase-4 design says it accepts any shape.
- With threshold 0.0 every field seen three times is required
  (`observed/mod.rs:358`); the phase-4 design says all are optional.

About contracts:

- A property that one member of an `allOf` requires and another declares is
  optional (`openapi/mod.rs:1721`); the phase-2 design, line 117, says
  "requiredness is the union of required property names".
- A component of an external file is replaced by the document's component of the
  same name (`openapi/mod.rs:1351`).
- Of two requirements of one identity and different scopes the second is dropped
  (`openapi/mod.rs:935`); the phase-2 design, line 149, says they are "rejected as
  ambiguous".
- A webhook is moved among the paths, where a name without a leading slash makes
  the document be refused (`openapi/mod.rs:211`, `:540`); the phase-3 design,
  line 118, has webhooks as pseudo-operations.
- `$defs` are moved but references to them are not rewritten, so they fail
  (`openapi/mod.rs:187`, `:1373`); the `false` schema accepts anything; 3.1 is
  rewritten in YAML only, so a JSON document with a type list is refused, while
  `README.md:84` names both.
- Numeric widening and a response field that becomes optional are breaking;
  `docs/change-rules.md` lists them under "Warning".
- An OAuth2 scheme without flows builds, but a version 4 lock of it is refused.
- The default response of an operation is never read (`openapi/mod.rs:645`, `:739`):
  it is in no contract, and a change to it is not reported. `docs/change-rules.md`
  does not name it. `PassedServesOldClients` and `SilentMeansSame` are said of the
  responses of listed statuses, which are all a contract keeps.
- A circle of references between request bodies or responses is no error: it becomes
  an `application/json` content with a cycle reference (`openapi/mod.rs:1146`,
  `:1181`), and so would one of parameters, which is refused only where its name is
  that of no placeholder (`:1107`, `:687`). `docs/change-rules.md:147` says that
  "circular schema/parameter/response/request body/security scheme/path item
  references" are input errors; of these only schemes and path items are.
- A server variable keeps its label in the contract (`openapi/identity.rs:113`,
  `:230`), so renaming one removes a server and adds another;
  `docs/change-rules.md:76` says that "server variables are compared by placeholder
  position, not source label".

## 4. Proofs

`tlapm LockStoreProofs.tla` proves, for every set of names, contracts, bodies,
thresholds, processes and commands, from the assumptions named in `LockDocument`
and `LockStore` (names are numbers, `None` is not a value, the initial documents
are well formed, commands are well typed):

- `TypeCorrect`: `Spec => []TypeOK`.
- `WellFormedAlways`: `Spec => []LocksWellFormed`. The inductive invariant is
  `TypeOK /\ LocksWellFormed /\ PhaseOK`. `LocksWellFormed` has to speak of the
  file as well as of memory, because a command starts from what it loads, and of
  the torn texts, because a cut or mixed text may be loaded. `PhaseOK` ties the
  phase to the command (a `persist` is a `lock` or an `update`; an idle process
  holds the empty lock).
- `NothingLostByRendering`: `Spec => []RenderLosesNothing`, from the above and
  from the lemma `RenderLoad` (`load` inverts `render` on well-formed locks).
- `DamageStays`: `Spec => DamageIsFinal`, an action property, by one step per
  action under the invariant.
- `RenamesKeepFileIntact`: if the commands are `lock`, `lock --update` and
  `verify` only, `Spec => []FileStaysIntact`. Its invariant adds that no process
  reaches an in-place phase.
- `MigrationKeeps`: for the same commands, `Spec => MigrationKeepsDeclared`. Its
  invariant `MigrationOK` says that what is to be renamed is of version 4 and, while
  the file is older, that an update's lock has every API declared in the file: it
  was computed from this very file, since nothing older is ever written.
- `VerifyReads`: for the same commands, and when the initial locks are of a format
  the build can select from, `Spec => VerifyReadsEveryLock`: a verify whose own inputs
  are in order (`inputs`) fails only where there is no file or no such entry in it.

`tlapm SchemaResolverProofs.tla` proves, for every set of documents, files and
names and every budget, from `ResolverAssumption` and `DocumentAssumption` (the
references and bodies are typed, an alias has one reference):

- `TypeCorrect`: `Spec => []TypeOK`.
- `CallsAreDistinct`: `Spec => []CallsDistinct`: the keys on the stack are distinct
  and no component is on it three times, so the recursion is no deeper than twice
  the number of components. Twice it may be: a component that another file refers back
  to has a bare name there and a path key (`openapi/mod.rs:1217`, `:1307`).
- `BudgetHolds`: `Spec => []WithinBudget`.
- `CountIsCovered`: `Spec => []CountCoversNodes`.
- `ResultsAreUnfolded`: `Spec => []ResultsUnfold`, if `NamesApart` holds: no file
  refers by a bare name to a component that another file has too. Without it the
  statement is false of the code, which looks up a component of an external file
  under its bare name in caches copied from the document (`openapi/mod.rs:1351`).

The first three come from one inductive invariant, `Inv`. `StackOK` adds that the resolvers
of the calls are numbered up the stack and that each caller still waits for a
reference; `CachesOK` that there is one cache for each of them, so that a return
finds its caller's. The budget needs the sizes in calls and caches to be numbers,
which is carried through every copy (`CallOK`, `CacheOK`), and that an alias
returns exactly one schema.

`CountCoversNodes` speaks of results only; `PaidInv` adds the nodes that wait in the
calls in progress: a return moves nodes down the stack, a cached copy is charged by
its size before it is grafted, and a cycle reference is no node.

`ResultsUnfold` is about whole trees, which are put together from pieces that were
built under other stacks. `UnfoldInv` says of every call that its tree is the
unfolding of its component as far as the call has come (`Partial`), that each caller
waits for the component above it (`StackUnfolds`), and of every cached tree that it
unfolds its key (`CachesUnfold`), in the document if the resolver is the document's.
A place is cut only where `visiting` has its component, and the calls of the stack
are a path of references, so that component refers back to itself
(`VisitingOnCycle`). The clause that makes it inductive is `CutOK`: a call that has
got a bare cycle reference stands for a component from which aliases alone lead to
one on the stack below it (`AliasesInto`); at the root there is none below, so only
aliases of each other are left. No induction over trees is needed: a tree is a
function of paths, and reachability is membership in every closed set.

The second half of `LockStoreProofs` proves what `LockSerial` states, from the same
assumptions and from `Serial` (a command starts only when no
other is running, which is what `LockSerial.cfg` sets; without it all three are
false, see `UpdateRace`). Kills and failing writes are included at every step.

- `SerialImplementsRegister`: `Spec => ImplementsRegister`, the refinement: initial
  states map to initial states of `LockRegister` and every step to one of its
  operations or to a stutter.
- `SerialForgetsNothing`: `Spec => NothingForgotten`.
- `SerialOkMeansStored`: `Spec => OkMeansStored`.

They rest on `SerialOK`. `OneAtATime` makes the file what the running command has
read. `ProcessOK` then says for each phase what the lock in memory is in terms of
that file: before call `n` of a `record` it is what the first `n - 1` calls, all
allowed, make of the lock it started from (`RecordedSoFar`); a lock to be renamed
is the one `lock` or `lock --update` computes from the file (`Built`, `Updated`);
once the file is truncated, what it may hold is the lock in memory or a part of it,
and that lock has all the command was asked to store. Without it a step that writes
could not be related to the register's operation, which computes and stores at once.
The register applies all calls of a `record` in one step. `AfterCalls` says in
closed form what a sequence of calls makes of a lock, and `LockDocumentProofs`
proves that it is what the loop makes: `AfterCallsZero` before the first call, and
`AfterCallsStep`, that one more call is `RecordObserved` on what the others made.

`tlapm CaptureProofs.tla` proves, for every service, scene, table of names and
bound, from the assumptions of `LockDocument` and from three of `Capture`:
`KeyAssumption` (the name of an entry is the method and path of its key, so
different keys have different names, `main.rs:433`), `AskedAssumption` (the name of
a key is split into this key, without a query) and `CaptureAssumption` (a request
that has a method has a key, one that is fetched has no content, `None` is no
document, and the scenes are about requests and keys there are):

- `IdentitiesAreMostSpecific`: `Spec => []MostSpecificIdentity`.
- `NamedEntriesAreCoherent`: `Spec => []NamedEntryIsCoherent`.
- `VerdictsAreTrue`: `Spec => []VerdictIsTrue`.
- `NoFalseAlarm`: `Spec => []NoAlarmWithoutChange`: a service that has not changed is
  blamed only where an entry holds the answer to a request other than the one made of
  its name: of another name, with a query or a content, to another host or with
  other headers.

The inductive invariant is `CaptureOK`. `EntriesOK` says that every entry of the
lock has exactly the bodies that `origin` lists for its name: the properties speak
of what was recorded, the code decides by what the lock holds. `OriginOK` says of each recorded body that its request is
one of the service's and, if an import without `--name` recorded it, that the
entry's identity is above the request and no listed identity above it is longer:
the import accepts no list where an identity follows one of its prefixes
(`har.rs:204`), and of two identities above one request the shorter is above the
longer, so the first that matches is the longest (`FirstIsLongest`). `RunOK` says
of a run of `verify --all` that it goes by the entries on disk, that those it has
fetched and has left to fetch are among them, and that its flags and its exit
status are what the bodies fetched so far make true. `Unchanged` says that, as long as
`changed` is false, what was captured, recorded and fetched is what the service
answers; the false alarm is excluded by it. A HAR
import makes its calls from a function of sets of positions, which `Groups` types.

`tlapm ComparisonProofs.tla` proves what the comparison of contracts is worth, for
any two contracts and without a word about schemas: `SchemaChanges`, what compares
two schemas at a place, is never expanded.

- `NothingBreakingKeepsClients`: where `DiffContracts(old, new)` has no breaking
  change, `ContractKept(old, new)` holds: no operation is gone, and of each the old
  servers are there, every requirement of the new side is met by one of the old of
  the same scheme with at least its scopes, all parameters, bodies and media types
  are still taken and nothing is required that was not, success responses stay and
  every response comes in known media types. Of two schemas it says that
  `SchemaChanges` has nothing breaking between them, at the place of the schema.
- `SilenceMeansSame`: where the report is empty, `ContractSame(old, new)` holds, the
  same with equality in place of inclusion.
- `SameIsSilent`: the report of a contract against itself is empty, if it has no
  known identity twice (`IdentitiesDistinct`, `openapi/mod.rs:935`) and
  `SchemaChanges` is silent of its schemas against themselves (`SchemasSilent`).

The first two have no hypothesis but the one named. They make exact what the report
leaves to the comparison of schemas, which comes below; the
exceptions named under "Known gaps" are in how a document becomes a contract or
inside a schema, and not in this part. The argument about authentication is the one
that is easy to get wrong: requirements go together by identity first and by name
among those left over, so a name may be in two pairs, and a requirement in none has
to be reported.

It also proves of the configuration and the exit code:

- `ExitIsExplained`: for every finite report and any configuration files whose
  limits, where written, are numbers, the exit code computed from the report is
  `Explained` by the files. `DeclaredVerify!PassIsExplained` says the same of each
  verify; the theorem is about the operator it states.
- `ExitIsMonotone`: of two finite reports one of which includes the other, the
  larger one has no smaller exit code under the same rules.
- `CleanVerifyKeepsClients`: where no configuration applies, `ContractKept` holds
  between the locked contract and the published one after a verify that exits 0,
  whatever the scope of the lock. It puts `NothingBreakingKeepsClients`, the scope
  and the exit code together.

The rest of `ComparisonProofs` is about two schemas, and `tlapm EvolutionProofs.tla`
proves with it what a report of `diff_schema` is worth, for every set of schemas,
however deep, every set of JSON values and every family of versions. The assumptions
of `SchemaPromises` and `SchemaEvolution` say what their constants are: the schemas
are normalised ones with all that is inside them (`SchemasAssumption`: one record
shape, a known policy for additional properties, branches only where composed, items
only in arrays and no properties there, targets only of cycle references, and a
number for the depth that is smaller inside), versions load to such schemas or to an
error, values are JSON values with all that is inside them, and
`RecursionAssumption`: the report, the keys and the values of inner schemas are those
of schemas. On schemas of finite depth these equations leave one choice for each
constant, the recursive operator; TLC evaluates all of them on the schemas and values
of `TextEvolution` and of `DeclaredVerify`.

- `VerifiedSchemasAreSafe`: `Spec => []VerifiedIsSafe`.
- `OldClientsGoOn`: `Spec => []OldClientsWork`.
- `SilentSchemasAreSame`: `Spec => []SilentIfSame`.

Safety of two neighbouring versions does not make a chain safe: a value that is
written for the first version and read by the second need not be one that is written
for the second. The invariant therefore carries `Fits`, which is stronger and
transitive: in a request whatever the old schema's *writers* may send the new one's
writers may send too, in a response whatever the new schema's *readers* accept the old
one's readers accept. `NothingBreakingFits` proves by induction on the depth that a
report without a breaking change means `Fits`, where neither gap is inside the two
schemas; `PartsSuffice` says what that asks of properties, items, policies, enums and
branches, and `PropsFit`, `ItemsFit`, `AdditionalFit`, `EnumFit`, `TargetsFit` and
`BranchesFit` that the report gives it. Branches go together by equal keys or by
shape, so `EqualKeysCarry` is needed: schemas of one key admit the same values. That
`Fits` implies safety needs `WritesAreRead`.

`SilentIfSame` is in two halves because the two keys differ: an empty report means
equal keys with the targets of cycle references left out, for the comparison does not
look at them (`CycleGap`); but equal keys *without* targets do not give an empty
report, since branches are paired by their full keys: a `oneOf` of two cycle
references whose targets have changed has branches removed and added. Equal full keys
do give an empty report.

Together with `NothingBreakingKeepsClients` this covers the comparison as a whole:
that theorem reduces a report on contracts to `SchemaChanges` on the schemas in them,
and these say what it means that those are not breaking, or empty. `DeclaredProofs`
puts them together.

`tlapm DeclaredProofs.tla` proves what a lock of a declared API and a verify against
it are worth, for all documents, schemas of any depth, selections and edits. From `DeclaredVerify` and the
modules below it come the assumptions: `SchemasAssumption` as above, the hash of a
schema is that of its node (`HashesAssumption`, `LegacyAssumption`: SHA-256 has no
collisions, and the names under which version 3 stores branches differ),
`UnpolicedAssumption` (a schema without its policies, which is what version 3 gives
back, is compared as any schema is),
`CasesAssumption` (documents are built of the schemas there are, leave nothing open
that a contract has a place for, have lists where lists are and an identity for each
scheme they declare, and formats are 2, 3 and 4), `RequestsAssumption` (what a request
carries are values), `UnknownAssumption` (the identity of a scheme nobody declared is
an identity) and `EditsAssumption` (a node with its nullability turned around is the
node of a schema). TLC evaluates each on every document, schema and request of the run.

- `LocksLoseNothing`: `Spec => []LockLosesNothing`.
- `AcceptedLocksAreCanonical`: `Spec => []AcceptedIsCanonical`.
- `WrittenLocksAreLoaded`: `Spec => []WrittenLocksLoad`.
- `OldClientsAreServed`: `Spec => []PassedServesOldClients`.
- `SilentContractsAreSame`: `Spec => []SilentMeansSame`.
- `OldLocksAreQuiet`: `Spec => []OldLocksInventNothing`.

The invariant `VerifyInv` says that an entry nobody edited is what lock wrote of the
locked document, that any entry of version 4, edited or not, is one of hashes of
schemas (`EntryForm`), and that a verdict is that of the lock, document and files as
they are (`Outcome`): every action that changes one of them drops it. The rest is
about tables. `IdsApart` says that schemas with one hash are one schema, by induction
on their depth. `ExpandsBack` says that in a table whose nodes are all there, each under
its hash, every hash expands to its schema; this needs that the recursive function
`Expanded` exists, which is shown by exhibiting it. `RoundTrip` follows, and the
converse, `AcceptedIsBuilt`: what is validated of a table (every node is under its hash,
none is missing and none is unreached) is all there is to being written by lock.
`TableIsValid` says of any hashes that refer to what is inside that the table of all
that is nested in some schemas is valid, and serves versions 4 and 3 alike.

`OldClientsAreServed` and `SilentContractsAreSame` go from the document to the report.
`FullVerdict` takes the report from the lock to the two contracts (this is where
`LocksLoseNothing` is needed), `NothingBreakingKeepsClients` and `SilenceMeansSame`
from there to the parts of an operation, and `NothingBreakingFits` and
`SilentKeysAreSame` into the schemas. What is left is between a document and its
contract. The default responses are not read, and neither theorem speaks of them; of
the rest only authentication is lossy: a document has alternatives of lists of
requirements, a contract has one map. `AuthDistinct` says that no known identity is
in that map twice, without which equal authentications would not have an empty report.
`FirstIsAsked` says that, nothing being hidden, what the first alternative asks for is
in the map as it was asked for; `StillMet` that credentials that satisfied the one
alternative of the locked document then satisfy the first one of the published
document. This is why `AuthGap` has two sides: more than one alternative is lost in
the locked document, and a requirement is hidden in the published one. What equal
operations are is `Essence`; requirements of a known identity are in it without their
names, and `SameAuthSilent` needs that the pairs by identity and those by name
together leave nothing over.

`OldLocksAreQuiet` needs to know what version 3 gives back, which is not what went
in: `Unpoliced(s)` for a schema `s` with nothing composed and no cycle inside
(`Gapless`, what `LegacyGap` leaves), and for an operation `BackV3`. Two such schemas
of one hash are given back as one (`SameIdV3`), so `ExpandsBackV3` goes as
`ExpandsBack` does. Path parameters go by the names of placeholders and come back
under their numbers: `StoredRoots` and `ParamsBackV3` say that none is lost or put in
another's place, because the names of one path differ and a name tells its number
(`SlotOfName`, from `ValidOperation`). Then `UnpolicedReportsLess`: a comparison that
does not know the policies of the old schema says nothing that one that knows them
would not, by induction on the depth, and `BackReportsLess` says so of operations.
Requirements have lost their identities, so they are paired by name and may be
reported where a version 4 lock would not; of a document that has not changed they
are not (`AnonymousAuthSilent`).

Only model-checked, and why:

- `ResolutionEnds` and `VerifyAllEnds`: liveness under fairness.
- Everything about shapes and texts (`ObservedContract` and the two properties of
  `TextEvolution` itself): these are written with recursive operators over data, as the
  code is, and the prover has no induction over data.
- `RespellingsAreSilent`: that two documents say the same in other words is a fact
  about the documents of a case, which TLC builds one by one.
- `PassIsExplained` of a run; its content is `ExitIsExplained`, which is about the
  report of any verify, if it is finite.

The induction over a number of calls, of positions or over the depth of schemas that
the proofs need is done on the least counterexample (`LeastNumber`, `Shallowest`).

## 5. Left out

Not modelled, and why:

- `replace_declared` for v3 (`lockfile/mod.rs`): no command calls it.
- `output/mod.rs`: text, JSON and SARIF rendering of a report, without state.
- clap parsing, packaging, scripts, CI, fuzz targets, the size measurements of
  `lock_size.rs` and the `coverage` command: no state, or no part of the program.
- The spelling of strings: that two media types, server templates, URLs or paths
  are the same is an input of the models; how they are parsed and percent-encoded
  is not. The checks of a lock that its strings are in canonical spelling and its
  size is within the byte limit go with it.
- `openapiv3` and `serde_yml` are external: what they accept is modelled as far as
  the normaliser relies on it.
- OpenAPI extensions, which are compared nowhere.
- Timestamps (`first_seen`, `last_seen`): nothing is decided by them.
- Power loss: `fs::write` is not synced; the model's kill leaves what was written.

## 6. Plan

Done: the lock and its file with proofs, shapes, capture and `verify --all`, the
resolver with proofs, the text stage, schema normalisation, comparison with proofs,
building, the payloads of versions 3 and 4 with proofs, scope, policy with proofs, and
their composition.

Left, in this order:

1. The merging of shapes, written like `SchemaDiff` with what is computed of inner
   shapes as a parameter.
2. References inside `allOf` and composed branches in `SchemaResolver`, so that
   its trees and those of `SchemaNormalize` meet.
3. External files that share names with the document, once the cache is keyed by
   file.
