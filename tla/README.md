# Verification of content-pipeline-insider

TLA+ models of the Go program in this repository, their TLC runs and TLAPS
proofs. The program lets an administrator paste a cURL command, calls the
partner's API it describes, shows the fields of the response, and stores a
selection of them as a numbered, immutable *version* of a *pipeline*; a service
renders a version by fetching the partner's answer again and picking the
selected fields out of it.

    cd tla
    tlc -config PipelineStore_race.cfg MCPipelineStore      # one run
    tlapm PipelineStoreProofs.tla                           # one proof module

`PROJECT.json` lists components, runs, mutants, findings, hazards and theorems
and says, definition by definition, which lines of the source each one stands for.

## Inventory

| Part | State | Operations | Talks to | What is hard |
|---|---|---|---|---|
| `internal/pipeline` repository | tables `content_pipelines`, `..._versions`, `..._field_mappings` | CreatePipeline, SaveDraftVersion, GetVersion, ListRecentPipelines, ListVersions | PostgreSQL through a pgx pool | number allocated by SELECT MAX and used in a later INSERT without a lock; INSERTs and COMMITs whose reply is lost; two-query reads; deletes |
| `internal/store` | pool of 20 connections; `render_events` | New, Ping, Close, InsertRenderEvent | PostgreSQL | the pool's limit |
| `internal/fetcher` | one http.Client with kept-alive connections; per call a race of dials | Do, guardedDial, raceDial, drainConns, checkRedirect, CheckJSON | DNS, partners, `security` | goroutines that outlive the call; redirects; DNS that changes; body limit |
| `internal/security` | none | ValidateURL, ValidateHost, ValidateRedirect, IsBlockedIP | DNS | checked address versus dialed address |
| `cmd/renderd`, `internal/api`, `internal/config` | one process, its http.Server, its requests | Load, start, listen, shutdown; health, ready, list, versions, version, render | repository, resolver | signal versus crash; requests under way at the end; error mapping |
| `internal/resolver` | none | Resolve, MissingSecrets | upstream, fetcher, responseparser, schemainfer, mappings | the stored selection against today's answer |
| `internal/mappings` | none | ValidateSet, ValidateAgainstSchema, Apply | schemainfer, jmespath | types, optional and default fields |
| `internal/schemainfer`, `internal/responseparser` | none | Infer, merge, Flatten; Decode | - | elements that differ, nulls and absences; depth bound |
| `internal/upstream` | cache of compiled patterns | BuildRequest, ResolveParameters | secrets | placeholders in path and body; who wins among entries, parameters and credential |
| `internal/curlimport`, `internal/draft` | none | Parse, Redacted; FromImported, MakePathDynamic | secrets | what counts as a credential; a store that fails half-way; repeated edits |
| `internal/secrets` | map behind a lock | Store, Resolve | - | names shared by origins or drafts |
| `cmd/pipelinetry` | one run: options, a made-up name | import, load, render, save, record | all of the above | two transactions per save; killed runs; colliding names |
| `internal/logger`, `cmd/migrate`, `cmd/fetchtry`, `cmd/curltry` | - | - | - | nothing of their own to check |

What makes each part correct, and the hazards found at each line, are the
`hazards` of `PROJECT.json`.

## Modules

| Module | Models | Composed with |
|---|---|---|
| `VersionLog` | what the tables promise: per registered pipeline an append-only log of whole, valid recipes | abstract specification of `PipelineStore` |
| `PipelineStore` | `internal/pipeline/repository.go` and the constraints of migration 000002 | refines `VersionLog` |
| `TrySession` | runs of `cmd/pipelinetry` that import | extends `PipelineStore` |
| `RaceDial` | `raceDial` and `drainConns`, goroutine by goroutine | is one step of `Fetcher` |
| `Fetcher` | `Do`, `guardedDial`, `checkRedirect` and `internal/security` | - |
| `Renderd` | the render service as a process, its requests, `internal/config` and `internal/api` | takes Resolve as a constant |
| `Schema` | `internal/responseparser` and `internal/schemainfer` on documents | - |
| `Mappings` | `internal/mappings` | extends `Schema` |
| `Rendering` | `internal/resolver` and `CheckJSON`: a recipe and an answer give an output or an error | extends `Mappings` |
| `Serving` | the service over real recipes and answers | `Renderd` and `Rendering` |
| `Upstream` | `BuildRequest` and `ResolveParameters` as operators | - |
| `DraftImport` | a command on its way from Parse to BuildRequest, several drafts on one secret store | extends `Upstream` |
| `MC...` | small instances | - |
| `...Proofs` | theorems | each extends the module it is about; `TrySessionProofs` also `PipelineStoreProofs`, `RequestProofs` also `DraftImportProofs`, `ServingProofs` also `RenderdProofs` |

A definition whose comment starts with *Mutant* is a plausible bug, put in place
of the definition after it to see that a property notices; no specification uses it.

### PipelineStore

A save is a client call (`call`) driving a transaction at the server (`tx`). The
two are separate because they part: a context may expire, or the process die,
while the transaction, COMMIT included, is still in the server's hands
(`GiveUp`, then `CommitLands` or `LoseTransaction`). In the same way a CreatePipeline
call (`creation`) parts from its INSERT (`insertion`), which may put the pipeline in
after its caller was told that it failed. One action is one round
trip to PostgreSQL with what the Go code does on its reply:

| Code of CreatePipeline | Action |
|---|---|
| the arguments | `RefuseCreate` |
| no connection in time | `FailCreate` |
| the INSERT leaves for the server | `SendInsert`, when `held` leaves a connection free |
| the server runs it | `InsertLands`, or `InsertRefused` by the column's width or the unique index on the lowered name |
| its reply, 23505 apart | `CreateReply` |
| the caller gives up; the statement is lost | `GiveUpCreate`; `LoseInsert` |

| Code of SaveDraftVersion | Action |
|---|---|
| arguments, `json.Marshal` | `StartSave` |
| `pool.Begin` | `Begin`, when `held` leaves a connection free |
| `allocate` SELECT, `Validate` | `Allocate`, `AllocateMissing` |
| INSERT of the version | `InsertVersion`, `InsertVersionFails`; disabled while `InsertBlocked` (the UNIQUE index makes the statement wait for an uncommitted key) |
| the mapping batch | `InsertMapping`, one row each |
| `tx.Commit` | `SendCommit`, `CommitLands`, `CommitReply` |
| the deferred Rollback | `Fail` |

Statements run READ COMMITTED: a SELECT sees `rows`, never `pending`. GetVersion
is two queries, `ReadVersion` and `ReadMappings`, each on its own snapshot, and
`ReadFails` where either of them, or the decoding of what it found, fails. The
listings are the operators `VersionCount`, `LatestVersion` and `FieldCount`. `Published`, what
a reader of the tables finds under each pipeline, is the refinement mapping to `VersionLog`. Pipelines are deleted by
nobody in Go; `DeletePipeline` is an operator's SQL with the cascade. A save
makes one version row at most, so its identity is also the row's UUID, and a
pipeline's is that of the CreatePipeline call that inserts it; a retry is another call.
Recipes are reduced to what decides a save: is the upstream complete, can it be
marshalled, who is the author, and the sequence of fields, of which some are
malformed (Validate refuses them) and some refused by a column type only.

### TrySession

A run goes `resolving`, `creating`, `saving`, `recording`, `done`. `CreateFor`
and `SaveFor` start PipelineStore's own calls, with the name that
`NameOf` makes up from host and second, and with the pipeline just created, and
`CreateEnds` and `SaveEnds` go on with what they return.
`Killed` may come between any two steps and leaves the statement in flight to the server.
What Resolve answers is a choice,
except that it refuses a selection that ValidateSet refuses. A run of which the command
line selects nothing ends well at discovery (`SelectsNothing`): without a `-map`, and also
with one of blank entries, of which parseMappings makes a nil slice, `-save` or not. Runs with `-load`
only read and are left out here.

### RaceDial

One process per address (wait its stagger, dial, send), the caller, and
`drainConns`; the channel is a sequence. Time is abstract: a stagger ends at any
moment, a dial answers or fails at any moment, and the caller's context may be
cancelled at any moment.

### Fetcher

Calls of `Do` share `idle`, the kept-alive connections. DNS may answer anything,
something else at each lookup; no address stands for a failed lookup. The
redirect check and the dial each look up again, as the code does. net/http is
modelled by what Do relies on: it follows a redirect that `CheckRedirect` lets
pass, calls `DialContext` unless it has a kept-alive connection to the same
place, and gives every error of either back wrapped. The table of reserved
networks is the constant `Class`; the rules about it (scheme, port, literal
address, *any* blocked address poisons the name, the loopback exemption) are
operators. `MaxBytes + 1` is taken to fit an int64.

### Renderd

`proc` goes `loading`, `connecting`, `serving`, `draining`, `exited`; the
listener's goroutine has its own place, and so has every request (`reading` and `selecting`
wait for the database, `resolving` for the partner). main's select is two actions, both enabled when the
signal and the listener's error are there. A handler is `Arrive` (routing, the
number, devOnly), `Read` (its query, for a version the first of GetVersion's two),
`Select` (the second, then MissingSecrets and the building of the request)
and `Respond` (the partner's answer and Resolve); the database may fail at any
query. Whoever is being served when the process ends is `lost`. Versions are
saved by other processes meanwhile (`Save`), and only those that could be
rendered when they were saved, as pipelinetry does, and an operator may delete the
pipeline (`Delete`), between a handler's two queries too: the second then finds no rows, and
the version is one with a nil selection (`Unselected`). How a version's row is
written is PipelineStore's subject; here a stored version is one value. Requests for a
path that is not routed, and the lines of the request log, are left out.

### Schema, Mappings, Rendering, Serving

A document is a function from its positions, sequences of keys and of indexes into
arrays, to what is there; scalars have no value except that a number keeps what its
text tells (has a point or an exponent, fits 64 bits, fits a float). A tree is a function
from paths to nodes, a path being the sequence of its keys with `Item` for "[]". `inferValue`,
`merge`, `clearSelectable` and `Flatten` are the functions of the
same names: what their recursion does node by node is said of all paths at once, and
`Described` goes from a position's parts to the position.

In the code a path is an expression of JMESPath. The text that joinJMES makes is another
for every other sequence of keys, so ValidateAgainstSchema, which compares texts, is
modelled on paths. What jmespath reads from the text is another matter, since joinJMES
does not escape backslashes: `ReadAs` gives the key that a key's text is read back as, or
`Unreadable`, and `Search` follows the path it is read as (`Reading`). `Applied` is one
mapping's turn in Apply, with the error of an expression that does not parse.

`ResolveAnswer` is Resolve after the request was built. With a nil selection it stops after
discovery and succeeds with `NilOutput`, `"output": null` on the wire; an empty selection that
is not nil is refused by ValidateSet.
`Serving` gives these to Renderd's constants and states what a render promises
against a reference (`ValuesAt`, `ThereAt`, `Describes`) that reads the document itself, along
each way a path takes through it, and knows nothing of merging. What it says of nulls goes
both ways, each as far as it is true of the code: a null that is there makes its node
nullable, and a node is nullable only where a value is null or not there. That a value
that is not there makes its node nullable is not said, since it need not (see the end of
*Disagreements*).

### Upstream and DraftImport

`Upstream` is BuildRequest as a function of configuration, parameter values and
store: `BuildErrors` is the first stage with an error, `Outcomes` each request that may come out,
for where Go's map iteration decides between two parameters with one name on the
wire there are several. A body is a function from its positions to their values. A header's
format is put around the credential by the constant `Formatted`, and a query entry without a
source counts as static (`Sources`), as the code has it.

In `DraftImport` a command is a sequence of options. `Paste` is Parse and the start of
FromImported; `Keep`, `Lift` and `StoreFails` are one round of its loops each, so that
two drafts converted against one store interleave and the store may fail at any
of its calls; `ConvertBody` ends it; `MakePathDynamic` may come any number of times; `Build`
is BuildRequest with the examples or with other values. `Redacted` is what the command prints
before the conversion and `Texts` what a configuration holds after it; both have the path and
the body too, which redact.go and convert.go keep as they are. `Joined` tells whether several
data options make one document with & between them. `Load` starts from a
configuration written by hand, which has the parameter types and places that an import never makes.
Texts are strings, and what the program does to them is a constant of the module
(`Lower`, `Decode`, `Normalized`, ...) with a table in the MC module.

## Runs

| Run | Instance | What it shows |
|---|---|---|
| `store_race` | 3 saves, 2 pipelines, pool of 2, a good recipe, one whose second row fails, one with a field twice and one that cannot be marshalled; 2 names and no tenant | versions are 1, 2, 3, ...; each is whole and valid; listings agree; a returned save is durable; an error that names its cause saved nothing |
| `store_reads` | 2 saves, 2 reads, one connection, one deletable pipeline, fairness | reads whole; a returned save is found; no number is used twice, not after a delete either; conflicts have a winner; refinement of `VersionLog`; every save returns |
| `race_dial` | 4 addresses, 2 of which hang, fairness | one winner or an error, no leaked socket, no blocked sender, an end, and no waiting for a hanging address |
| `fetch` | 2 calls sharing connections, 3 addresses of each class, 5 kinds of URL, bodies of 0 to 2 bytes for a limit of 0, fairness | no connection to a refused address, hops checked, no body cut short, nothing held, the call returns without a timer |
| `try_session` | 2 runs, 2 seconds, one pipeline deletable; names that differ in case, are blank or too long; a recipe, one without an author and a selection of nothing | a run saves only into its own pipeline; done means saved, or that nothing was left behind; a name that was called a duplicate is one; an event names a saved version |
| `serve` | 2 requests, 2 versions, a pipeline that may be deleted, 15 recipes of which 12 are each refused by another check, 8 answers, 3 keys that are not read back as they are written, MaxDepth 5, MaxArraySamples 2, fairness | every request that is answered is told a status; a clean exit left nobody unanswered; a version renders as it was saved; production is guarded; a 200 holds what was promised, or nothing of a pipeline that has gone; the tree tells the truth; a signal ends the process |
| `import` | 2 drafts on one store; one gets every one of 2 URLs with up to 2 of 11 options, each unusual option, and data that is a document only when joined, the other a command with a header and a query parameter of one name; 2 segments made dynamic; 6 configurations written by hand with 6 sets of values | no credential leaves by what is looked at; references are a draft's own; the request is the one pasted; values fill their place and nothing else |
| `fetch_toomany`, `try_names`, `serve_keys`, `serve_optional`, `import_twice` | those of the runs above, or smaller | the five disagreements below |

The bounds are enough because: two transactions are needed to conflict over a
number and a third to meet a committed number while another is pending; a pool
smaller than the number of saves makes `Begin` wait; a second pipeline shows
that numbers are counted per pipeline; two reads and a delete are what a
repeatable read needs to fail. Four addresses give a winner in the middle with
a result already in the channel, one still dialing and one still staggered. A
body may be at the limit, one over and two over, and MaxRedirects has the
code's value. Two requests for one number, with a version saved between, are what
`SameVersionSameResult` needs to fail. Of the three names with backslashes each is read back
as the next and the last as none, so a selection may lead to another field, to nothing, or not
parse. The answers hold an array of each kind of
difference the merge distinguishes, with a third element beyond the samples, and a
document at the depth bound and one level over. Two options meet every pair that
Parse or BuildRequest treats together (two headers of one name, -G with data, -u with
a login in the URL, -X with a body); a third is the URL, bare or as `--url`.
The proofs remove the bounds from the safety properties listed below.
`CHECK_DEADLOCK FALSE` everywhere: when all calls have returned, the process has exited
or every draft is built, nothing is left to do.

### Fairness

- `PipelineStore!FairSpec`: goroutines run (weak fairness of a save's next
  request and of the reply to an INSERT); the server runs an INSERT, answers a COMMIT and notices a closed connection; the pool
  hands a freed connection to the longest waiter, which pgxpool does in order of
  arrival, hence strong fairness of `Begin` and of reads. No context need expire.
- `RaceDial!FairSpec`: goroutines are scheduled and staggers fire. A dial to an
  unroutable address need only end once cancelled, so `HangCostsNothing` does
  not lean on DialTimeout; `EventuallyQuiet` adds `DialsTimeOut`, which
  `net.Dialer.Timeout` justifies.
- `Fetcher!FairSpec`: DNS and servers answer, in whatever way. The client's
  timer is not assumed to fire, so `DoReturns` is about redirects alone.
- `Renderd!FairSpec`: weak fairness of `MainStep`: main goes on when its select or
  Shutdown may, and the timer of ten seconds fires. Handlers need not make progress: their queries have no deadline
  but the client's connection.

## Proofs

TLAPS checks the safety properties for every value of the constants. In each
module an inductive invariant is shown to hold initially and to survive every
action, one lemma or step per action, and the theorems follow from it.

**PipelineStoreProofs**, from `StoreAssumption`. The properties are not inductive.
`IInv` adds how far call and transaction have come relative to each other
(`Stages`), that only a commit moves a row into `rows` (`RowStates`), that what
was validated stays valid (`Validated`), that a deleted pipeline never comes
back (`NoReturn`), how a CreatePipeline call and its INSERT stand to each other
(`Creations`), and the two facts that carry the numbering: a key pending or
ever committed belongs to one save (`KeysUnique`), and below an allocated number
of a live pipeline every number is committed (`NoGaps`). An INSERT keeps
`KeysUnique` because the index makes it wait for a pending key and refuses a
committed one; a key of a deleted pipeline cannot recur since `NoReturn` says
the pipeline will not. Proved: `TypeOK`, `PoolBound`, `VersionsContiguous`,
`NumberNeverReused`, `VersionsWhole`, `SavedIsDurable`,
`NamedErrorSavesNothing`, `ConflictHasWinner`, `NoOrphanVersions`,
`DuplicateIsTrue`, `ReadIsWhole`, `ReadsAgree`. `DuplicateIsTrue` is more than what the index
refuses: `Creations` follows the calls whose INSERT lands after they were given up,
and says that whoever was refused met the row of another call, also once that is deleted.

That the tables are a log takes one fact more, `Numbered`: the numbers of a pipeline's
committed versions are those from 1 to some n. It is what `VersionsContiguous` says in
the form that a commit can be shown to keep, since `NoGaps` puts the new number right
above the committed ones. Each step of the store is then one of the log or changes nothing of
`Published`: `CommitLands` appends, an INSERT into `content_pipelines` registers, a delete
removes. Proved of this: the refinement `ImplementsVersionLog`; of the log, `OnlyGrows`
(what is published of a pipeline stays the beginning of what is published later, until the
pipeline is deleted), and so of the store; `ListingAgrees`, by counting the rows with a bijection; the
action property `SavedIsFound`.

**TrySessionProofs**, from `SessionAssumption` too. `RunsUseTheStore` shows that
every behaviour of the runs is one of `PipelineStore`, so all of the above holds
of them. `InStep` relates a run to its CreatePipeline call and its save; `OwnPipeline` needs it,
because a save that is still open can only find its pipeline without versions if no other
run's save targets it, and `DoneMeansSaved` does, for a run that ended well without a
save has never sent an INSERT that could land later. Proved: `SessionTypeOK`, `OwnPipeline`, `DoneMeansSaved`,
`EventsNameSaved`.

**RaceDialProofs**, for any number of addresses. `Accounts` says every result is
sent once and read once; it makes the drain's count exact. Proved: `TypeOK`,
`NoLeak`, `OneWinner`, `ErrorMeansNone`, `NeverBlocks`.

**FetcherProofs**, from `FetcherAssumption`. `Judged` (the addresses a dial chooses
from were judged) carries `OnlyAllowedAddresses` past changing DNS; `Counted`
and `Connected` carry the rest. Proved: `TypeOK`, `OnlyAllowedAddresses`,
`OnlyCheckedURLs`, `HopsCapped`, `WholeBody`, `NothingHeld`.

**RenderdProofs**, from the three assumptions of `Renderd` and for any `Resolve`
that is a function of recipe and answer. `Stages` says what the process and its
requests may be doing together, which is what a clean exit needs; `Routed` that a
listing in production and a bad number never get to wait; `OfVersion` that a request
works on the stored version of its number, or on that without its selection if the
pipeline was deleted between its two queries (`Emptied`), and was answered by what this
makes of the partner's answer, from which two requests' agreement follows. Proved: `TypeOK`,
`CleanExit`, `ProductionGuarded`, `SameVersionSameResult`.

**DraftImportProofs**, from `StoredAssumption`, for any drafts, commands and texts.
`RefsAreOwn` is not inductive, for the store holds other values while a draft has two
headers of one name. `Ordered` says that what is still to convert comes after what was converted,
and `Held` that each reference of a draft yields the last value converted under its
name; a reference names its draft, so other drafts do not disturb it. `Started` and
`Lifted` say that a configuration's entries stand for what the command gave. Proved: `TypeOK`,
`RefsAreOwn`.

**RequestProofs**, from three assumptions more. `PathAssumption`: paths are sequences of
texts, and so is what decoding a text makes. `CommandAssumption`: a command is a sequence of options,
and data without text is no document. `TextAssumption`: the allowed methods are in upper
case, `Authorization` is `authorization` in lower case, a placeholder is recognised as one, is not empty,
and differs from those of other names. The tables of the MC module meet them, and TLC
evaluates them on every run of it. The proof needs what FlattenSeq yields
for sequences of any length, and that of the entries under one name there is a last. Both are shown by
induction over the natural numbers in first-order form: a set that holds 0 and with n holds
n + 1 holds them all, and a set of numbers that is not empty has a least one. These follow
from the library's theorem that < is well-founded on Nat.

- `NoCredentialLeaves` needs that what a configuration has beside its entries was copied
  from the command (`Copied`): the method, the base, the body, the names of its
  parameters, and a path of which every text comes from one of the command's, or from a
  placeholder, by reading it any number of times (`ReadFrom`, closed under reading).
- `FilledInPlace` needs that paths stay sequences of texts (`Paths`) and that nothing
  changes a configuration once it is built (`BuiltLast`).
- `SameRequest` needs, for each draft, what is left of its command at each point of the
  conversion: `Origin` (method, base, and that the parameters are names given to
  segments), `BodyKept`, `LoginKept` (the credential of the draft yields the command's
  login), `Arranged` (the entries are forms of what was converted, in an order in
  which the last header of a name is still the last) and `PathKept` (with the examples in
  their places the path is the one that was pasted). `RefsAreOwn` and `Held` of the invariant
  before give each reference its value again.

**ServingProofs**, for any documents, selections and bounds. `SchemaAssumption`: MaxDepth is
a natural number and MaxArraySamples one above zero. `StepAssumption`: "[]" is no key,
and neither is an index. `ReadingAssumption`: each key is read back as a key, or cannot be read. `ServingAssumption`: an answer's document is one (`IsDocument`), a
selection is a sequence whose defaults are scalars and is not nil as it was saved, and Renderd's
Resolve is `ResolveAnswer`; TLC evaluates all four in the runs of `MCServing`.

- What holds of a position if it holds of its parts holds of all positions (`ClimbUp`), for
  the depth is bounded: it is shown by taking the deepest position that it does not hold of.
  That a tree is well defined (`TreeExists`), and the two facts below, are shown this way.
- `Tells` is stronger than what is to be shown, as it must be to survive merging: where a tree has no node
  the path leads to null only, for a node that one sample lacks is taken from the other.
  `MergeTells` says that two trees that tell the truth of two sets of values merge to one that tells it of
  their union, `MergeAllTells` that any number do, and `AllTold` that every position's tree
  tells the truth of what each path leads to from there on (`SeenBelow`).
- That a null makes its node nullable goes along the same way up, in a chain of its own
  (`AllNulls`, from `NullsTold` of each position's parts), since it is about the values that are
  there and not about those that are missing.
- What may be selected is another matter (`AllPickable`): below an array nothing, since the flags are
  cleared after merging, and elsewhere scalars. There a path leads to one value
  (`OneValue`), which is the one that jmespath finds if the path is read back as it was
  written (`Legible`); of one that is not, nothing is promised but its type and, if it is required, that it is there.

Proved: `TreeIsTruthful`, which says of any document what `TreeDescribesAnswer` says of the
answers of a run; the same of any number of samples merged (`SamplesAreDescribed`), which the program
offers and the service does not use; `TreeDescribesAnswer`; `RenderedAsPromised`, which
takes from `IInv` of RenderdProofs that a render's answer is what its version makes of
the partner's, and adds that one that ended with 200 has had an answer (`RenderAnswered`).

Model-checked only: the liveness properties (`SaveReturns`, `EventuallyQuiet`,
`HangCostsNothing`, `DoReturns`, `SignalEnds`), since TLAPS does not reason about fairness.

## Disagreements between the code and what it says

Each but the last paragraph's has a run that TLC ends with a counterexample.

1. `redirect_validator.go:25` counts the first request as a hop: of the three
   redirects that `MaxRedirects` speaks of, the third is refused as "more than
   3" (`fetch_toomany`).
2. `infer.go:171` escapes the quotes of a key and not its backslashes. The field
   passes ValidateAgainstSchema, which compares texts, and Apply looks it up under another key:
   the render answers 200 without it although the partner sent it (`serve_keys`).
3. The name that `saveToDB` calls unique by construction repeats within a second
   (`try_names`).
4. `resolver.go:99` checks the selection against the one answer just fetched, before
   Apply. A field that is optional, or that has a default, fails the render when the
   partner leaves it out or sends null, although Apply and `model.go:119` say it
   may be missing (`serve_optional`).
5. `convert.go:165` takes the example from the template, so a segment made dynamic
   twice has the first parameter's placeholder for the second one's example, and the
   first parameter stays required without a place (`import_twice`).

Seen and not given a run:

- `client.go:169` flattens the cause with `%v`, so the sentinels that `errors.go` promises
  for refused addresses and redirects cannot be found with errors.Is. `Fetcher` has it so:
  a result has its `cause` and, apart from it, the errors it `is`.
- `merge.go:74-76` says that a field "present in one sample only" is kept "but nullable".
  That is done for one that an earlier element lacks; a field that only earlier elements have
  goes through lines 63-66 and stays as it was. `Adopted` and the second case of `merge` are
  these two, and `Describes` says of a missing value only what holds of both.
- `pipelinetry -save -map ","` passes the check of `main.go:102-103`, "-save requires -map: a
  version with no fields cannot render anything", and exits with 0 having saved
  nothing. `DoneMeansSaved` states what is left of the promise.
- `repository.go:203-205` says that two queries "cannot observe a partial" version. With the
  pipeline deleted between them GetVersion returns a version without fields, of which a
  render makes a 200 with `"output": null`. `ReadIsWhole` and `RenderedAsPromised` state the
  exception.
- Redacted (`redact.go:7`) is "safe to serialize outward" and a draft "safe to persist", yet a
  credential in the path or the body is in both as it is. `NoCredentialLeaves`
  excepts these two places by name (`Verbatim`).
- pipelinetry records no event for an attempt that failed, although `render_events` is said to
  hold one row per attempt.

What the models leave open because nothing in the repository promises
otherwise: `SameRequest` excepts a path with escapes (the path is kept decoded and parsed
again), names of parameters with escapes or slashes in them, braces in a pasted path (a
literal `{id}` turns into a placeholder once another segment is made dynamic under that
name), a segment made dynamic twice, a slash at the end of a path that is made dynamic, an Authorization header given
together with a login (applyAuthentication wins), and all but one of the values
of a query parameter given several times (entries are set, not added). A number such as
`+5` passes ResolveParameters and is refused when a body is written. A pipeline's
parameter named `version` cannot be given to a render. A configuration's TimeoutMs is
not used by Resolve.

## Not modelled

- `Tokenize`, the splitting of a command into words: quoting character by character.
- The parsing of pipelinetry's flags and of `-map`, the printing of trees and pages, the
  request log and `internal/logger`: output and wording.
- `cmd/fetchtry` and `cmd/curltry`: one call each and its result printed.
- The applying of migrations, TLS, HTTP framing and the write timeout of the server:
  external code, in which time plays a part that the models abstract from.
- The table of reserved networks: data.
