# A verification of groot in TLA+

groot (`code.cloudfoundry.org/groot`) is a framework for image plugins: a
command line with `create`, `pull`, `delete` and `stats` that fetches the layers
of a root file system and hands them to a *driver*, which each plugin brings
along. The modules here model groot's own logic, from the bytes of one layer up
to several processes working on one store, and the programs that its tests rely
on: the sample driver, the fake registry and the generated fakes. TLC checks
them on small instances; TLAPS proves the safety properties of all of them, for every
instance, and for what must end the bounds on its steps.

- [Inventory](#inventory): the system, its state, what is hard about it
- [Modules](#modules): which module models what, and how
- [Runs](#runs): what TLC checks, bounds, fairness
- [Proofs](#proofs): what holds for every value of the constants
- [Not modelled](#not-modelled), [Assumptions](#assumptions), [Plan](#plan)

## Inventory

A process runs one command. For `create` and `pull`, control goes

    Run -> Groot.Create / Pull -> ImagePuller.Pull
             -> Fetcher.ImageInfo -> Source.Manifest
             -> Driver.Unpack --Read--> ondemand.Reader -> Fetcher.StreamBlob -> Source.Blob
        -> Driver.Bundle -> Driver.WriteMetadata

A process has no goroutines of its own; concurrency is between processes, which
share the driver's store, the temporary directory and the files of local images.
(The fakes of the tests are another matter: a server with a goroutine for each
request, and test doubles that are locked because tests may be concurrent.)
The callback in the middle (the driver pulls bytes from a reader that downloads
a layer on the first `Read`) is what makes the order of events inside a process
the driver's choice.

| Component | State it keeps | Operations | Correct when |
|---|---|---|---|
| quota reader (`quotaed_reader.go`) | `QuotaLeft` | `Read` with any buffer | a stream over the quota ends in an error and never in a silent truncation; a stream that fits is whole; no slice out of bounds |
| layer source (`layer_source.go`) | image source, remaining quota; temporary files on disk | `Manifest`, `Blob`, `Close` | files handed out are verified and within the limit in total; failures cost and leave nothing; one image source; retries bounded |
| layer fetcher, blob reader (`layer_fetcher.go`, `blob_reader.go`) | none, but the file under each reader | `ImageInfo`, `StreamBlob`, `Read`, `Close` | chain IDs identify stacks of layers; the file goes with the reader |
| on-demand reader (`ondemand/reader.go`) | the stream, once created | `Read`, `Close` | one stream at a time, closed in the end |
| image puller (`image_puller.go`) | running total | `Pull` | parents first; the store ends up with the image asked for; the size is that of all layers |
| file fetcher (`file_fetcher.go`) | none: reads the path each time | `ImageInfo`, `StreamBlob`, `Close` | no stale file is served |
| commands (`create.go`, `pull.go`, `delete.go`, `stats.go`, `groot.go`) | none: the driver's store | `Create`, `Pull`, `Delete`, `Stats` | the quota given to the driver is what the limit leaves; success means bundle and metadata are there |
| command line (`groot.go`, `config.go`) | configuration, the fetcher, the exit status | `Run` from the arguments to the exit | every failure is told, once; fetchers are closed; all places agree on what a limit means |
| sample driver (`integration/cmd/foot`) | a file of calls per method | the five driver methods | the files list what was called, although calls overlap and are killed |
| fake registry (`testhelpers/registry.go`) | failures asked for, counters, handlers | serve blobs, manifests, tokens | a test gets the failures and answers it asked for; no request waits for ever |
| generated fakes (`fake_source.go` and others) | calls, returns, invocations | each method and its `Calls`, `Returns`, `ReturnsOnCall`, `Invocations` | the records agree; a return goes to the call it was set for |
| driver (external) | volumes, bundles, metadata | `Unpack`, `Bundle`, `WriteMetadata`, `Delete`, `Stats` | left to the plugin |

What is hard to test in this code, with the lines and the properties that watch
them, is listed under `hazards` in `PROJECT.json`. In short:

- *many exits*: `Blob` returns from nine places between the call and the returned
  file, with deferred calls that depend on which one it was;
- *accounting*: one quota is spent by several layers, and is an error at one
  byte over, fine at nothing left, and switched off at a limit of 0;
- *partial failure and retries*: three retry loops, a conversion that downloads
  every layer of a schema 1 image, streams that are created on demand and once
  more after a failure;
- *kills and restarts*: layers already in the store, files nobody removes;
- *stale state*: volumes are found by chain ID only, for ever; local files may
  change between being looked at and being read;
- *other processes*: shared layers, and bundles deleted or replaced between
  `Bundle` and `WriteMetadata`;
- *machine integers*: the declared sizes are summed without a look for a wrap;
- *two programs in one*: control and error messages pass between groot and
  urfave/cli, and each relies on the other for what it has printed;
- *goroutines in the fakes*: counters outside the lock, two locks in two orders.

## Modules

    QuotaedReader          VerifiedSource  <--- implements --- LayerSource
    QuotaedReaderProofs          ^                             LayerSourceProofs
                                 | INSTANCE
                           LayerFetcher     LayerSums
                                 ^ EXTENDS   ^    ^
                           ImagePuller ------+    +------ Groot
                           ImagePullerProofs              GrootProofs
                                 |                          |
                                 +-----> ImageStore <-------+     (implement)

    FileFetcher            CommandLine            Induction (lemmas for the proofs)
    FileFetcherProofs      CommandLineProofs

    Foot      FakeSource      FakeRegistry
    `----- TestProgramsProofs -----'

Each module that has a specification of a component (all but the contracts
`VerifiedSource` and `ImageStore`, and `LayerFetcher`, which is operators) has an `MC`
module and a `.cfg`. Definitions keep the names of the code (`Blob`,
`remainingImageQuota`, `quotaExceeded`); definitions whose comment begins with
*Mutant* are plausible bugs, which the model does not use and which show that
the property named for them in `PROJECT.json` can fail.

**QuotaedReader.** Bytes are counted. `Read(p)` cuts the buffer as
`quotaed_reader.go:25-27` does, lets the delegate answer with any number of bytes
and any error an `io.Reader` may return with them, and decides as the code does.
The caller is any caller, including one that reads on after an error.

**LayerSource.** `pc` names the call the code makes next; the step that takes it
is that call together with all that follows up to the next call that can fail.
Each such step has a sibling that fails (`...Fails`, `...Differs`), with the
deferred calls that run on the way out: `CloseBody` and `RemoveTempFile`. The retry
loops are `attempt` and `Retry`; the ghost `refused` counts, apart from `attempt`, how many
times in a row the request at hand was refused. Contents are abstract; `Length`, `Gunzip` and
equality (for SHA-256) are all the code asks of them. `owned` and `delivered` are
ghosts too: who holds a file, and how much has been handed out. The registry answers
every request with any content and any announced size.

The quota reader inside `Blob` appears as `FitsWhatIsLeft`. That is what
`QuotaedReader` establishes: `io.Copy` gets to the end of a stream that fits with all
of its bytes, and to the quota error for any other (`EOFMeansWhole`,
`OverrunReported`; theorem `CopiesDecide`).

**VerifiedSource.** What a layer source promises: `Deliver` a verified layer that
fits, all at once, and charge for it; `Remove`; `Finish`. `LayerSource` implements
it under the mapping `Promise`, where a file counts once it is handed out, so
that all of `Blob` is stuttering except its last step.

**LayerFetcher** and **ImagePuller.** The fetcher is operators over an instance
of the contract, and the puller composes them with the on-demand reader and the
driver. A chain ID is the sequence of diffIDs it is computed from, which is what
a hash without collisions makes of it. Declared sizes are 64 bit integers, and
`layersSize` adds them as the machine does (`Int64`; `MaxInt` is a constant).
`pc` is between two calls of `Pull`; the driver reads (`ReadCreates`), has the
layer (`UnpackHas`), unpacks or fails at will. `Crash` kills the process at any
point; `StartPull` is the next process, with another image and limit, on the
same volumes and temporary directory. `ImageInfoPanics` is what becomes of an image
that lists fewer diffIDs than it has layers (the index at `layer_fetcher.go:101`) or
one that has no colon (`NotDigest`; lines 107 and 120). `orphans` are the files groot no longer knows of:
those of a process that was killed, and the one that `StreamBlob` loses when the
temporary file cannot be opened again (`layer_fetcher.go:79-83`).

`OthersUnpack` is the other processes, which pull at the same time. They meet this one
in the store only, so the action is a step of `ImageStore` on `volumes` at any moment
of the pull: it may put there the layer that is just being downloaded, or one of
another image on the same base. That pulls keep to this contract is what
`ImplementsStore` says, with `OthersUnpack` among the steps: each process relies on
nothing about the others but what it guarantees itself.

**ImageStore.** What pulling may do to a store: a stack of layers appears, one layer
at a time, on a stack that is there, as some image names it; nothing else appears
and nothing goes. `ImagePuller` implements it with `volumes` as the store, and `Groot`
with its volumes: both are shown to do no more than the same contract, once from
the bytes up, for a process among others that keep to it, and once for the
commands of many processes.

**FileFetcher.** The path changes under the pull: `Replace`, `Touch`, `Remove`, each
with any modification time, also one that was there before. The three looks that
`StreamBlob` takes (`Stat`, `validateImage`, `Open`) are three steps. `oldest` is a ghost: the
first version that had a time.

**Groot.** Processes run the four commands over one store. A step is one call of
`Create`, and `Fails` is an error or a kill anywhere, after which nothing is undone,
as in the code. A pull is its sequence of `Unpack`s; how they get their bytes is the
matter of `ImagePuller`. `disturbed` is a ghost that remembers that another process
has touched the handle.

**LayerSums.** The partial sums of a weight over a sequence, as a recursive
function; `ImagePuller` and `Groot` use them for what sizes should add up to.

**CommandLine.** One process. `GlobalFlags`, `Before`, `CommandFlags` are the parts in
urfave/cli's hands, the others groot's; `Return` and `Leave` are the ways out, the
latter by way of the deferred `Close`. `Pull` (of `ImagePuller`) and `CheckQuota` (of
`Create`, which takes the image's size off the limit before `Bundle`) are steps of
their own, since each decides from its own arguments whether the image counts
against the limit; `pulling` and `charging` keep what they decided, for comparison with
the settings of `fetcher`. Inputs are picked where they are read. `printed`
counts how often the user sees the error: cli prints those of flags and of `Before`,
`HandleError` those that are not silent. That cli returns, prints or exits as
modelled is taken from the vendored library.

**Foot.** A call of a method is an actor, killed at any step. `saveObject` is `Stat`,
`Load`, `Truncate`, `Write` and `Return`, since the file is looked at, read, emptied, written
and closed in separate system calls: a call may be killed, or panic because `Close`
fails, with its list already in the file in full. What a file may contain is a list of calls, nothing (`Missing`) or
something that cannot be decoded (`Torn`). `disturbed` and `written` are
ghosts: calls that overlapped another on their file, and those whose list has been
there in full.

**FakeRegistry.** Sources send requests with up to three attempts; the handler of
each is a goroutine. The mutex is modelled as what holds it. The `failNext` counters
are not under it, so `CheckFailNext`, `ReadFailNext` and `WriteFailNext` are three steps: this is how
a decrement gets lost. `CountBlob` and `ChooseHandler` are under two different locks.

**FakeSource.** The template of the generated fakes by the example of one of them.
A method appends to its calls under its own mutex, records the invocation under
another and takes its return; `Invocations` takes the other mutex first and then those
of all methods.

## Runs

Deadlock is checked in all runs except where the system really stops: `LayerSource`
after `Close`, `Foot` and `FakeRegistry` when all calls are made, and `FakeSource`, whose
goroutines can deadlock in fact (`StuckOnlyCrosswise` says where).

| Run | Question | Instance and why it is enough |
|---|---|---|
| `quotaed_reader` | Does the reader neither truncate nor overrun, for any caller? | quotas from -1 (which a unit test uses), streams shorter than, equal to, one over and well over the quota, buffers from empty to larger than stream and quota |
| `layer_source` | Are layers verified, within the limit and free of leaks, whatever fails? | two layers of different length with their gzip streams; layer infos that are right, of schema 1, with a wrong size and with a wrong diffID; images of schema 2, of schema 1 with two layers, and without layers; limits that one layer exhausts and that two just fit; both schemes, both flags. Two files, so that one is held while another is written. `MaxDelivered` = 4 bounds what may have been delivered when a `Blob` is called: more than any limit |
| `layer_source_live` | Does every call return? | the same with one configuration |
| `image_puller` | Does the store end up right and within the limit, over many pulls and kills, and while others pull? | eight images over two layers: both orders, one layer twice with sizes of -1, a lying diffID, a missing diffID, one that is no digest, declared sizes whose sum wraps, no layers; limits that are too small, exact, and none; `MaxInt` = 7, so that two layers can wrap. Two files, for one that is lost while another is written |
| `file_fetcher` | Is a stale file ever served? | `MaxChanges` = 4 changes, enough to replace, touch, remove and restore around two pulls; three times, so that a time may come back |
| `groot` | Do concurrent commands keep bundles, limits and metadata right? | two processes, one handle, two images with a common base; limits negative, none, exactly the image, one more. Symmetry in the processes |
| `command_line` | Is every failure told, and every fetcher closed? | all ways through one process; log levels known, unknown and empty; limits below, at and above 0 |
| `command_line_printed` | Are errors printed once, as the comment at `groot.go:271` says? *No* | the same |
| `foot` | Do the driver's files tell the truth? | three calls of one method, so that two overlap before or after a third, and calls of two other methods |
| `fake_registry` | Does a test get the failures and answers it asked for? | two sources with a call each of up to three attempts; `MaxFailures` = 3, which exhausts one |
| `fake_source` | Do concurrent users of a fake get their own returns, and where can they get stuck? | two goroutines, two methods, `MaxCalls` = 2 of each; symmetry in the goroutines |

Properties worth naming:

- `DeliveredIsVerified`: a file that is handed out holds the layer its caller
  asked for, unless the image is an OCI one and validation is off. The promise
  holds although sizes are checked or not depending on schema and flag, and
  although the quota cut may come anywhere in the stream.
- `QuotaRespected`, `FailedBlobCostsNothing`: the quota is charged for exactly
  what is handed out, so the limit holds over all layers.
- `RetriesBeforeFailing`: a call gives up on a request exactly when that request has
  been refused `MAX_DOCKER_RETRIES` times in a row: not sooner, for what another
  request of the same call or an earlier layer of a schema 1 image had cost, and
  not later. The count is the ghost's and starts with the request, so a loop that does not start
  again at 1 (`V1DiffIDCountsOn`) breaks it.
- `PulledImageIsRight`: the store serves, under the chain IDs of the image just
  pulled, exactly the stack of layers its configuration names, whatever came
  before and whatever others pull meanwhile. This needs `DeliveredIsVerified` (through the contract), the chain ID's
  dependence on all layers below, and parents first.
- `DownloadsFit`: a pull with a limit never adds more than the limit to the store,
  although the check of the declared sizes can be passed by sizes whose sum wraps
  and by those that are wrong. The second half says that the early check refuses
  every image that declares too much unless a partial sum has wrapped.
- `ParentsFirst`: the driver is asked for a layer when all below it are there, and the
  store is closed downwards: no volume is ever there without those its chain ID
  builds on.
- `ImplementsStore` (of `ImagePuller` and of `Groot`): nothing is ever in the store
  but stacks that images name, built bottom up, and nothing disappears.
- `FilesFollowReader`: a temporary file is under the reader in use or is a known
  orphan.
- `NeverStale`, `UnchangedFileIsServed`: a newer version may be filed under an
  older chain ID, and this never makes a pull serve something older than the
  first version that had the time it saw. If times are not used twice this is
  what the pull looked at; if they are, the code has no other sign of a change
  (`file_fetcher.go:76-79`), and the property says how far it can go wrong.
- `LimitsAreKept`: image and quota add up to the limit, and no bundle with a limit
  gets the quota 0, which a driver takes for none.
- `ReportedCreateIsComplete`: success of `create` means bundle and metadata are the
  caller's own, unless another process touched the handle in between: the code
  has nothing to prevent that.
- `FailuresAreTold`, `LimitsAgree`: a failure has a status and a message whichever of
  the two programs meets it; and the fetcher's settings (`groot.go:246-248`), `Pull`
  (`image_puller.go:142`) and `Create` (`create.go:32`), which each decide for themselves
  whether the image counts against the limit, decide alike.
- `PrintedOnce` (violated): the comment on `SilentError` says that errors which cli has
  printed are not printed twice. An unknown log level is: `Before` returns the error
  of `newLogger` bare (`groot.go:203`), cli prints it, and `Run` prints it again. So are
  the usage errors of flags.
- `ListsAreTrue`, `DamageIsKept`: a file lists calls whose own list was in it in full,
  which a killed or panicking call's may have been. Overlapping calls may lose each
  other's entries and panic on a half written file, and this never costs the entry
  of a call that nothing overlapped, nor makes damage look like a fresh list.
- `FailuresAsAsked`, `HandlerHasItsTurn`: what a test sets up happens exactly so for
  requests one by one, and the failures come first whatever happens. For
  overlapping requests the code gives no upper bound on failures, and none is
  stated: a lost decrement may well exhaust a source's attempts.
- `CallsAreTold`, `StuckOnlyCrosswise`: the i-th return goes to the i-th call; and the
  one deadlock of a fake is `Invocations` against a method.

**Fairness.** `CallsReturn` and `PullsEnd` assume weak fairness of the step of the
running call (`CallStep`, `PullStep`): the calls groot makes return. The code gives
them no deadline (`context.TODO()`), so this is an assumption about registry, disk
and driver. It is not assumed that any of them succeeds. The driver's reads are
not fair: a driver need not read.

`RequestsAreAnswered` assumes weak fairness of the next step of each handler: the
runtime schedules goroutines, and the proxied registry answers or the proxy gives
up. It suffices in spite of the mutex: there are finitely many requests, so no
handler can be overtaken for ever. The sources need not send.

## Proofs

Seven modules prove every safety property that the passing runs check, for
every value of the constants that satisfies the modules' assumptions, and the
refinements too. `PROJECT.json` lists the theorems. Each has the same shape: an
invariant, a lemma for each action that preserves it, `Invariance`, and the
properties as its consequences. The programs of the tests share the module
`TestProgramsProofs`, which extends `Foot` and has the two fakes as instances; since the
assumptions of an instance are not those of the module, the theorems about the
fakes have them as hypotheses (`SourceConstants`, `RegistryConstants`).

*Quota reader.* `QuotaInv` adds to the types the ledger
`delivered + QuotaLeft = quota`, that no more is delivered than the stream has, and, for
each error, what it says of the two.
Without the ledger none of the properties is inductive: `Read` decides by
`QuotaLeft` alone. `TypeOK` includes that the slice of the buffer is within its bounds.
`CopiesDecide` puts together what a caller that reads to the end learns, whatever its
buffers: this is the step from `QuotaedReader` to `FitsWhatIsLeft` of `LayerSource`.

*Layer source.* The invariant is the conjunction of

- `TypeOK`;
- `StageInv`: whether a body is open, a layer at hand and a file under way follows
  from `pc`, which is why every failing exit knows what it must release;
- `DownloadInv`: what the checks passed so far have established of the body and
  the file (the next check relies on it, and `DeliveredIsVerified` on the last);
- `FileInv`: a name is in use for its owner or for the running call, never both,
  and owned files are verified;
- `ConversionInv`: as many diffIDs as layers seen;
- `LedgerInv`: remaining = limit - delivered, at every step and not only between
  calls;
- `SourceInv`: one live image source, or none.

One lemma per action shows that it is preserved; `FailInv` is shared by all
failing exits and `RetryInv` by the loops. `Implementation` proves that `LayerSource`
implements `VerifiedSource`: `InitPromise` for the start and `NextPromise` for the
steps, where the only step that is not a stutter or a `Remove` or `Finish` is
`CheckDiffID`, the last one of `Blob` (`DeliverPromise`). `RetriesComeFirst` has its own
invariant, `RequestInv`: while a request is made, `refused = attempt - 1`. `RequestStep`
proves it, and fails where a loop starts from anything but one.

*Induction.* `ImagePuller` and `Groot` speak of sums and chain IDs of images of any
length. The library's induction theorems take an operator, which the provers
cannot instantiate; `Induction` states induction for *sets* of numbers instead (`SetInduction`,
`BoundedInduction`, from the least number of a set), and with it that the
recursive function of `LayerSums` exists (`SumsExist`) and is what its definition says
(`SumsOf`). Everything later cites these facts.

*Image puller.* The invariant adds to `TypeOK` and `FilesFollowReader`

- `Building`: the layers below the current one are in the store under their chain
  IDs, the total is that of their contents, and the file under the reader has the
  content of the current layer (from `Deliver` of the contract);
- `Volumes`: the stack of a volume is what its ID stands for. Without it a volume
  from an earlier pull could be anything, and no pull that finds one would be
  right: this is the strengthening that `PulledImageIsRight` needs;
- `Ledger`: what was added, what is about to be and what remains are at most the
  limit.

`InfosOf` computes the chain IDs that `createLayerInfos` makes, by induction;
`SumDoesNotWrap` shows that `layersSize` is the true sum if no partial sum is out of
range, for `DownloadsFit`. `StoreImplementation` maps `Unpack` and `OthersUnpack` to `Serve`
and all other steps to stutters. From it `ParentsBuilt` gets its second half: a store
to which layers are only added on stacks that are there is closed downwards
(`Closed`, `ServeClosed`), whoever adds them.

`OthersUnpackInv` is where `Volumes` pays: a volume that another process adds has the
stack its ID stands for too (`OthersUnpackEffect`), so it does not matter who unpacked a
layer, and the volumes a pull stands on stay, since `Serve` removes nothing. The
invariant uses no more of the others than `ImageStore`, and `StoreImplementation` shows
that this process does no more than `ImageStore`. Hence no process is the first to
leave the contract, and all of them together keep to it, whatever their number:
this last step, over the steps of all processes, is made here and not by the prover.

*File fetcher.* `VolumesInv` says that a volume holds no version older than the first
one that had the time it is filed under, `PullInv` the same of the running pull's
chain ID and what it has opened. Together they are inductive: a change can only
give a time its first version, never a later one.

*Groot.* `Stage` says, by the next call of each process, which layers it has pulled and
that the running size is their sum; `Own` that what it has made is there unless it
was disturbed. A step of one process leaves `Stage` of the others alone because the
store only grows, and `Own` because a step that touches the handle disturbs.

*Command line.* `Told`: an error on its way has not been printed before it has
returned, and is printed by then if it is silent. `Fetching`: a fetcher has the
settings of the command from its making to its closing, and what `Pull` and `Create`
have decided is what the command's arguments say. `LimitsAlwaysAgree` follows
because `CheckLimit` has let no negative limit of a `create` pass by then.

*Sample driver.* `Past`: a call that has written its list is past the write, and one
that returned has written it. `Files`: an undamaged file lists calls that have
written their list in full, each once, and all undisturbed ones. `Objects`: so does what a call is about to write, with itself added.
`Overlaps`: two calls at a file disturb each other. The write of one call falsifies
`Objects` of another unless that one is disturbed, which is what `Overlaps` is for.

*Generated fakes.* `Mutexes` says who holds which lock, which is all that
`StuckOnlyCrosswise` needs. For `CallsAreTold`, `Numbered`: the number a call has looked up
under the mutex stays the number of its own call after the mutex is given back,
because calls are only ever appended; and under the mutex it is the last one, so
that the invocations lack just that call.

*Fake registry.* The counters are decremented outside the lock, so no equation
between them and the failures handed out survives overlapping requests. What does
(`FailuresDue`): a lost decrement leaves the counter too high, so that counter and
failures handed out are together at least what was asked for; the same holds of
a value that has been read and not yet written. For requests one by one `OneByOne`
has the equation, and `Attempts` that each attempt but the last cost a failure.
`Turns` counts the answers of a handler as a function of its order and of the
requests so far, less the one that is counted and has not chosen yet.

*What ends.* Liveness itself is out of the prover's reach, but the variants
behind it are not, and they show for all instances why it holds:

- `CallsGetOn`: once a call of the layer source has got its image, each step leaves
  fewer steps or returns; with n layers there are at most 4n + 5, all failed
  attempts included, and a `Blob` has at most nine. While it tries to get the image
  there are at most three.
- `PullsGetOn`: once a pull has its n layer infos, it takes at most 2n + 2 steps
  besides the driver's reads, and the work of others does not move it.
- `CommandsGetOn`: a command for an image of n layers ends after at most n + 7 steps of
  its own, and no step of another process changes how many are left.
- `HandlersAdvance`, `SomeoneGoesOn`: a handler of the fake registry has at most four
  steps, and as long as one is busy, one is not waiting for the mutex (`Locks`:
  whoever took it gives it back).

What is missing from these to the liveness properties is only that the steps are
taken: fairness, and that a step which does not wait is enabled.

The assumptions are those the modules name: lengths and sizes are natural numbers,
sentinels differ from values, a quota is at least -1 (reader) or a limit at least 0
(source; `Create` refuses others before the first `Blob`), manifests and images are
sequences of the layers they are said to be.

Only model-checked: liveness (`CallsReturn`, `PullsEnd`, `RequestsAreAnswered`), which rests
on fairness and `ENABLED` and which the prover does not handle; and `PrintedOnce`, which
does not hold.

## Not modelled

- Parsing of URLs, and the text of logs and messages: straight-line code. A URL
  that cannot be parsed is one of the failures of `createFetcher` or `GetImageSource`.
- TLS settings, registry credentials, `Config.Env` and the runtime spec that `create`
  prints: data passed through.
- `skipOCILayerValidation` in `ImagePuller`, where it is off; `LayerSource` has both.
- The other generated fakes (`fake_manifest.go`, `fake_fetcher.go`, `fake_volume_driver.go`,
  `fake_driver.go`, `fake_image_puller.go`): the template of `FakeSource`, repeated for each
  method of each interface. A model of each would say the same again.
- `base_images.go`, the sizes and digests of the tests' images, and `foot/main.go`,
  which hands a driver to `groot.Run`: no logic.
- containers/image and the other vendored libraries: the models let them answer
  anything.
- Memory: `v1DiffID` reads the layers of a schema 1 image without a limit.

## Assumptions

- Digests are free of collisions: contents stand for their SHA-256, and a chain ID
  for the pair it is computed from.
- Temporary files of different processes have different names, as `os.CreateTemp`
  makes them.
- Removing a temporary file succeeds; the code only logs or returns the error.
- Nobody calls a layer source after `Close`, as nothing in groot does.
- The driver knows volumes by ID and does not read for one it has; each of its
  calls is atomic. `Bundle` for a handle that is in use may replace the bundle.
- A local file is replaced by renaming another one to its path.
- `totalBytes`, the sum of what was really unpacked, does not wrap; declared sizes may
  add up to anything.
- A write to one of the sample driver's files either leaves it as it was, empties or
  damages it, or is complete; a file that is not complete cannot be decoded. What was
  written in full stays, also if `Close` then reports an error.

## Plan

Done: all components above, each checked, and proved except for liveness. What
could be added:

1. The processes of `ImagePuller` as an explicit set, each with its own source and
   temporary files, which would put the composition of their guarantees (see *Image
   puller* under Proofs) into the prover's hands.
2. Liveness from the variants under *What ends*, once the prover handles fairness and
   `ENABLED`.
