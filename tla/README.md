# gputools-replay in TLA+

`gputools-replay` drives Apple's private GPUToolsReplay framework in the
process of its caller: it bootstraps the framework once, loads a GPU capture,
plays it, asks for the contents of textures, buffers, heaps, acceleration
structures, pipelines and wireframes in batches that a thread of the framework
answers later, and turns the answers into typed views of the bytes. Everything
hard in it comes from what it cannot see. The framework's state is global to the
process and cannot be torn down; nothing says when, how often or on which thread
it calls back; its errors arrive beside its answers rather than in them; its map
of live objects is emptied and refilled under the caller's feet; and the numbers
in its replies are whatever came off the wire.

These modules model that: the code as it is written, and the framework as
freely as the code's own comments allow it to behave.

## The system

| component | source (under `src/crates/`) | state | operations | modules |
|---|---|---|---|---|
| Session lifecycle | `gputools-replay/src/session.rs`, `-sys/src/env.rs` | the static `BOOTSTRAPPED`; the framework's globals (APR pool, client, observer, service), all leaked | `Session::open`, dropping a `Session` | `SessionOpen`, abstractly `ProcessGuard` |
| Error observer | `session.rs` | a list of messages behind a mutex, append-only | `notifyError:`, `error_count`, `first_error_since` | `ErrorObserver`, used by four modules |
| Fetch protocol | `gputools-replay/src/fetch.rs` | two marks, a slot, a one-shot handler and a leaked batch to each call | the six `fetch_*` methods, the completion block, the pump loop | `FetchProtocol`, abstractly `FetchPromise` |
| Playback, object map | `session.rs`, `descriptor.rs`, `-sys/src/layout.rs` | the framework's command index and map of live objects | `play_all`, `play_to`, `rewind`, `command_index`, `texture_descriptor`, `loaded_textures` | `CapturePlayback` |
| Capture facade | `gputools-replay-hl/src/capture.rs` | the two snapshots taken at open, the manifest parsed once | `configure_env`, `open`, the fetch wrappers, the questions | `CapturePlayback`, abstractly `CaptureFacade` |
| Configuration | `gputools-replay/src/config.rs` | environment variables | `apply_env` | `CapturePlayback` |
| Reply decode | `gputools-replay/src/reply.rs` | a decoded reply owns its bytes | `RawReply::parse`, `Reply::decode`, the record decoders | `ReplyEnvelope`, `ReplyAccess`, `RecordLayout` |
| Image access | `gputools-replay-hl/src/image.rs`, `bytes.rs` | a shared aligned buffer; per handle a range of it and a geometry | `from_parts`, `pixels`, `rows`, `packed_bytes`, `blocks`, `packed_blocks` | `ReplyAccess` |
| Format table | `gputools-replay-hl/src/format.rs` | none | `format_kind` and its queries | `ReplyAccess` (as `FormatKinds`) |
| Buffers, acceleration structures | `gputools-replay-hl/src/buffer.rs`, `accel.rs` | ranges of the shared buffer | typed slices, header fields, triangles | `PayloadViews` |
| Harvester blocks | `gputools-replay/src/harvester.rs` | a file's bytes | `CaptureBlock::parse`, `plane`, `data` | `PayloadViews` |
| Pipeline payloads | `gputools-replay-hl/src/pipeline.rs` | none; a recursion over an object graph | `unarchive_root`, `stages`, `performance_stats` | `Unarchive`, against `ArchiveGraph` |
| Descriptor join | `gputools-replay-hl/src/describe.rs` | none; a walk over two lists | `describe_textures`, `zip_best_effort` | `DescriptorJoin` |
| Probes | `src/probes/src/session.rs`, `reply.rs` | a second `Session` of their own | `open`, `verify_load`, three fetch methods, `wait_for` | `ProbeSession`, `RecordLayout` |
| Requests, raw bindings, fixture applications | `request.rs`, `gputools-replay-sys/src/`, `src/fixture-apps` | declarations, layouts, plain data | | not modelled |

How they interact: `Capture` owns one `Session`. `Session::open` registers the
observer and then loads; `Capture::open` reads the object map twice before
anything can play. Every fetch marks the observer's list, hands the framework a
batch with a completion block, waits on a slot the block fills, and asks the
observer again before it decodes. The block runs on a thread of the framework,
the observer is called from its queues; the slot's mutex, the handler's mutex and
the observer's mutex are all that caller and framework share. A decoded reply is
copied once into a buffer that all handles made from it share. With the manifest
of a bundle at hand, fetched textures are joined to its descriptors by order of
creation.

Hard, and where it is covered (PROJECT.json lists the hazards with their lines):

- threads racing to open, half-failed attempts, checks before and after the
  one-shot guard, load failures that only the observer hears (`SessionOpen`);
- completions that come late, twice or never; answers and errors of an earlier,
  timed-out fetch arriving during the next; the order of two marks and two
  observer checks; a slot and a clock that are not looked at together
  (`FetchProtocol`); all of it again, with one mark and a switch that tolerates
  errors, in the probes (`ProbeSession`);
- an object map that playback empties and a fetch fills, read through a snapshot
  and live; errors nobody will ever be told; variables left over from an earlier
  export; a manifest read later than the snapshots (`CapturePlayback`);
- archives that share, loop, repeat keys or point out of bounds, two decoders of
  the same archive, a bound on depth that is none on work (`Unarchive`,
  `ReplyEnvelope`);
- records whose fields contradict each other, u32 sums and products at their
  limit, two notions of a pixel's size (`ReplyAccess`); counts off the wire that
  overflow a word before they are compared with anything (`PayloadViews`);
  hand-kept lists of offsets (`RecordLayout`);
- a one-pass walk over two lists in which either may miss entries
  (`DescriptorJoin`).

## The modules

**`ErrorObserver`** is the observer's list as operators. The code keeps strings;
the model keeps positions, which is what every decision depends on. The mark is
the length of the list, `first_error_since(mark)` the first position after it.

**`SessionOpen`** has one action for each step of `open` between which another
thread, the framework, another program or a change of the environment can come:
`CheckShape`, `CheckEnv`, `ClaimGuard` (the atomic swap), `InitApr`,
`InitClient`, `RegisterObserver`, `MakeService`, `StartLoad`, `FinishLoad`,
`CheckLoad`; and `DropSession`. `pc[t]` is how far thread `t` has come. Around
them `ReportError` (the framework complains, to whoever is registered),
`ChangeDisk` and `ChangeEnv`. `inits` counts how often each part of the
framework was set up. `load:` of something that is not a capture takes the
process down, as the comment on `check_bundle_shape` says. `NonUtf8` are the
paths that `to_str` refuses.

**`ProcessGuard`** is what that promises: a process is fresh, bootstraps once,
is open or spent or dead, and never fresh again.

**`FetchProtocol`** is one caller thread (a `Session` is pinned to one) and the
framework. The caller goes `Mark` (the method's mark and a new slot), `Arm` (the
second mark and the block), `Dispatch`, `TakeToken`, then `CheckSlot` and
`CheckDeadline` in turn, and `FinalCheck`; `Reject` stands for an empty batch or
one that cannot be built. An invocation of call `k`'s block is `FireRead`
(reads the response, then asks the observer), `FireTake` (takes the handler out
of its mutex) and `FireStore` (stores into the slot if that is empty).
Invocations exist for every batch ever dispatched, `Fires` of them to a batch,
and may start at any time or never. `ReportError` appends an error on behalf of
a dispatched batch, however old, or of nobody's. A reply is its batch's number
and whether it is an answer or a hard failure; whether a reply's bytes decode is
a choice at the decode.

**`FetchPromise`** is what the fetches promise without handlers, slots, marks or
clocks: each call gets one verdict, and the verdict is one that the answers, the
complaints and the time that passed during that call allow.

**`CapturePlayback`** is a `Capture` over an open `Session`. Before `Open` the
environment changes, by `ConfigureEnv` (`apply_env`) and `Export` (whatever ran
before). `Open` loads under the environment as it is and takes both snapshots.
Then, in any order: the questions of the facade (`AskDescriptor`, `AskTextures`,
`AskUnused`, `AskManifest`) and of the session underneath (`AskLive`,
`AskIndex`), `PlayAll`, `PlayTo`, `Rewind`, and fetches as `BeginFetch` and
`EndFetch`. Beside them `ReportError` and `ChangeDisk`. `target` is what the
measured offset of the object map leads to in this build of the framework, which
decides the outcome of every guarded read. Playback is forwarded as it comes:
the three calls of the session test nothing, and what they lead to
(`ReplayerPlaysAll` and its siblings) is the framework's and marked external, as
is what a fetch does to map and index. Those follow what the comments of
`session.rs` and `capture.rs` report as measured; where they report nothing (the
map after a rewind or a failed fetch, the unused list after a forced load) every
outcome is allowed, and nothing is claimed of the framework's own steps. A fetch
ends in one of four ways: refused before the observer is asked, whatever that
heard; with the first error since its mark; with a failure of its own; or with
what was served.

**`CaptureFacade`** is the promise of that: two views fixed at open, a manifest
fixed when first asked for, and answers that depend on nothing else.

**`Archive`** is a keyed archive as both decoders find it: `$objects`, with Uids
between its entries, and the root. **`ReplyEnvelope`** is `RawReply::parse`, a
loop over the root's keys with one action for each thing it may meet.
**`Unarchive`** is `unarchive_root` and `unarchive_value`, the recursion as a
machine with a stack of open collections: `TooDeep`, `Follow`, `PassThrough` and
`Enter` for a call, `TakeKey` and `TakeMember` for a return, `FinishRoot`; and
`Stages` and `Stats`, what a `Pipeline` is asked. **`ArchiveReaders`** puts both
to one archive; its `Values` are the values of property lists, closed under what
they hold, any set of them: archived collections and plain ones, in each other
to any depth. A plain collection is passed through as it stands, so its tree
keeps the value itself and shows what is in it one level at a time, the archived
form of a collection as the dictionary it then is. **`ArchiveGraph`** is the
reference: the walks of the archive as a graph, what a Uid stands for, what tree a
value means, as recursive functions over `Values`, and what a key of the root
holds.

**`ReplyAccess`** follows one reply from its info table to what a view returns.
A byte is its position; a view returns the spans of positions it read, or an
error, or panics (a slice out of bounds). `Decode` checks every record's range,
`HoldTexture` and `HoldWireframe` make a handle of one with any geometry,
consistent with the payload or not, and `Look` reads it through any view as any
element type. A format is its category, its sizes and whether its channels are
whole bytes (`ByteAligned`). `U32` is the modulus of the one product the code takes in 32 bits
(a wireframe's stride), where both builds are modelled: wrapped and panicked.
The rest of the arithmetic is `usize`, which holds every product of two u32.

**`RecordLayout`** says which bytes of an 80-byte record each class decodes into
which field, and which slots it keeps in `unmapped`; for the library's parser and
for the probes'. **`PayloadViews`** traces a byte of a record to where it shows,
and asks for every view of a payload that is not an image: slices of buffers and
heaps, header fields and triangles of an acceleration structure, and the block of
a harvester file with its planes and data. `UsizeMax` is the largest number the
`checked_*` operations hold.

**`DescriptorJoin`** is `describe_textures` with the loop of `zip_best_effort`
unrolled into actions, one for each branch of an iteration: `Skip`, `Match`,
`Miss`. A texture or descriptor is its (width, height, format). The inputs come
with `truth`, the descriptor each streamRef was really created from, which the
code cannot see and the properties compare against.

**`ProbeSession`** is the probes' own session: `open` part by part, then the
protocol three methods share. It marks the observer once, its completion block
does not ask it, nothing but the slot stops a second invocation, and
`PROBE_TOLERATE_REPLAYER_ERRORS` turns errors it heard into printed lines. The
variable is read at five places, two of the opening and one in each method, and
each is an operator of its own (`LoadTolerates` to `WireframeTolerates`); each
method begins and finishes with actions of its own (`BeginTextures`,
`FinishTextures` and so on), what lies between is the code they share. It is
shown to keep the same two promises, `ProcessGuard` and `FetchPromise`, the
library's session keeps.

The `MC*` modules give symmetry sets and small value sets; the `*Proofs` modules
hold theorems. Operators whose names say what they get wrong (`FollowFree`,
`OpenUnloaded`, `MatchUnchecked` and the like) stand before the definition they
vary: each is a mistake one could make there, and some property of a run tells
it from the code.

## What is checked

Passing runs:

| run | shows | bounds | distinct states |
|---|---|---|---|
| `session_open` | one owner of the framework at a time; one bootstrap ever; refusals do not burn the guard; no silent load failure; a crash needs a bundle changed after its check; refinement of `ProcessGuard` | two threads, a good and a non-UTF-8 path, two errors | 78,880 |
| `fetch_protocol` | a success is the reply to the call's own batch; a call's own errors are never hidden by an answer; none is blamed for older errors; a slot fills once; the block and the method agree; nothing prolongs a fetch, and every fetch returns; refinement of `FetchPromise` | two calls, two invocations to a block, one error, one tick | 894,626 |
| `capture_playback` | the configuration alone decides what is loaded; every texture served is described; a live "not loaded" of a loaded texture means playback; an error reported outside a fetch is never returned; refinement of `CaptureFacade` | two variables, three resources (a used and an unused texture, an unused buffer) and a streamRef of nothing, two commands, two errors | 818,216 |
| `archive` | recursion within the bound; the tree means what the archive means; success exactly without a defect, each failure with its cause; one call per walk; the two decoders agree; no stage lost; both decoders end | `$objects` of three, with every reference among them, three root forms, plain collections in plain ones, depth 6 | 185,814 |
| `payload_views` | no byte of a record shows in two places, and none of a slot that no field reads is lost; every view fits; each refusal has its cause | all 80 bytes of six classes of record and of the probes' one; payloads around each boundary, counts that overflow at each checked operation, `usize::MAX` scaled to 4100 | 37,750 |
| `descriptor_join` | the result partitions the descriptors; pairs respect order and geometry; the join is exact where it can be | three textures with repeated streamRefs, three descriptors, two plain geometries and a combined one | 854,054 |
| `reply_access` | no view panics; what a view returns is the declared image, pixel by pixel, no row over another; the views agree on what is readable; packed blocks come from their own rows | two records, buffers to 8 bytes, images to 3 x 3, u32 modulo 8, eight formats of six categories, one of them packed | 205,626 |
| `probe_session` | a session is handed out only after a clean load, or under the one value that tolerates errors; each of the three fetch methods, with its own reading of the variable, refines `FetchPromise`, and the opening `ProcessGuard` | two attempts, two calls, two errors, one tick | 202,375 |

Why these bounds: `SessionOpen` has one shared bit, so any race is a race of two
threads, and since an attempt may be repeated for ever two threads give every
sequence of attempts. Between fetches only the observer's list and late
completions carry over, and both are there with two calls; a third adds a second
old batch that behaves like the first. The hazards of one block need two
invocations, those of the list one error before, during or after a mark.
A `Capture` repeats its calls for ever; what tells them apart is whether a
resource is a texture and whether the commands use it, and one of each kind that
the code distinguishes is there, with one error on each side of a mark. Three
objects give a chain, a cycle, a shared object and a repeated key next to each
other; the depth of 6 lets a collection in a collection in a collection succeed
and cuts every cycle. In the join, a wrong advance shows with two textures and
two descriptors; the third leaves room for a blocked or repeated one before and
after. In `ReplyAccess` and `PayloadViews` each comparison of the code has values
on both sides of it and on it, and the moduli are small enough for sums and
products to pass them. What is proved below does not depend on these bounds.

Runs that refute what the documentation says (details under `findings` in
PROJECT.json):

| run | what is said | what happens |
|---|---|---|
| `fetch_blame` | what the observer reports from the mark on is this fetch's | a call that was refused a token has left its batch behind; an error of that batch fails the next call, which nobody answered |
| `fetch_no_token` | the observer check is unconditional | `NoToken` returns before it |
| `record_drops` | a decoder preserves what it does not interpret | four bytes of a texture record (0x48, 0x49, 0x4e, 0x4f) and two of a wireframe record (0x36, 0x37) are in no field and no slot |
| `reply_packed` | `pixels()` is `Ok` only of a byte-aligned color or a single aspect (`image.rs:326-328`) | it asks only for the size: a packed color of two bytes is given out as any two-byte type |

Met while modelling, without a run of their own; the models follow the code:

- `AlreadyOpen` is documented as "a session has been opened in this process"
  (`error.rs:6`); an attempt that failed after the guard leads to it too
  (`session.rs:268`).
- `Timeout` is documented as the handler not firing in time (`error.rs:44`); a
  reply stored between the look at the slot and the look at the clock is lost to
  it (`fetch.rs:439`).
- A texture without a descriptor is documented as one the manifest does not have
  (`describe.rs:34-35`); one descriptor whose texture was not fetched blocks all
  later ones (`describe.rs:98`), and repeated streamRefs get none.
- `Padded` is documented as `bytes_per_row` being more than a row
  (`error.rs:26-27` of the high-level crate); `pixels()` answers it for less, too
  (`image.rs:39`).
- The views are documented to be exact or an error (`image.rs:1-3`);
  `packed_blocks` takes a stride that is not a whole number of blocks for the next
  smaller one that is, and reads from there (`image.rs:121`). `BlocksInPlace`
  therefore says where blocks come from of whole strides only, and nothing in the
  runs guards the other case.
- In the probes, the wireframe fetch lacks the check for an empty batch that the
  other two have.

**Fairness.** `FetchProtocol!FairSpec`, the specification of `fetch_protocol`
(`FetchReturns` alone needs it), assumes that
the calling thread keeps taking the steps it can take (`WF_vars(CallerStep)`: the
operating system runs it, no call it makes blocks for ever, and a turn of the run
loop is bounded by `PUMP_SECONDS`) and that time passes while it waits
(`WF_vars(Tick)`). In particular `-fetch:` is taken to return; the code has no
protection against one that does not. Nothing is assumed of the framework's
completions: a fetch must return although no handler ever fires.
`ArchiveReaders!FairSpec` assumes that a running decoder goes on; it is
sequential code that waits for nothing.

Deadlock is checked in `session_open` and `capture_playback`, whose callers can
always go on. The other systems do end: a fetch behaviour after `MaxCalls` calls,
the rest when their answer is there.

## What is proved

Eight modules of proofs. Each theorem holds for every value of the constants that
satisfies the module's assumption (`OpenAssumption`, `FetchAssumption`,
`CaptureAssumption`, `JoinAssumption`, `AccessAssumption`, `WidthAssumption`,
`DepthAssumption`, `ArchiveAssumption`, `ProbeAssumption`: the bounds are
naturals, subsets are subsets, an element's size is a multiple of its alignment,
the value of a property list is of one of the kinds and holds values). No theorem
needs its sets to be finite, and no archive needs to be well founded. Every
invariant, action property and refinement of every passing run is a theorem; the
two liveness properties are not, but for each the part that does not depend on a
scheduler is.

- *`SessionOpenProofs`*: every property of `session_open`. `IInv` adds to the
  types: what a thread's `pc` says of `bootstrapped` and of `inits` (a part is
  set up if and only if someone got past it, so no part can be reached twice),
  that only one thread is past the guard, that a session needs a load that
  answered YES over an empty list, and that a bundle a thread has checked has its
  shape unless it was disturbed. The mutual exclusion is what makes the rest
  inductive: without it a second thread could repeat a step and `inits[s] <= 1`
  would not survive. `OpenImplementsGuard` then goes through the actions: each
  maps to one step of `ProcessGuard` or to none.
- *`FetchProtocolProofs`*: every property of `fetch_protocol` but `FetchReturns`. `IInv` says that
  marks never run ahead of the list, the method's mark never past the block's;
  that an answer under way, in a slot or in `result` belongs to the call whose it
  is; that a handler, a block invocation holding it and a filled slot exclude one
  another, which is why a slot fills once; and that an error of call `k` is never
  in the list at `k`'s mark, because `k` was not sent by then.
  `FetchKeepsPromise` maps a filled slot to "answered", an error past the
  method's mark to "noise", a clock run down to "expired".
  `NothingProlongsAFetch` is `NothingProlongs`, the part of `FetchReturns` that
  needs no fairness:
  `ToGo`, the phases still ahead and the ticks until the deadline, is never raised
  by anyone while a call runs, and lowered by every tick and by every step of the
  caller but a turn of the waiting loop with time left; at 0 the call has returned.
- *`CapturePlaybackProofs`*: every property of `capture_playback`. `IInv` says
  that a configuration applied last is the environment (`EnvInv`); that the
  snapshots are of the load the environment asked for (`SnapInv`); that the live
  map is that load or empty, and empty for a load that was not only after playback
  (`MapInv`); that what the observer holds past a mark it heard during the fetch,
  and so did whatever was returned (`MarkInv`); and that nobody is answered before
  open (`ClosedInv`). `CaptureImplementsFacade` maps the snapshots to the two views
  and the `OnceCell` to the manifest; playback and the fetches map to a step that
  answers nothing about the bundle.
- *`DescriptorJoinProofs`*: every property of `descriptor_join`. `IInv` relates
  the two positions of the walk to what was matched: matched descriptors ascend
  and lie before `j`, everything before `j` is matched or combined, and, on
  unambiguous inputs, no texture still to come has its descriptor before `j`. The
  last is what makes the walk exact: it is the claim that waiting at `j` never
  waits for a texture that is already gone.
- *`ReplyAccessProofs`*: every property of `reply_access`.
  The invariant carries the one fact decode establishes, that a payload lies in
  the blob, into every handle; from there each view is a lemma of its own
  (`PixelsAnswer` and its siblings: an error, or exactly these spans), resting on
  `RowFits`: h strides that fit leave room for each of h rows no longer than the
  stride. Where the bytes come from is `RowMajor` for one slice and the stride
  for rows; for blocks `WholeBlocks`, a stride that is whole blocks is its own
  floor. `TheViewsAgree` needs that if the whole slice is aligned every row is:
  an element's size divides the stride of an image that can be had in one slice,
  its alignment divides its size, so it divides the offset of each row. Of a
  wireframe `Unstretched` says that a wrap only makes its stride smaller; so a row
  that fits the stride is the stride (`StrideIsRead`), and a stride that wrapped is
  refused.
- *`PayloadViewsProofs`*: every property of `payload_views`. The invariant adds
  that a payload lies in memory, hence below `UsizeMax`, and that the two regions
  of a block that parsed lie in its file. The step that matters is `triangles`:
  a checked operation that overflows would have exceeded the payload anyway, so
  its refusal is the one the exact arithmetic gives. `NoByteTwice` goes through
  the classes of record, byte by byte: two places that show one byte are one
  place, and of each word some byte shows.
- *`ProbeSessionProofs`*: `ProbeOpensClean` and both refinements. The invariant
  says what `pc` says of the guard and of what was loaded, that an error `load:`
  handed back is gone or was tolerated once the observer is asked, and that a slot
  is filled by an answer to its own call only.
- *`ArchiveReadersProofs`*: every safety property of `archive`, of archives of any
  shape, shared and cyclic ones included, and any `MAX_ARCHIVE_DEPTH`.
  `RecursionBounded` says that the open collections lie at strictly increasing
  depths, none past the bound, and a call is deeper than all of them and at most
  one past it; nothing in it looks at `$objects`.

  What the decoder returns rests on `Holds`, the invariant of the stack: each open
  collection has decoded, of each member before its position, what the member
  means (`Reads`), and stands for the member the collection around it waits for,
  reached by a chain of Uids as long as the depths say (`Leads`); the call about
  to be made, or the tree just returned, stands for the member that the innermost
  one waits for. What is returned is `Decoded`: the tree that the value means, and
  that no walk from the value has a defect or is too long. So `TheTreeIsFaithful`
  is `Decoded` of the root; `TheVerdictIsJustified` is that together with the walk
  to the place of each failure; `TheStagesAreComplete` reads it once more at the
  keys of the root (`RootReads`), in an archived root or a plain one.
  `TheEnvelopeAgrees` adds the loop of `RawReply::parse`: what it holds for a key
  is what the last entry with it said, and the one indirection it follows leads
  where a chain of Uids to a string or to data must end.

  `TheWorkIsTheWalks` counts: the calls made and the calls that the stack and the
  next call still owe (`Owed`) are together the walks from the root (`TallyInv`;
  exactly so until the ghost counter stops at `MaxVisits`, which only bounds the
  runs). From the same sum `TheStepsRunOut` makes a number that every step of either
  decoder lowers, `StepsLeft`: the part of `Terminates` that needs no fairness, and
  with it a bound, at most `MaxDepth` + 3 steps to each walk.

  The walks, chains and meanings are recursive functions of a natural number, and
  that each is what its equation says, and the inductions over them, are proved
  from the well-foundedness of the naturals: a set of naturals that is not empty
  has a least element (`LeastOf`, `Induction`). The library's own induction
  theorems take an operator as a parameter, which the provers here cannot
  instantiate.

## What is only model-checked

- `FetchReturns` and `Terminates`: liveness under fairness needs ENABLED, which is
  out of the prover's reach. What is proved of each is above
  (`NothingProlongsAFetch`, `TheStepsRunOut`); that a step can be taken as long as
  there is one to take is left to the runs.

## Not modelled

- *Requests* (`request.rs`): plain data and conversions without state.
- *Raw bindings* (`gputools-replay-sys`): declarations, struct layouts and
  build-time inventories of symbols. The one piece with behaviour, the guarded
  read of the object map, is in `CapturePlayback`.
- *Format table*: the entries are data; the views' questions to it are modelled,
  the names and the entries themselves are not.
- *Probes*: the archive walk of their reply parser repeats `RawReply::parse`; the
  probe programs are scripts over the session.
- *Fixture applications*: Objective-C programs that produce captures.

## Abstractions to keep in mind

- Memory layout, Objective-C classes, autorelease pools, retain counts and
  `unsafe` contracts are not modelled; that the framework may still use what it
  was given is why batches and blocks live on in the model when their call has
  returned.
- A poisoned mutex is treated by the code like any other, so there is no
  poisoning in the model.
- `notifyError:` is atomic: building the message touches nothing shared.
- Messages are positions, so two errors with the same text stay two errors.
- The response handed to a block is the response to its own batch; the framework
  is not assumed to mix batches up.
- `Instant::now() + timeout` may panic for a huge timeout; the model's timeout
  is a number of ticks.
- The six fetch methods share one protocol and differ in the batch they build and
  the record they decode; `FetchProtocol` has them as one.
- `CapturePlayback` has a fetch as one begin and one end, `FetchProtocol` has no
  object map: the first relies on what the second shows, that a fetch returns the
  first error since its mark, its own reply, or a failure.
- The keys of a plain dictionary differ (`Keyed`): `plist::Dictionary` is a map.
- In `PixelsInPlace` a wireframe has the stride its fields make without the
  wrap, for color formats; of a depth or stencil wireframe, whose row the code
  takes from the whole pixel and whose element from the aspect, it takes the
  image's own.
- In `DescriptorJoin` the manifest's descriptors are an input (`gputrace_bundle`
  is a dependency, not part of this repository).

## Plan

Done: all modules above, and every safety property and refinement of their runs
as a theorem. Left:

1. A composition of `CapturePlayback` and `FetchProtocol` over one observer, in
   place of the one-step fetch.
2. The format table's entries as a function, against the aspect sizes the views
   compute with, and the request geometry that goes with it.
