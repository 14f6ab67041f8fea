# petekTools in TLA+

A verification development of petekTools: TLA+ models of the parts of the
library whose correctness depends on order, failure or long sequences of calls,
the TLC runs that check them on small instances, and TLAPS proofs of what
matters most.  Paths below are those of the repository, whose root is `src/`
here (so the Rust crate is `src/src/`).

| module | what it is |
| --- | --- |
| `ViewerVolume` | the volume tab of the browser viewer, the decode worker it shares with the map, its server calls and timers |
| `ViewerVolumeProofs` | type correctness, the no-hang, no-stray-spinner and no-silent-blank theorems, and those on the order of decodes and recolourings |
| `MCViewerVolume` | instances of it |
| `ViewerMap` | the map tab between events, settle timer and frames: view, LOD ring, bake caches, what is on the canvas |
| `ViewerMapProofs` | every safety property of its run, for all zoom ladders and caps |
| `MCViewerMap` | an instance of it |
| `ViewerSection` | sections on demand: the page, its requests, the threaded server and its end |
| `ViewerSectionProofs` | every safety property of its run, for all orders of answers |
| `MCViewerSection` | an instance of it |
| `AtomicProjects` | what the container promises: whole projects, replaced atomically |
| `Container` | the `.pproj` container: write, filter, merge, file-system steps, crashes |
| `ContainerProofs` | every property of its run: no crash corrupts a project, merges are last-writer-wins, and the container implements `AtomicProjects` |
| `MCContainer` | instances of it |
| `StoreLayout` | the byte map of a lane store |
| `Store` | the memory-mapped store: writer, reader, page writeback, crashes |
| `StoreProofs` | every safety property of its run, for all schemas and page sizes |
| `MCStore` | instances of it |
| `Formula` | ordering and evaluation of formulas that read one another |
| `BlockEvaluation` | what a block promises: a formula is evaluated once all it reads is, or the block is refused |
| `FormulaProofs` | the order is sound and complete and implements `BlockEvaluation`, for blocks of any size |
| `SgsSweep` | sequential Gaussian simulation of layer after layer with one informed list, path and search index |
| `ConvergentGridder` | the gridder that is refined control by control |
| `GriddingProofs` | every safety property of the two: of the sweep for all lattices and sessions, of the gridder for all batches |
| `MapBlocks` | the digest-keyed block table of a map and its way back into arrays |
| `MapBlocksProofs` | every bulk array of a map reads back, for maps of any fields |
| `MCLibrary` | one instance of `Formula`, `SgsSweep`, `ConvergentGridder` and `MapBlocks` |

## Inventory

**Viewer, browser side** (`python/petektools/viewer/assets/`).  One page, one
decode worker, timers, animation frames and fetches; all of them call back into
shared global state.

- *Volume tab* (`viewer/40-volume.js`).  State: the payload's volume envelope,
  `vol3` (the decoded shell, or the decode in flight), the watchdog, the
  three.js geometry, the colormap, two notices (the `#empty` overlay and the
  `#banner`).  Operations: render, decode (worker, sidecar fetch, or on the
  page), recolour, zone filter, server re-cut.  Hard: replies, errors, timeouts
  and re-cut answers overtake one another.  Correct when a decode always ends,
  the spinner never outlives it, a failure always leaves a banner, what is drawn
  is one mesh in its own colours, and the last re-cut is what the tab settles on.
- *Decode worker* (`decode.js`).  State: `_keep`, the last decoded mesh.
  Operations: decode, recolour, decode the map's blocks.  Correct when it only
  recolours what it holds.
- *Map tab* (`viewer/20-map.js`).  State: the block cache, `__blocksPending`, the
  view, the LOD ring, bake caches, one settle timer, animation frames.  Hard:
  timers and frames that fire after the tab, the ring or the payload changed.
  Correct when, with nothing pending, the canvas shows the state of now, a
  reused bitmap is never one of another ring, colormap, zoom or place, and
  nothing runs once the user stops or looks away.
- *Section tab* (`viewer/30-section.js`).  State: which section is selected and
  drawn.  Hard: a render may return early; other tabs' frames and answers write the
  shared notice over it.
- *Chrome, panel, overlays* (`10-chrome.js`, `80-panel-boot.js`,
  `70-overlays.js`).  Tabs, controls, notices, section requests.  Hard: the
  notices are shared by all tabs; section answers arrive in any order and switch
  the tab.  Correct when every answer becomes one section under its own label.
- *Boot* (`00-app.js`); *wells, charts, 3-D tabs* (synchronous drawing);
  *three.js* (vendored).

**Viewer, Python side** (`python/petektools/viewer/`).

- *Server* (`_server.py`).  A threading HTTP server over a temporary directory
  that calls providers.  Hard: concurrent provider calls, shutdown and the
  directory's life.  Correct when every request ends and the page of a serving
  server loads.
- *Block table* (`_blocks.py`).  Arrays deduplicated by digest.  Correct when
  every reference resolves to the array it was made from.
- *Bundle, save, wells, views, demo*: build payloads; no state.

**Container** (`src/container/`).  State: project files, and one temporary file
per path.  Operations: `write`, `open`/`read`, `filter_to`, `merge_to`.  Hard:
crashes and I/O errors at each step, name and kind clashes.  Correct when a path
always names a whole project, saves are atomic, and every entry has its blob.

**Store** (`src/store/`).  State: a preallocated, memory-mapped file and its
writer.  Operations: create, slab and flat writes, flush, flush-behind, finalize,
open, reads.  Hard: pages reach the disk in any order; the old store is truncated
in place; layout arithmetic.  Correct when a finalized store reads back what was
written, an unsealed one never opens, and what opens is whole.

**Formula** (`src/formula.rs`).  State: the queue and counts of one ordering, the
values computed so far.  Correct when the order respects dependencies (a lookup
falls back to the inputs in silence) and every cycle is found.

**Gridding** (`src/gridding/`): nearest, inverse distance, kriging, minimum
curvature (relaxation and direct LU), the convergent gridder, resampling.  Real
arithmetic, except the combinatorial parts: which nodes are constrained, how
stencils are assembled, which nodes a resample touches.

**Geostatistics** (`src/geostat/`): variograms, fit, normal score, local kriging
neighbourhoods, sequential Gaussian simulation with reusable sessions.  Hard: the
informed list and the search index of a session across layers.  Correct when no layer
is conditioned on an earlier one's scores, and data are honoured.

**Stats, sampling, interp, units, synth, foundation, Python bindings, asset**:
pure functions over reals, data generators, bindings.

**Release** (`scripts/wait_for_pypi.py`, workflows): a retry loop over an index.

`PROJECT.json` lists each with its status, and under `hazards` what is hard to
test, each at its line.

## How the models correspond to the code

### ViewerVolume

One variable per piece of page state, one action per event handler; every
handler runs to its end in one step, as JavaScript does.  Messages are sequences
(`toWorker`, `toPage`), as `postMessage` delivers in order; error events have a
counter of their own because the browser orders them against messages in no
particular way; fetches complete in any order.  Timers and frames may come at any
time (time is not modelled).

| code | here |
| --- | --- |
| `vol3` null, `{_for, _decoding: true}`, decoded | `NullMesh`, `Pending(v)`, `Decoded(...)`; `src` is whose triangles it really holds |
| `three.geo` | `drawn`: whose positions, whose colours, which map, anything visible |
| `_decodeWatchdog` and the closure's `v` | `watchdog` |
| `renderVolumeV3`'s four ways | `Redraw`, `AwaitDecode`, `RefuseTooLarge`, `StartDecode` |
| `decodeVolumeV3` up to the post | `Decoding` and the disjuncts of `StartDecode` |
| `onV3Decoded` | `ShowMesh`, `ShowEmptyMesh` in `OnDecoded` |
| `onerror`, the watchdog's callback | `OnError`, `WatchdogFires` |
| `requestThresholdedVolume` and its two callbacks | `AskRecut`, `RecutAnswered`, `RecutFailed` |
| `fetch("./model.bin")` and its two callbacks | `StartDecode`, `BinArrived`, `BinFailed` |
| `workerOnMessage` | `WorkerStep` |
| `scheduleRenderMap`, the frame of `scheduleSettle` | `GestureOnMap`, `MapFrame` |

An envelope is a number: 0 is the boot payload's, `n` the answer to re-cut `n`.
Its stride under the triangle budget, its encoding and whether it is over the
memory cap are constants; how its decode ends (triangles, none, an exception) is
chosen in `Init` and never changes.  In the worker an exception posts nothing and
raises an error event; the worker goes on, though the page drops its handle.  A
worker that hangs is one that takes no more steps.

Left out: the v2 corner-point fallback, a page without WebGL, file mode, a zone
filter that hides everything, a triangle budget changed while the page runs, and
the drawing itself.

### Container

A project is its header and its sections; a section's blob stands for the payload
it was compressed from and remembers the entry it was saved under.  `call` is
where each process is inside `write`, `filter_to` or `merge_to`; `temp` is the
temporary file of each path, written piece by piece; `file` is what a path names
now and `disk` what it names after a power failure.  A kill or an I/O error is
`Stop`, at any step; `Settle` is the directory entry reaching the disk (the code
does not sync the directory); `PowerFailure` keeps of unsynced data any prefix.

`filter_to` reads its source before it begins to write, so reading is one step;
`merge_to` opens two files, so it is two.  Processes are assumed not to write one
path at the same time (`NobodyWrites`): they would share the temporary file, and
nothing in the code prevents or promises anything about that.

### StoreLayout, Store

`StoreLayout` is `Layout::compute` with the four sizes the code fixes (64, 8, 20
and 8) as parameters.  In `Store` a file is a function from offsets to bytes; a
byte says what it belongs to, which value was written and where in it, so a
misplaced or overlapping region shows as a wrong read.  `cache` is the file
through the page cache, `disk` what a power failure keeps; `Writeback` moves one
page at a time, in any order.  `create` opens with truncation: `committed` says
whether the truncated file, rather than the one before it, is on disk.
`finalize` is `WriteSeal` and, when its msync has returned, `Finalized`.
What the writer flushes is the mapping (`writer.rs:212`, `:221`): an msync makes the
file's pages and its length durable (`Sync`), not the path.  Neither the file nor its
directory is fsynced, so for a path that `create` made (`writer.rs:58-63`) `linked`
says whether its directory entry is on disk; `EntryWritten` is the kernel putting it
there, at any time or never, and `Survives` is what a power failure leaves of the
path: the file's durable bytes, or nothing.  A store that goes that way, finalized or
not, is "lost", a phase of `made` of which the model promises nothing more.
A failed msync leaves the cache as it was: a kernel that drops the dirty pages it
could not write, so that even the running system reads old bytes, is not modelled, and
`KilledFinalizeIsWhole` says nothing of it.
Reading is not an action: `Opens` and `Contents` are what `open` and the typed
reads return for a file.

The header is one value per schema; names and dtypes, whose mismatches are
refused before anything changes, are left out.  Excluded as in
`src/store/mod.rs:80`: a second writer, and a reader while the writer lives.

### ViewerMap

One dimension of the world, in integer units; a zoom level is what the wheel
leaves after so many steps of 1.15, and shows `Width[level]` units.  `timer` is
`_settleTimer`, `frames` the queue of animation frames, "hot" from
`scheduleRenderMap` (`_mapRafPending` is: a hot one is queued) and "cold" from the
settle.  A frame queue is run one callback per step with events in between, which
is more than a browser interleaves.

| code | here |
| --- | --- |
| `fitMap`, `renderMap` | `Refit`, `RenderMap` |
| `drawMapFill`, `drawMapPoints` (the same algorithm on two layers) | `Usable`, `Baked`, `Draw` |
| a negative scale | `zoom = Broken`, `DrawBroken` |
| `scheduleSettle`'s callback | `Settle` |
| the frames' callbacks | `Frame` |
| `onwheel`, dragging, the panel's rows, `selectTab`, `resize`, `visibilitychange` | `Wheel`, `Drag`, `SelectFill`, `ToggleLayer`, `FlipColormap`, `SelectTab`, `Resize`, `Hide`, `Unhide` |

`screen` records what the last render put on the canvas: the view it was drawn
in and, per layer, the bitmap or ring it came from.  `cut` is a history variable:
a settle was lost (the timer fired on another tab, or the document was hidden) or
another fill was selected since the ring was last chosen; `RingSettles` excludes
those cases because the code does not handle them (see below).  The rest of the
canvas is drawn afresh by every render and left out, and so are hover readouts.

### ViewerSection

The page, its requests and the server in one module, because what matters is
between them.  A request goes from "queued" (the listening socket) through
"running" (its thread) and "answered" (on its way back) to "done"; a reload makes
those of the old page "gone".  Providers return a section with or without columns
or raise, in any order.  The server may be interrupted (`Interrupt`, `Close`,
`CleanUp` are the three steps of `serve`'s `finally`) and its process may end at
any time (`Exit`).

The notice `#empty` is shared by all tabs, and two of them write it without looking
at which is shown.  `late` holds those that still may: "map" once a wheel or drag has
asked for a frame (`MapFrame`: the frame of `scheduleRenderMap`, or that of the settle
timer, whose `renderMap` hides the notice), "volume" once the volume tab was shown
(`VolumeAnswer`: a decode that is stored, fails or times out, a re-cut that is adopted
or fails).  Which of the two a module of its own settles (`ViewerMap`, `ViewerVolume`)
is not repeated here: either may come any number of times, and hides the notice or
puts its own there.  `overwritten` says that the last to write the notice was the code
of a tab that is not shown.

A live label is the name and the number appended to it; that no well's id is
another's followed by a number is an assumption of the model (below).  File mode,
the remaining tabs (the volume tab stands for them), the static files and what a hover
reads are left out.

### Formula, SgsSweep, ConvergentGridder, MapBlocks

Sequential algorithms, one action per loop iteration, over every small input.
Each is abstracted to what its properties tell apart: an expression is the names
it reads; a simulated score is the layer and node or datum it comes from, and a
draw is what it was conditioned on; a held node is a sum and a count; a block's
bytes are its words, and the digest is the bytes (no collisions of SHA-256).
`Formula` implements `BlockEvaluation`, which has no queue and no order: `done` is
what the order has been walked through, and the block is open until it is refused,
misses an input or is done.
`SgsSweep` has a lattice of one dimension, leaves ties of the neighbour search open, and
of the scratch has what outlives a node (`inf_pos`, `inf_val`, `path`, `nb`), not the
neighbours and kriging buffers that are cleared for each; `ConvergentGridder` leaves the relaxation between held nodes out;
`MapBlocks` leaves out base64, f32 rounding and the size threshold.

The four share one run: `MCLibrary` composes them with a `subject` that says
which of them a behaviour is of; the others stay at an idle initial state.

## Runs

| run | shows | states |
| --- | --- | --- |
| `volume_tab` | no decode unwatched, no stray spinner, no silent blank, no recolour without a mesh, no foreign colours | 1.9 million |
| `volume_settles` | the tab settles on the last re-cut; every decode ends | 37 thousand |
| `container_saves` | the container implements `AtomicProjects`; blobs stay under their entries; merges are last-writer-wins | 0.8 million |
| `store_durability` | finalized stores read back, after a power failure too once their path is on disk; unsealed ones never open; a killed finalize is harmless | 0.61 million |
| `map_tab` | once no frame is pending the map shows the state of now, from good bitmaps; one repaint per frame; the ring settles; nothing runs unseen; it comes to rest | 0.45 million |
| `live_sections` | every request ends; labels match sections; no answer is lost or shown twice; the canvas is the selected section's and a blank one is explained unless another tab took the notice; a serving server's page loads | 0.24 million |
| `library` | a block is evaluated as its formulas demand; none reads a shadowed input and every cycle is found; nothing of one layer of a session reaches the draws of the next; controls hold their last value where no scatter snapped; blocks read back | 0.12 million |
| `volume_stale_shell`, `volume_map_spinner`, `volume_colormap`, `container_name_clash`, `store_torn_seal` | each shows one thing a comment says and the code does not do (see below) | |

**Bounds.**  `volume_tab` has two re-cuts (three envelopes: one to be superseded,
one that decimates, one over the cap; the boot envelope is a sidecar) and three
other user actions, two of which reach and leave the volume tab and one of which
does harm in between; every property concerns at most two decodes, a reply and a
timer.  `volume_settles` makes every envelope inline and decodable, which
`SettlesOnPayload` needs: with a sidecar the posting order is the order in which
the fetches complete, with a crash the last decode may be the one that failed.
`container_saves` has two interchangeable processes, two paths, three calls (two
saves and a merge or filter of them) and one power failure; two projects with one
common and one private section each.  `store_durability` creates two stores (one
truncates the other), writes two regions and has one power failure; page, seal
and alignment are scaled so that a page holds several slabs, both seals cross a
page boundary and a lane ends off the alignment.

`map_tab` has two fills (one with a coarse ring, whose cells get too small at two
of the levels), four zoom levels (two steps are in the band of a bitmap, three are
not), data a little wider than a view so that windows are clamped, empty and
partly covered, caps that two of the windows exceed, and five user actions: a
gesture, what interrupts it, and a way back.  `live_sections` has two wells, one
with a section in the payload, four requests (the load and three sections, or a
reload) and four user actions; with three sections in flight every order of
answers happens, and a gesture on the map, a visit to the volume tab and the way from
there to the section tab fit as well.  `library` takes every block of three formulas over three names
with and without inputs of the same names, two layers of up to three data on four
nodes (collisions and off-lattice data included), two batches of two controls over
two scattered points, and maps of three fields chosen to collide: blocks of equal
words and different dtype, shape or kind.

**Deadlock** is not checked: users stop clicking, and calls are bounded.

**Fairness.**  `DecodeEnds` assumes only that `setTimeout` fires
(`WF(WatchdogFires)`), not that the worker ever answers: that is what the watchdog
is for.  `MapSpinnerEnds` is refuted under more: the worker takes messages, and
the page handles replies and errors (`LiveWorkerSpec`), so the counterexample is
not a system that stopped.  `ComesToRest` assumes that the settle timer fires and
that frames of a visible document run; the user need not do anything.
`EveryRequestEnds` assumes that the page's event loop runs, the server accepts,
providers return or raise (a provider that blocks for ever blocks its request in
the code too) and an interrupted server goes on to close.

**Mutants.**  Every property of a passing run has a wrong variant of one modelled
definition (marked "Wrong on purpose") under which it fails: a timer not re-armed,
a spinner not taken down, a silent failure, a recolour posted too early, a worker
that keeps the first mesh, a rename without sync, a lookup one off, a seal
trusted too early, lanes packed as if they had one slab, a bitmap reused under
another ring, a tab rendered before its pane is shown, a section labelled by its
request, scores that are not cleared between layers, and so on.

## What the code does and its comments do not say

1. `volume_stale_shell`: a worker reply does not name its envelope, and
   `onV3Decoded` (`40-volume.js:362`) takes it for the payload of the moment.  After
   a re-cut the old mesh passes for "Already decoded for THIS payload"
   (`40-volume.js:248`) until the newer reply comes; if that one fails, it stays.
2. `volume_colormap`: the shell is stamped with the colormap of the moment, not
   with the one it was baked with; a flip during a decode is lost.
3. `volume_map_spinner`: an exception in the worker while it decodes the map
   leaves "Decoding map…" up for ever (`40-volume.js:191`), against "an
   upstream/worker fault must never hang the UI" (`40-volume.js:19`).
4. `container_name_clash`: sections are unique by kind and name, but looked up by
   name (`format.rs:170`); a filter or merge of a project with one name under two
   kinds copies the wrong blob, against "copying blobs verbatim" (`format.rs:222`).
5. `store_torn_seal`: `finalize` writes the seal and syncs everything at once
   (`writer.rs:220`); a power failure in between can leave the seal without the
   data, and the store opens, against "the partial-write / not-finalized detector"
   (`layout.rs:94`).  A kill without a power failure is harmless
   (`KilledFinalizeIsWhole`).

Met while modelling, and kept in the models as the code has them; no run is about
them alone:

- *Map.*  The LOD ring stays stale after leaving or hiding the tab within the
  debounce, and after another fill is selected (`cut`).  A bitmap in the zoom band
  is not baked again on settle, though `20-map.js:887` says "re-bake once the zoom
  settles".  A frame asked for on the map tab that runs after a tab switch and a
  resize fits the view to a canvas one pixel wide: the scale is negative
  (`Broken`), and returning to the tab keeps it until the next resize there.
- *Notices.*  A blank section tab may be silent: the notice that says why is taken
  down by a frame of the map asked for before the tab switch (`20-map.js:314` and
  `:658`, through `:323`), by a decode that ends (`40-volume.js:375`, `:196`, `:321`) and
  by a re-cut that fails (`40-volume.js:485`), none of which look at the tab.
  `ShownOrSaid` without its exception for `overwritten` fails on each of them.
- *Store.*  `finalize` is "seal + sync" (`mod.rs:72`), but what it syncs is the
  mapping: the new path itself may not survive a power failure (`linked`).
- *Sections.*  A section without columns, or without reservoir layers, returns early
  (`30-section.js:12`, `:53`) and leaves `S._sectionHit` as it was, so a hover over the
  blank canvas reads the previous section; nothing in the code says otherwise.  A live label such as
  "A 2" equals the id of a well "A 2", and a click on that well then shows the
  section of A.  A provider that returns `None` sends `null`, on which
  `renderSection` throws.  A payload with sections and no `section_labels` puts
  live labels against the wrong sections.  A double click adds two fence points.
- *Server.*  The temporary directory is left behind when the bind fails, and in
  the non-blocking mode; threads are not joined before it is removed.
- *Library.*  `ConvergentGridder` averages a control with scatter that snapped to
  its node, though `convergent.rs:21-22`, `:34` and `:58` ("held to `z` as a hard
  constraint") and the test at `:171` say that the node takes the control's value.
  `HoldsTheLatest` excludes that node: it claims a control's value only where no
  scatter snapped.  Two data on one node: the field ends
  with the last, the draws are conditioned on the first (`sweep.rs:65` says so).
  The digest of a block does not cover dtype and shape, and the page takes lengths
  from the entry's shape: six zero values and two zero points share an entry, and so
  do a triangles block of the one triangle (0, 2, 4) and the offsets of two lines of
  two points; whichever was added second is read with the other's length
  (`Unambiguous` in `ReadsBack` excludes exactly these).

## Proofs

`ViewerVolumeProofs` assumes only the assumptions on constants in `ViewerVolume`.

- `TypeCorrect`: `Spec => []TypeOK`.  The type is split into what a rendering can
  change and what it cannot, so that the four ways through `renderVolumeV3` and
  the three ways a decode ends are each proved once.
- `ShellSafe`: the inductive invariant `ShellInv`.  Three conjuncts are properties
  of the run; they are not inductive alone, because re-entering the tab may take
  the `Redraw` path, which clears the banner and starts nothing.  The fourth says
  why that is no blank: a shell that would be redrawn for the payload is on
  screen.  `NoHang`, `NoStraySpinner` and `NoLastingBlank` follow.
- `ColourSafe`: `ColoursBelongToMesh` depends on replies that have not come yet, so
  `ColourInv` speaks of the queues.  `InStep` says that each `recolored` reply in the
  page's queue is of the mesh of the last `decoded` before it, or, if there is none,
  of the mesh on screen, and that the worker will then hold the last of them;
  `MeshHeld` that whoever may ask for colours knows of a mesh in the worker;
  `ShellOK` that the page's shell is what is drawn.  Lemmas say what appending to
  and taking from a queue does to `InStep`.  `RecoloursHaveMesh` and `ColoursMatch`
  follow.
- `SettlesOnLatest`, assuming `OnlyInline` (no sidecar, nothing over the cap, every
  decode succeeds): the last decode in the worker's queue is of the payload; if there
  is none, the last one in the page's queue is; if there is none either, the mesh is.

`ContainerProofs`:

- `CallsInv`: the invariant `Inv`.  Every file a path names, now or on disk, is
  whole and synced; no two calls write one path; the temporary file of a path
  follows the call that writes it, and is whole and synced once the call is at its
  rename.  The exclusion of writers is what makes the third inductive.
- `NeverCorrupts`: `Spec => []NeverCorrupt`, for any number of power failures.
- `SavesAreAtomic`: `Spec => AtomicSaves`, the refinement of `AtomicProjects` with
  what each path names as a reader would see it.  Under `Inv` a step either
  leaves what the paths name as it was, or renames a whole project onto one of
  them, or loses power and brings back what was on disk, which is whole too.
- `TypeCorrect`: `Spec => []TypeOK`; whatever is looked up by name is there.
- `BlobsStayMatched` and `LastWriterAlwaysWins` assume `OrderlySaves`: within a
  project a name names one section, and over all of them a name is of one kind.
  (The run `container_name_clash` shows that without it the first is false.)  The
  invariant `Tidy` is that every project in a file or under way has sections that
  were saved, under names that differ.  What `merge_to` computes is an induction over
  the sections it takes (`TakeAllReplaces`), on lemmas that say what `Only` and
  `TakeAll` do with one section more; that the folds behind them are well defined is
  `SelectingExists` and `TakingExists`.

`StoreProofs` assumes the sizes and bounds of `StoreLayout` and `Store` and that
`Schemas` is a sequence of schemas (`SchemasAssumption`), and proves all four
safety properties of its run.

- The layout first: the recursion of `LaneOffsets` is well defined, lanes start
  after the header and after the lane before, and so the regions of a schema lie
  apart and before the seal.  Each is an induction over the lanes, done with a
  least counterexample (`Least`), since the library's induction theorems cannot
  be instantiated.
- `StoreInv`: `Inv` says what is in the cached file at each phase of the writer
  (`FillingHolds`, `SealHolds`), that no byte of a seal is in it or on disk while it is
  being filled (`Unsealed`), and that after `finalize` the disk is the cache
  (`FinalOnDisk`).  `FinalizedStays` reads: what `finalize` returned from is whole in the
  cache, and after a power failure too unless that took the path.  A write keeps the other regions because they lie apart; a
  writeback of some pages of a file without a seal gives a file without a seal.

`ViewerMapProofs` assumes the assumptions on constants of `ViewerMap` and proves
all six safety properties of its run, the action property included.

- `MapInv`: `Inv` is the type, `ScreenIsCurrent`, and three facts that make it
  inductive: pending frames are of four shapes, and a lone cold frame has no timer
  armed (so the settle never asks twice); the ring is the wanted one whenever no
  timer is armed and no settle was cut, on any tab; nothing runs unseen.  Actions
  are split once into those that render (`Rendered`: whatever is shown afterwards
  is current) and those that do not (`Unrendered`).

`ViewerSectionProofs` proves all five safety properties of its run.

- `SectionsInv`: `Inv` adds to the properties that a live section keeps the number
  of the request it answers and that requests not yet made are blank (`Numbered`),
  that delivered answers are kept (`AnswersKept`), that one load is in flight while
  the page is loading and none after (`Loads`), and that the directory is there
  while the server serves (`Serves`).  What is on the section tab is `Screen`: the
  actions are split into those that render it (`RenderedShows`), those of other tabs'
  code, which leave the canvas alone and own up to the notice (`OverwrittenShows`), and
  those that leave both.

`FormulaProofs`, for blocks of any size over any finite set of names:

- `OrderInv`: the count of a formula is the number of its dependencies that are
  not ordered; the queue holds, without repetition, exactly the unordered formulas
  whose count is zero; what is ordered has all its dependencies ordered before it;
  no set of formulas that block one another ever enters the order.
- `CyclesFound`: with an empty queue, the formulas left over are the largest such
  set: each has a positive count, so it reads one that is left over too; that set
  is what the message names.  `NoStaleRead` follows from the order alone.
- `OrderImplementsDemand`: `FormulaSpec => EvaluatesOnDemand`.  The ordering is not
  seen, since nothing is evaluated before it ends (`Waits`).  A refusal needs that
  the block has no meaning (`OrderableMeans`: some are stuck or two have one name);
  a walk one further along the order is an evaluation because the next formula has
  all it depends on (`NextIsReady`, from `Sound`) and so finds among the values just
  the names its block assigns.
- `FormulaTypeCorrect`: no count of dependencies goes below zero.

`GriddingProofs`, first of `SgsSweep`, for lattices, neighbourhoods and sessions of any
size:

- `SweepInv`: the path has each node without data, once; the informed list has,
  once each, the nodes with data and those walked so far (`ListOK`), with each
  node's own score of this layer and the place the search index gives it.  The
  start of a layer needs that a finite set of naturals can be put in ascending
  order in one way (`AscendingExists`) and that a repetition-free walk as long as
  the set visits all of it (`Covers`); a draw adds a node that was not informed.
- `NothingLeaks`, `EveryNodeOnce` and `DataStay` are the three properties.

then of `ConvergentGridder`, for batches of any controls:

- `SessionsStayBounded`: each controlled node owns one sample beyond the scatter,
  at its place (`Owned`).  One control preserves this (`OneControl`: two nodes
  never own one sample, since it lies at one place), and a batch is a recursion
  over its controls, well defined by `StepsExist`.
- `ControlsHold`: a node's sample has the value of the last control that named it
  (`LatestUpTo`, along the batch), and beyond the scatter nothing else lies there, so
  the samples at a node are its scatter and at most one more: where there is no
  scatter, that one.  (`HeldWithScatter` also says what the solve holds where there is.)  What the solve holds
  is then a sum over a set and one more element; that such sums do not depend on the
  order in which `MapThenSumSet` takes the elements is `TakeAny`, by a smallest set
  for which it would fail (`SmallestSet`).

`MapBlocksProofs` assumes of the fields of a map what the payload builder gives:
rows of words for points, nodes, triangles and values, polylines of points for lines
(`FieldsAssumption`, with any of the numbers but a triangle's missing), and that a
missing number is none (`NoneAssumption`).

- `TableInv`: an encoded field's markers are the words of its blocks; the table has
  those words and no others, each with the dtype and the row count of one such block;
  the page's cache has them decoded by their entry's dtype.
- `BlocksReadBack`: `BlocksSpec => []ReadsBack`.  Blocks are concatenations folded over
  sequences of rows, used through the defining equation of the fold.  By least
  counterexamples over the rows, each lies where the rows before it end (`RowLies`,
  `WideRows`), so cutting the words at those places gives the rows back
  (`WordsDecode`, and `OffsetsDecode` for polylines).  Adding a field's one or two
  blocks to the table keeps the entries that are there (`FoldExtends`), and a block of
  an unambiguous map has one meaning (`OneMeaning`), so whichever field added it first
  wrote the dtype and the row count that all of them need.

Only model-checked: the liveness properties (`DecodeEnds`, `ComesToRest`,
`EveryRequestEnds`), which are out of the prover's reach.  Every other property of a
passing run is proved.

## What is left

In the order of its worth: abstract specifications of the store and of the section
tab's requests, with proofs of their refinement; fault injection in the container
without the exclusion of concurrent writers, once the code promises something about
them.

Not modelled, and why: kriging, the relaxation and factorisation of minimum
curvature, variograms, distributions, statistics, interpolation and units compute
over reals, which TLC does not have; synth and asset generate data; payload
builders keep no state; most drawing (wells, charts, 3-D scene; on the map and the
section whatever is drawn afresh) is synchronous, without timers or messages, and
what outlives a render (the hover's hit boxes, the built 3-D scene) is set anew or
brought up to date by the next one that draws; three.js is vendored, and is most of the lines of the
viewer's assets; the Python bindings only convert arguments; `wait_for_pypi.py` is one sequential loop.
