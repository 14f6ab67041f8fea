---------------------------- MODULE ViewerVolume ----------------------------
(***************************************************************************)
(* The volume tab of the browser viewer (viewer/40-volume.js), the decode  *)
(* worker it shares with the 2-D map (decode.js, 20-map.js), the tab       *)
(* switch that re-renders it (10-chrome.js) and the shared notice surfaces *)
(* (70-overlays.js), in server mode, on a payload that has a v3 volume and *)
(* a binary-block map.  The state starts where boot() ends, on the map     *)
(* tab.                                                                    *)
(*                                                                         *)
(* A volume envelope is the number of the re-cut request it answers; 0 is  *)
(* the boot payload's.  What an envelope is (its stride under the triangle *)
(* budget, sidecar or inline, over the memory cap or not) is constant; how *)
(* its decode ends (`fate`) is chosen once, in Init.  A hung worker is a   *)
(* worker that takes no more steps: nothing here makes it take one.        *)
(***************************************************************************)
EXTENDS Naturals, Sequences

CONSTANTS
  MaxCuts,    (* bound: re-cut requests the user makes                   *)
  MaxClicks,  (* bound: every other user action                          *)
  Colormaps,  (* the selectable colormaps                                *)
  InitialMap, (* the one selected at boot                                *)
  Stride,     (* decimation stride of each envelope (1 = full)           *)
  Sidecar,    (* envelopes whose blocks come from ./model.bin            *)
  TooLarge,   (* envelopes over INLINE_BYTES_LIMIT                       *)
  Fates,      (* how a decode may end: some of "ok", "empty", "throws"   *)
  MapFates,   (* how the map's decode may end: some of "ok", "throws"    *)
  HasWorker,  (* the values `new Worker` may give: some of TRUE, FALSE   *)
  NoEnv,      (* "no envelope": a null object or timer                   *)
  NoMap       (* "no colours yet"                                        *)

Env == 0..MaxCuts

ASSUME BoundsAssumption    == MaxCuts \in Nat /\ MaxClicks \in Nat
ASSUME ColormapsAssumption == InitialMap \in Colormaps /\ NoMap \notin Colormaps
ASSUME EnvAssumption       == /\ NoEnv \notin Env
                              /\ Stride \in [Env -> Nat \ {0}]
                              /\ Sidecar \subseteq Env
                              /\ TooLarge \subseteq Env
ASSUME FatesAssumption     == Fates \subseteq {"ok", "empty", "throws"}
ASSUME MapFatesAssumption  == MapFates \subseteq {"ok", "throws"}
ASSUME WorkerAssumption    == HasWorker \subseteq BOOLEAN

VARIABLES
  payload,    (* App.payload.volume                                      *)
  vol3,       (* the decoded shell, or the decode in flight, or null     *)
  watchdog,   (* the envelope _decodeWatchdog is armed for, or NoEnv     *)
  overlay,    (* the #empty notice: "none" or what it says               *)
  banner,     (* the #banner notice: "none" or what it says              *)
  colormap,   (* S.colormap                                              *)
  tab,        (* App.tab                                                 *)
  drawn,      (* three.geo: whose positions, whose colours, which map,   *)
              (* and whether its index shows any triangle                *)
  worker,     (* _worker # null                                          *)
  toWorker,   (* messages the worker has not handled, in order           *)
  toPage,     (* replies the page has not handled, in order              *)
  errors,     (* worker error events not yet dispatched to onerror       *)
  keep,       (* the worker's _keep: the envelope it recolours           *)
  binFetch,   (* fetches of model.bin in flight: how many, per envelope  *)
              (* and the colormap their decode was asked with            *)
  cutFetch,   (* re-cut requests in flight                               *)
  asked,      (* re-cut requests made                                    *)
  clicks,     (* other user actions taken                                *)
  mapPending, (* App.payload.map.__blocksPending                         *)
  mapFrame,   (* an animation frame that will call renderMap is asked for *)
  fate,       (* how the decode of each envelope ends                    *)
  mapFate     (* how the decode of the map's blocks ends                 *)

vars == <<payload, vol3, watchdog, overlay, banner, colormap, tab, drawn,
          worker, toWorker, toPage, errors, keep, binFetch, cutFetch, asked,
          clicks, mapPending, mapFrame, fate, mapFate>>

workerSide == <<keep, errors, fate, mapFate>>
userSide   == <<asked, clicks, mapFrame>>

-----------------------------------------------------------------------------
(* vol3, three.geo and the messages *)

(* Wrong on purpose: a null shell without its default stride.              *)
NullMeshWithoutStride == [for |-> NoEnv, decoding |-> FALSE, stride |-> 0,
                          src |-> NoEnv, label |-> NoMap]

NullMesh == [for |-> NoEnv, decoding |-> FALSE, stride |-> 1,
             src |-> NoEnv, label |-> NoMap]
Pending(v) == [NullMesh EXCEPT !.for = v, !.decoding = TRUE, !.stride = Stride[v]]
Decoded(v, src, stride, c) ==
  [for |-> v, decoding |-> FALSE, stride |-> stride, src |-> src, label |-> c]

Message(cmd, env, c) == [cmd |-> cmd, env |-> env, colours |-> c]

WorkerMessage == [cmd: {"decode"}, env: Env, colours: Colormaps]
                 \cup [cmd: {"recolor"}, env: {NoEnv}, colours: Colormaps]
                 \cup [cmd: {"decode2d"}, env: {NoEnv}, colours: {NoMap}]
PageMessage   == [cmd: {"decoded", "recolored"}, env: Env, colours: Colormaps]
                 \cup [cmd: {"decoded2d"}, env: {NoEnv}, colours: {NoMap}]

Shells   == [for: Env \cup {NoEnv}, decoding: BOOLEAN, stride: Nat \ {0},
             src: Env \cup {NoEnv}, label: Colormaps \cup {NoMap}]
Drawings == [src: Env \cup {NoEnv}, colSrc: Env \cup {NoEnv},
             colours: Colormaps \cup {NoMap}, shown: BOOLEAN]
Overlays == {"none", "mapdecoding", "decoding", "recut", "stalled", "empty"}
Banners  == {"none", "decimated", "toolarge", "stalled", "empty", "worker",
             "decode", "modelbin", "recut"}

TypeOK ==
  /\ payload \in Env
  /\ vol3 \in Shells
  /\ watchdog \in Env \cup {NoEnv}
  /\ overlay \in Overlays
  /\ banner \in Banners
  /\ colormap \in Colormaps
  /\ tab \in {"map", "volume"}
  /\ drawn \in Drawings
  /\ worker \in BOOLEAN
  /\ toWorker \in Seq(WorkerMessage)
  /\ toPage \in Seq(PageMessage)
  /\ errors \in Nat
  /\ keep \in Env \cup {NoEnv}
  /\ binFetch \in [Env \X Colormaps -> Nat]
  /\ cutFetch \subseteq 1..MaxCuts
  /\ asked \in 0..MaxCuts
  /\ clicks \in 0..MaxClicks
  /\ mapPending \in BOOLEAN
  /\ mapFrame \in BOOLEAN
  /\ fate \in [Env \ TooLarge -> Fates]
  /\ mapFate \in MapFates

(* After boot(): the map's blocks were posted to the worker, or decoded on *)
(* the spot when there is none (a boot whose own decode throws stops with  *)
(* a banner and has no volume tab), and the map tab was rendered.          *)
Init ==
  /\ payload = 0 /\ vol3 = NullMesh /\ watchdog = NoEnv
  /\ worker \in HasWorker
  /\ mapPending = worker /\ mapFrame = FALSE
  /\ toWorker = IF worker THEN <<Message("decode2d", NoEnv, NoMap)>> ELSE <<>>
  /\ overlay = IF worker THEN "mapdecoding" ELSE "none"
  /\ banner = "none" /\ colormap = InitialMap /\ tab = "map"
  /\ drawn = [src |-> NoEnv, colSrc |-> NoEnv, colours |-> NoMap, shown |-> FALSE]
  /\ toPage = <<>> /\ errors = 0 /\ keep = NoEnv
  /\ binFetch = [f \in Env \X Colormaps |-> 0] /\ cutFetch = {} /\ asked = 0 /\ clicks = 0
  /\ fate \in [Env \ TooLarge -> Fates] /\ mapFate \in MapFates

-----------------------------------------------------------------------------
(* How a decode ends on the page *)

(* colormap' is S.colormap once the action's own assignments are done.     *)

(* onV3Decoded with triangles, then buildVolumeV3Geometry: the mesh of     *)
(* `src`, coloured with map c, becomes the decoded shell of v.             *)
ShowMesh(v, src, c) ==
  /\ watchdog' = NoEnv
  /\ vol3' = Decoded(v, src, Stride[src], colormap')
  /\ overlay' = "none"
  /\ banner' = IF Stride[src] > 1 THEN "decimated" ELSE "none"
  /\ drawn' = [src |-> src, colSrc |-> src, colours |-> c, shown |-> TRUE]

(* onV3Decoded with zero triangles: refuse in the tab, hide the mesh.      *)
ShowEmptyMesh ==
  /\ watchdog' = NoEnv
  /\ vol3' = NullMesh
  /\ overlay' = "empty"
  /\ banner' = "empty"
  /\ drawn' = [drawn EXCEPT !.shown = FALSE]

(* Wrong on purpose: a failed decode that leaves the spinner up.           *)
DecodeFailedUnderSpinner(b) ==
  /\ watchdog' = NoEnv
  /\ vol3' = NullMesh
  /\ banner' = b
  /\ UNCHANGED <<overlay, drawn>>

(* Wrong on purpose: a failed decode that says nothing.                    *)
DecodeFailedSilently(b) ==
  /\ watchdog' = NoEnv
  /\ vol3' = NullMesh
  /\ overlay' = "none"
  /\ UNCHANGED <<banner, drawn>>

(* A decode that failed: the state is reset and banner b says why.         *)
DecodeFailed(b) ==
  /\ watchdog' = NoEnv
  /\ vol3' = NullMesh
  /\ overlay' = "none"
  /\ banner' = b
  /\ UNCHANGED drawn

(* decodeVolumeV3Sync: the decode runs to its end on the page's thread.    *)
DecodeSync(v, c) ==
  /\ UNCHANGED toWorker
  /\ \/ fate[v] = "ok"     /\ ShowMesh(v, v, c)
     \/ fate[v] = "empty"  /\ ShowEmptyMesh
     \/ fate[v] = "throws" /\ DecodeFailed("decode")

-----------------------------------------------------------------------------
(* renderVolume, as called with envelope v when the shell state is m: one  *)
(* disjunct per way through renderVolumeV3.                                *)

(* Wrong on purpose: recolours a decode in flight too.                     *)
RedrawEagerly(v, m) ==
  /\ m.for = v /\ m.stride >= Stride[v]
  /\ vol3' = [m EXCEPT !.label = colormap']
  /\ overlay' = "none"
  /\ toWorker' = IF m.label # colormap' /\ worker
                 THEN Append(toWorker, Message("recolor", NoEnv, colormap'))
                 ELSE toWorker
  /\ UNCHANGED <<banner, drawn, watchdog, binFetch>>

(* Already decoded for v: recolour if the colormap moved, else repaint.    *)
Redraw(v, m) ==
  /\ m.for = v /\ ~m.decoding /\ m.stride >= Stride[v]
  /\ vol3' = [m EXCEPT !.label = colormap']
  /\ overlay' = "none"
  /\ banner' = IF m.stride > 1 THEN "decimated" ELSE "none"
  /\ IF m.label = colormap' THEN UNCHANGED <<toWorker, drawn>>
     ELSE IF worker
     THEN /\ toWorker' = Append(toWorker, Message("recolor", NoEnv, colormap'))
          /\ UNCHANGED drawn
     ELSE /\ drawn' = [drawn EXCEPT !.colSrc = m.src, !.colours = colormap']
          /\ UNCHANGED toWorker
  /\ UNCHANGED <<watchdog, binFetch>>

(* In flight: renderVolume has hidden the overlay, nothing else happens.   *)
AwaitDecode(v, m) ==
  /\ m.for = v /\ m.decoding
  /\ vol3' = m
  /\ overlay' = "none"
  /\ UNCHANGED <<banner, drawn, watchdog, toWorker, binFetch>>

NeedsDecode(v, m) == m.for # v \/ (~m.decoding /\ m.stride < Stride[v])

(* Over the memory cap: hide the mesh and say so.                          *)
RefuseTooLarge(v, m) ==
  /\ NeedsDecode(v, m) /\ v \in TooLarge
  /\ vol3' = m
  /\ overlay' = "none"
  /\ banner' = "toolarge"
  /\ drawn' = [drawn EXCEPT !.shown = FALSE]
  /\ UNCHANGED <<watchdog, toWorker, binFetch>>

(* Wrong on purpose: a timer that is running already is not re-armed.      *)
DecodingArmedOnce(v) ==
  /\ vol3' = Pending(v)
  /\ watchdog' = IF watchdog = NoEnv THEN v ELSE watchdog
  /\ overlay' = "decoding"
  /\ banner' = "none"
  /\ UNCHANGED drawn

(* A decode starts: the state says so, the one timer is re-armed for it.   *)
Decoding(v) ==
  /\ vol3' = Pending(v)
  /\ watchdog' = v
  /\ overlay' = "decoding"
  /\ banner' = "none"
  /\ UNCHANGED drawn

(* decodeVolumeV3: arm the watchdog, then fetch model.bin, or post to the  *)
(* worker, or decode here and now.                                         *)
StartDecode(v, m) ==
  /\ NeedsDecode(v, m) /\ v \notin TooLarge
  /\ \/ /\ v \in Sidecar
        /\ Decoding(v)
        /\ binFetch' = [binFetch EXCEPT ![<<v, colormap'>>] = @ + 1]
        /\ UNCHANGED toWorker
     \/ /\ v \notin Sidecar /\ worker
        /\ Decoding(v)
        /\ toWorker' = Append(toWorker, Message("decode", v, colormap'))
        /\ UNCHANGED binFetch
     \/ /\ v \notin Sidecar /\ ~worker
        /\ DecodeSync(v, colormap')
        /\ UNCHANGED binFetch

RenderVolume(v, m) == \/ Redraw(v, m)
                      \/ AwaitDecode(v, m)
                      \/ RefuseTooLarge(v, m)
                      \/ StartDecode(v, m)

(* renderMap, as far as the shared notices go.                             *)
RenderMap ==
  /\ overlay' = IF mapPending' THEN "mapdecoding" ELSE "none"
  /\ UNCHANGED <<vol3, watchdog, banner, drawn, toWorker, binFetch>>

RenderActive == IF tab' = "map" THEN RenderMap ELSE RenderVolume(payload, vol3)

-----------------------------------------------------------------------------
(* The user *)

Click == clicks < MaxClicks /\ clicks' = clicks + 1

SelectTab(t) ==
  /\ Click
  /\ tab' = t
  /\ UNCHANGED <<payload, colormap, worker, toPage, cutFetch, asked, mapPending, mapFrame, workerSide>>
  /\ RenderActive

(* The colormap row; c = colormap is a theme toggle or a window resize,    *)
(* which re-render the tab in the same way.                                *)
FlipColormap(c) ==
  /\ Click
  /\ colormap' = c
  /\ UNCHANGED <<payload, tab, worker, toPage, cutFetch, asked, mapPending, mapFrame, workerSide>>
  /\ RenderActive

(* A zone toggle that leaves some triangles visible: applyVolumeV3Filter   *)
(* indexes vol3's triangles, none while it is being decoded.               *)
ToggleZone ==
  /\ Click
  /\ tab = "volume" /\ vol3 # NullMesh
  /\ drawn' = [drawn EXCEPT !.shown = ~vol3.decoding]
  /\ UNCHANGED <<payload, vol3, watchdog, overlay, banner, colormap, tab, worker,
                 toWorker, toPage, binFetch, cutFetch, asked, mapPending, mapFrame, workerSide>>

(* A wheel or drag event on the map asks for a frame, or the settle timer  *)
(* does on its account.                                                    *)
GestureOnMap ==
  /\ Click
  /\ tab = "map" /\ ~mapFrame
  /\ mapFrame' = TRUE
  /\ UNCHANGED <<payload, vol3, watchdog, overlay, banner, colormap, tab, drawn, worker,
                 toWorker, toPage, binFetch, cutFetch, asked, mapPending, workerSide>>

(* requestThresholdedVolume, from the threshold slider or the toggle.      *)
AskRecut ==
  /\ tab = "volume" /\ asked < MaxCuts
  /\ asked' = asked + 1
  /\ cutFetch' = cutFetch \cup {asked + 1}
  /\ overlay' = "recut"
  /\ UNCHANGED <<payload, vol3, watchdog, banner, colormap, tab, drawn, worker, toWorker,
                 toPage, binFetch, clicks, mapPending, mapFrame, workerSide>>

-----------------------------------------------------------------------------
(* The server's answers *)

(* Wrong on purpose: waits out the decode in flight, of the old envelope.  *)
RecutAnsweredWhileBusy(n) ==
  /\ n \in cutFetch
  /\ cutFetch' = cutFetch \ {n}
  /\ payload' = n
  /\ UNCHANGED <<colormap, tab, worker, toPage, mapPending, workerSide, userSide>>
  /\ IF vol3.decoding
     THEN UNCHANGED <<vol3, watchdog, overlay, banner, drawn, toWorker, binFetch>>
     ELSE RenderVolume(n, NullMesh)

RecutAnswered(n) ==
  /\ n \in cutFetch
  /\ cutFetch' = cutFetch \ {n}
  /\ payload' = n
  /\ UNCHANGED <<colormap, tab, worker, toPage, mapPending, workerSide, userSide>>
  /\ RenderVolume(n, NullMesh)

RecutFailed(n) ==
  /\ n \in cutFetch
  /\ cutFetch' = cutFetch \ {n}
  /\ overlay' = "none"
  /\ banner' = "recut"
  /\ UNCHANGED <<payload, vol3, watchdog, colormap, tab, drawn, worker, toWorker, toPage,
                 binFetch, mapPending, workerSide, userSide>>

(* model.bin came: `kick` posts the decode, or runs it.                    *)
BinArrived(v, c) ==
  /\ binFetch[<<v, c>>] > 0
  /\ binFetch' = [binFetch EXCEPT ![<<v, c>>] = @ - 1]
  /\ UNCHANGED <<payload, colormap, tab, worker, toPage, cutFetch, mapPending,
                 workerSide, userSide>>
  /\ \/ /\ worker
        /\ toWorker' = Append(toWorker, Message("decode", v, c))
        /\ UNCHANGED <<vol3, watchdog, overlay, banner, drawn>>
     \/ ~worker /\ DecodeSync(v, c)

BinFailed(v, c) ==
  /\ binFetch[<<v, c>>] > 0
  /\ binFetch' = [binFetch EXCEPT ![<<v, c>>] = @ - 1]
  /\ DecodeFailed("modelbin")
  /\ UNCHANGED <<payload, colormap, tab, worker, toWorker, toPage, cutFetch, mapPending,
                 workerSide, userSide>>

-----------------------------------------------------------------------------
(* The worker: one message per step.  A handler that throws posts nothing  *)
(* and raises an error event on the page; the worker itself goes on.       *)

page == <<payload, vol3, watchdog, overlay, banner, colormap, tab, drawn, worker,
          binFetch, cutFetch, mapPending, userSide, fate, mapFate>>

Reply(m) == toPage' = Append(toPage, m) /\ UNCHANGED errors
Throw    == errors' = errors + 1 /\ UNCHANGED toPage

(* Wrong on purpose: retains the first mesh for recolouring, not the last. *)
WorkerDecodesKeepingFirst(m) ==
  /\ m.cmd = "decode"
  /\ IF fate[m.env] = "throws" THEN Throw /\ UNCHANGED keep
     ELSE /\ keep' = IF keep = NoEnv THEN m.env ELSE keep
          /\ Reply(Message("decoded", m.env, m.colours))

WorkerDecodes(m) ==
  /\ m.cmd = "decode"
  /\ IF fate[m.env] = "throws" THEN Throw /\ UNCHANGED keep
     ELSE keep' = m.env /\ Reply(Message("decoded", m.env, m.colours))

WorkerRecolours(m) ==
  /\ m.cmd = "recolor"
  /\ UNCHANGED keep
  /\ IF keep = NoEnv THEN Throw ELSE Reply(Message("recolored", keep, m.colours))

WorkerDecodesMap(m) ==
  /\ m.cmd = "decode2d"
  /\ UNCHANGED keep
  /\ IF mapFate = "throws" THEN Throw ELSE Reply(Message("decoded2d", NoEnv, NoMap))

WorkerStep ==
  /\ toWorker # <<>>
  /\ toWorker' = Tail(toWorker)
  /\ \/ WorkerDecodes(Head(toWorker))
     \/ WorkerRecolours(Head(toWorker))
     \/ WorkerDecodesMap(Head(toWorker))
  /\ UNCHANGED page

-----------------------------------------------------------------------------
(* The page's event handlers *)

(* A `decoded` reply does not say which envelope it decodes: onV3Decoded   *)
(* takes it for App.payload.volume.                                        *)
OnDecoded(m) ==
  /\ m.cmd = "decoded"
  /\ \/ fate[m.env] = "ok" /\ ShowMesh(payload, m.env, m.colours)
     \/ fate[m.env] = "empty" /\ ShowEmptyMesh
  /\ UNCHANGED <<toWorker, binFetch, mapPending>>

(* applyRecolor: the colours go to the geometry, whatever vol3 is.         *)
OnRecolored(m) ==
  /\ m.cmd = "recolored"
  /\ drawn' = IF vol3 = NullMesh THEN drawn
              ELSE [drawn EXCEPT !.colSrc = m.env, !.colours = m.colours]
  /\ UNCHANGED <<vol3, watchdog, overlay, banner, toWorker, binFetch, mapPending>>

OnMap2dDecoded(m) ==
  /\ m.cmd = "decoded2d"
  /\ mapPending' = FALSE
  /\ IF tab = "map" THEN RenderMap
     ELSE UNCHANGED <<vol3, watchdog, overlay, banner, drawn, toWorker, binFetch>>

OnMessage ==
  /\ toPage # <<>>
  /\ toPage' = Tail(toPage)
  /\ UNCHANGED <<payload, colormap, tab, worker, cutFetch, workerSide, userSide>>
  /\ \/ OnDecoded(Head(toPage))
     \/ OnRecolored(Head(toPage))
     \/ OnMap2dDecoded(Head(toPage))

(* An error event: later decodes run on the page; the one in flight, if    *)
(* any, is reported as failed, whichever message raised the error.         *)
OnError ==
  /\ errors > 0
  /\ errors' = errors - 1
  /\ worker' = FALSE
  /\ IF vol3.decoding THEN DecodeFailed("worker")
     ELSE UNCHANGED <<vol3, watchdog, overlay, banner, drawn>>
  /\ UNCHANGED <<payload, colormap, tab, toWorker, toPage, keep, binFetch, cutFetch,
                 mapPending, fate, mapFate, userSide>>

(* The timer of startDecodeWatchdog(v).                                    *)
WatchdogFires ==
  /\ watchdog # NoEnv
  /\ watchdog' = NoEnv
  /\ IF vol3.for = watchdog /\ vol3.decoding
     THEN /\ vol3' = NullMesh
          /\ drawn' = [drawn EXCEPT !.shown = FALSE]
          /\ overlay' = "stalled"
          /\ banner' = "stalled"
     ELSE UNCHANGED <<vol3, drawn, overlay, banner>>
  /\ UNCHANGED <<payload, colormap, tab, worker, toWorker, toPage, binFetch, cutFetch,
                 mapPending, workerSide, userSide>>

(* The frame draws the map without asking which tab is shown.              *)
MapFrame ==
  /\ mapFrame
  /\ mapFrame' = FALSE
  /\ UNCHANGED <<payload, colormap, tab, worker, toPage, cutFetch, mapPending, workerSide,
                 asked, clicks>>
  /\ RenderMap

-----------------------------------------------------------------------------
User   == \/ \E t \in {"map", "volume"} : SelectTab(t)
          \/ \E c \in Colormaps : FlipColormap(c)
          \/ ToggleZone
          \/ GestureOnMap
          \/ AskRecut
Server == \/ \E n \in 1..MaxCuts : RecutAnswered(n) \/ RecutFailed(n)
          \/ \E v \in Env, c \in Colormaps : BinArrived(v, c) \/ BinFailed(v, c)

Next == User \/ Server \/ WorkerStep \/ OnMessage \/ OnError \/ WatchdogFires \/ MapFrame

Spec == Init /\ [][Next]_vars

(* setTimeout fires: the only scheduling the no-hang guarantee relies on.  *)
TimerSpec == Spec /\ WF_vars(WatchdogFires)

(* Beyond the timer: a worker that never hangs, and an event loop that     *)
(* dispatches what is queued.                                              *)
LiveWorkerSpec ==
  TimerSpec /\ WF_vars(WorkerStep) /\ WF_vars(OnMessage) /\ WF_vars(OnError)

-----------------------------------------------------------------------------
(* Safety *)

(* Every decode in flight is watched: the one timer is armed for exactly   *)
(* the envelope being decoded, however replies, errors, re-cuts and        *)
(* re-renders overtake one another.  (40-volume.js:275-278)                *)
DecodeIsWatched == vol3.decoding => watchdog = vol3.for

(* The "Decoding mesh" spinner is only ever up over a decode in flight, so *)
(* whatever ends the decode also takes the spinner down.                   *)
SpinnerMeansDecoding == overlay = "decoding" => vol3.decoding

(* A volume tab that shows no triangle and no banner is waiting for a      *)
(* decode: every way a decode can fail, and every way into the tab, leaves *)
(* a banner.  (The other notice, the overlay, may be taken down by a frame *)
(* of the map.)                                                            *)
BlankOnlyWhileDecoding ==
  tab = "volume" /\ ~drawn.shown /\ banner = "none" => vol3.decoding

(* The worker is never asked to recolour a mesh it does not hold.          *)
RecolourHasMesh ==
  \A i \in 1..Len(toWorker) :
    toWorker[i].cmd = "recolor" =>
      keep # NoEnv \/ \E j \in 1..(i-1) : toWorker[j].cmd = "decode" /\ fate[toWorker[j].env] # "throws"

(* Until the worker crashes, the triangles on screen never wear the        *)
(* colours of another envelope, although a `recolored` reply is applied    *)
(* without asking whose colours it brings.  (40-volume.js:420-426)         *)
ColoursBelongToMesh == worker /\ errors = 0 /\ drawn.shown => drawn.colSrc = drawn.src

(* Nothing is left that could still change what is drawn.                  *)
Settled == toWorker = <<>> /\ toPage = <<>> /\ errors = 0 /\ ~vol3.decoding
           /\ \A f \in DOMAIN binFetch : binFetch[f] = 0

(* With inline envelopes under the memory cap that all decode, the screen  *)
(* ends on the latest re-cut the page adopted, however many decodes that   *)
(* one superseded: replies come in posting order.                          *)
SettlesOnPayload == Settled /\ vol3 # NullMesh => vol3.src = payload /\ drawn.src = payload

(* Liveness *)

(* No endless spinner: even with a worker that hangs, every decode ends.   *)
DecodeEnds == \A v \in Env : (vol3.decoding /\ vol3.for = v) ~> ~(vol3.decoding /\ vol3.for = v)

-----------------------------------------------------------------------------
(* What the repository says and the code does not do *)

(* "Already decoded for THIS payload - just re-render" (40-volume.js:248): *)
(* a shell taken for the payload's was decoded from the payload.           *)
DecodedForThisPayload == ~vol3.decoding /\ vol3.for = payload => vol3.src = payload

(* "an upstream/worker fault must never hang the UI" (40-volume.js:19).    *)
MapSpinnerEnds == overlay = "mapdecoding" ~> overlay # "mapdecoding"

(* "recolour on a colormap flip" (40-volume.js:248-249).                   *)
ShowsSelectedColormap ==
  Settled /\ tab = "volume" /\ drawn.shown /\ vol3 # NullMesh => drawn.colours = colormap
=============================================================================
