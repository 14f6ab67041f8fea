------------------------------ MODULE ViewerMap ------------------------------
(***************************************************************************)
(* How the map tab repaints (viewer/20-map.js): wheel and drag ask for hot *)
(* animation frames, a settle timer chooses the LOD ring and asks for a    *)
(* cold frame, and the two bulky layers (the active fill and the points)   *)
(* are blitted from a bitmap baked by an earlier cold render while that    *)
(* bitmap is still good.  Everything else on the canvas is drawn afresh by *)
(* every render and has no state.                                          *)
(*                                                                         *)
(* The world has one dimension, in integer units; a zoom level shows       *)
(* Width[level] units, and one wheel step is the code's factor of 1.15.    *)
(* The queue of animation frames is run one callback per step, in order,   *)
(* with events in between: more interleavings than a browser has.          *)
(***************************************************************************)
EXTENDS Integers, Sequences

CONSTANTS
  Fills,        (* the value fills one can select                          *)
  HasLod,       (* those with a coarse ring                                *)
  FirstFill,    (* the one selected at boot                                *)
  Colormaps,
  FirstColormap,
  Width,        (* world units the canvas shows, per zoom level            *)
  CoarseBelow,  (* per fill, the level its cells get too small below       *)
  FitZoom,      (* the view fitMap chooses                                 *)
  FitLeft,
  Extent,       (* the data of both layers lies in -Extent..Extent         *)
  PanSteps,     (* how far one drag event may move                         *)
  MaxLeft,      (* bound: how far the user pans                            *)
  Rooms,        (* how many quarter canvases the bake caps leave room for, *)
                (* one per window size                                     *)
  MaxEvents,    (* bound: user actions                                     *)
  Broken,       (* the zoom of a view fitted to a one-pixel canvas         *)
  NoBake        (* "no bitmap"                                             *)

Level  == DOMAIN Width
Layers == {"fill", "points"}

ASSUME FillsAssumption  == HasLod \subseteq Fills /\ FirstFill \in Fills
ASSUME LookAssumption   == FirstColormap \in Colormaps
ASSUME LevelsAssumption == /\ Level = 1..Len(Width) /\ FitZoom \in Level
                           /\ \A z \in Level : Width[z] \in Nat /\ Width[z] > 2
                           /\ Broken \notin Level
ASSUME WorldAssumption  == /\ {FitLeft, Extent, MaxLeft} \cup PanSteps \subseteq Int
                           /\ MaxEvents \in Nat
ASSUME RoomsAssumption  == Rooms \subseteq Nat /\ Rooms # {}

VARIABLES
  tab,       (* App.tab, "map" or another                                  *)
  hidden,    (* document.hidden                                            *)
  view,      (* mapView: the zoom level and the world left edge            *)
  fitted,    (* mapView.fitted                                             *)
  room,      (* the size of the window, as the bake caps see it            *)
  fill,      (* S.mapFillIdx                                               *)
  shown,     (* S.showFills, S.showPoints                                  *)
  colormap,  (* S.colormap and the theme's tokens                          *)
  coarse,    (* S.lodActive                                                *)
  timer,     (* _settleTimer is armed                                      *)
  frames,    (* animation frames asked for: "hot" by scheduleRenderMap     *)
             (* (_mapRafPending), "cold" by the settle                     *)
  cache,     (* _fillCache, _ptCache                                       *)
  screen,    (* what is on the canvas: the view of the last render, and    *)
             (* what each layer was rasterised from, NoBake if not drawn   *)
  cut,       (* history: a settle was lost, or the fill changed, since the *)
             (* ring was last chosen                                       *)
  events     (* user actions taken                                         *)

vars == <<tab, hidden, view, fitted, room, fill, shown, colormap, coarse,
          timer, frames, cache, screen, cut, events>>

Larger(a, b)  == IF a > b THEN a ELSE b
Smaller(a, b) == IF a < b THEN a ELSE b

Views == [zoom: Level \cup {Broken}, left: Int]
Fit   == [zoom |-> FitZoom, left |-> FitLeft]
Bakes == {b \in [ref: (Fills \cup {"points"}) \X BOOLEAN, key: Colormaps,
                 zoom: Level, lo: Int, hi: Int] : b.lo < b.hi}

TypeOK ==
  /\ tab \in {"map", "other"}
  /\ hidden \in BOOLEAN
  /\ view \in Views
  /\ fitted \in BOOLEAN
  /\ room \in Rooms
  /\ fill \in Fills
  /\ shown \subseteq Layers
  /\ colormap \in Colormaps
  /\ coarse \in BOOLEAN
  /\ timer \in BOOLEAN
  /\ frames \in Seq({"hot", "cold"})
  /\ cache \in [Layers -> Bakes \cup {NoBake}]
  /\ screen.at \in Views /\ DOMAIN screen.drawn = Layers
  /\ cut \in BOOLEAN
  /\ events \in 0..MaxEvents

-----------------------------------------------------------------------------
(* One render.  It reads the state after the assignments of its action.    *)

(* computeLodActive, on a payload some fill of which has a coarse ring.    *)
WantsCoarse(v, f) == v.zoom = Broken \/ v.zoom < CoarseBelow[f]

(* fillRingFor, and the points array: the object a bitmap is of.           *)
Ring(l, f, c) == IF l = "points" THEN <<l, FALSE>> ELSE <<f, c /\ f \in HasLod>>

InBand(z, b) == 5 * Width[b] >= 4 * Width[z] /\ 4 * Width[b] <= 5 * Width[z]

(* The part of the data between the canvas edges, `margin` canvases wider  *)
(* on both sides; a canvas whose pane is hidden is next to nothing wide.   *)
Window(v, pane, margin) ==
  LET w == IF pane = "map" THEN Width[v.zoom] ELSE 2
  IN  [lo |-> Larger(v.left - (margin * w) \div 2, -Extent),
       hi |-> Smaller(v.left + w + (margin * w) \div 2, Extent)]

Covers(b, need) == need.lo >= need.hi \/ (b.lo <= need.lo /\ need.hi <= b.hi)

(* Wrong on purpose: a bitmap is not checked against the ring.             *)
UsableOfAnyRing(l, b, v, pane) ==
  /\ b # NoBake
  /\ b.key = colormap'
  /\ InBand(v.zoom, b.zoom)
  /\ Covers(b, Window(v, pane, 0))

Usable(l, b, v, pane) ==
  /\ b # NoBake
  /\ b.ref = Ring(l, fill', coarse') /\ b.key = colormap'
  /\ InBand(v.zoom, b.zoom)
  /\ Covers(b, Window(v, pane, 0))

Raster(l, v, w) == [ref |-> Ring(l, fill', coarse'), key |-> colormap',
                    zoom |-> v.zoom, lo |-> w.lo, hi |-> w.hi]

(* Wrong on purpose: bakes even what is off the canvas.                    *)
FitsCapsEvenEmpty(w, v, pane) ==
  pane = "map" => 4 * (w.hi - w.lo) <= room' * Width[v.zoom]

(* Not empty, and under the caps.                                          *)
FitsCaps(w, v, pane) ==
  /\ w.lo < w.hi
  /\ pane = "map" => 4 * (w.hi - w.lo) <= room' * Width[v.zoom]

(* The bitmap of a layer after a render in view v.                         *)
Baked(l, v, pane, kind) ==
  LET w == Window(v, pane, 1)
  IN  IF kind = "hot" \/ Usable(l, cache[l], v, pane) \/ ~FitsCaps(w, v, pane)
      THEN cache[l] ELSE Raster(l, v, w)

(* Wrong on purpose: any immediate draw asks for another settle.           *)
DrawEagerToSettle(v, pane, kind) ==
  /\ cache' = [l \in Layers |-> IF l \in shown' THEN Baked(l, v, pane, kind) ELSE cache[l]]
  /\ screen' = [at    |-> v,
                drawn |-> [l \in Layers |->
                  IF l \notin shown' THEN NoBake
                  ELSE IF Usable(l, cache'[l], v, pane) THEN cache'[l]
                  ELSE Raster(l, v, Window(v, pane, 0))]]
  /\ timer' = (timer \/ \E l \in shown' : ~Usable(l, cache'[l], v, pane))

(* drawMapFill, drawMapPoints: blit a usable bitmap, having baked one if   *)
(* the render is cold; else draw immediately and, when hot, settle later.  *)
Draw(v, pane, kind) ==
  /\ cache' = [l \in Layers |-> IF l \in shown' THEN Baked(l, v, pane, kind) ELSE cache[l]]
  /\ screen' = [at    |-> v,
                drawn |-> [l \in Layers |->
                  IF l \notin shown' THEN NoBake
                  ELSE IF Usable(l, cache'[l], v, pane) THEN cache'[l]
                  ELSE Raster(l, v, Window(v, pane, 0))]]
  /\ timer' = (timer \/ (kind = "hot" /\ \E l \in shown' : ~Usable(l, cache'[l], v, pane)))

(* With a negative scale no bitmap is usable; a cold render may still bake *)
(* one, which no later render can use either.                              *)
DrawBroken(v, kind) ==
  /\ cache' \in [Layers -> {NoBake} \cup {cache[l] : l \in Layers}]
  /\ \A l \in Layers : cache'[l] = cache[l] \/ (cache'[l] = NoBake /\ kind = "cold" /\ l \in shown')
  /\ screen' = [at |-> v, drawn |-> [l \in Layers |-> NoBake]]
  /\ timer' = (timer \/ (kind = "hot" /\ shown' # {}))

Repaint(v, pane, kind) ==
  \/ v.zoom # Broken /\ Draw(v, pane, kind)
  \/ v.zoom = Broken /\ DrawBroken(v, kind)

(* Wrong on purpose: a fit does not choose the ring.                       *)
RefitKeepingRing(pane) ==
  /\ view' = IF pane = "map" THEN Fit ELSE [zoom |-> Broken, left |-> 0]
  /\ fitted' = TRUE
  /\ coarse' = coarse /\ cut' = FALSE

(* fitMap: a one-pixel canvas minus its padding gives a negative scale.    *)
Refit(pane) ==
  /\ view' = IF pane = "map" THEN Fit ELSE [zoom |-> Broken, left |-> 0]
  /\ fitted' = TRUE
  /\ coarse' = WantsCoarse(view', fill') /\ cut' = FALSE

(* renderMap.                                                              *)
RenderMap(pane, kind) ==
  /\ IF fitted THEN UNCHANGED <<view, fitted, coarse, cut>> ELSE Refit(pane)
  /\ Repaint(view', pane, kind)

NoRender == UNCHANGED <<cache, screen>>

-----------------------------------------------------------------------------
(* After boot on the map tab: the first render has fitted the view and     *)
(* baked what fits.                                                        *)
Init ==
  /\ tab = "map" /\ hidden = FALSE /\ fitted = TRUE
  /\ view = Fit /\ fill = FirstFill /\ shown = Layers /\ colormap = FirstColormap
  /\ room \in Rooms
  /\ coarse = WantsCoarse(Fit, FirstFill)
  /\ timer = FALSE /\ frames = <<>> /\ cut = FALSE /\ events = 0
  /\ LET w == Window(Fit, "map", 1)
         r(l) == [ref |-> Ring(l, fill, coarse), key |-> colormap, zoom |-> FitZoom,
                  lo |-> w.lo, hi |-> w.hi]
         under == w.lo < w.hi /\ 4 * (w.hi - w.lo) <= room * Width[FitZoom]
         n == Window(Fit, "map", 0)
     IN  /\ cache = [l \in Layers |-> IF under THEN r(l) ELSE NoBake]
         /\ screen = [at |-> Fit, drawn |-> [l \in Layers |->
              IF under THEN r(l) ELSE [r(l) EXCEPT !.lo = n.lo, !.hi = n.hi]]]

Event == ~hidden /\ events < MaxEvents /\ events' = events + 1

Ask(kind) == frames' = Append(frames, kind)

(* scheduleRenderMap *)
AskHot == IF \E k \in 1..Len(frames) : frames[k] = "hot" THEN UNCHANGED frames ELSE Ask("hot")

(* A wheel event with the pointer at either edge of the canvas, which      *)
(* keeps its place in the world.                                           *)
Zoomed(z) == {[zoom |-> z, left |-> view.left],
              [zoom |-> z, left |-> view.left + Width[view.zoom] - Width[z]]}

Wheel ==
  /\ Event /\ tab = "map"
  /\ IF view.zoom = Broken THEN view' = view
     ELSE \E z \in Level \cap {view.zoom - 1, view.zoom + 1} : view' \in Zoomed(z)
  /\ AskHot
  /\ timer' = TRUE
  /\ NoRender
  /\ UNCHANGED <<tab, hidden, fitted, room, fill, shown, colormap, coarse, cut>>

(* A drag asks for a frame and for no settle.                              *)
Drag ==
  /\ Event /\ tab = "map"
  /\ \E d \in PanSteps :
       view' = IF view.zoom = Broken THEN view ELSE [view EXCEPT !.left = @ + d]
  /\ view'.left \in -MaxLeft..MaxLeft
  /\ AskHot
  /\ NoRender
  /\ UNCHANGED <<tab, hidden, fitted, room, fill, shown, colormap, coarse, timer, cut>>

(* The panel: another fill, a layer toggle, a colormap (or the theme).     *)
SelectFill ==
  /\ Event /\ tab = "map"
  /\ \E f \in Fills \ {fill} : fill' = f
  /\ UNCHANGED <<tab, hidden, view, fitted, room, shown, colormap, coarse, frames>>
  /\ cut' = TRUE
  /\ Repaint(view, "map", "cold")

ToggleLayer(l) ==
  /\ Event /\ tab = "map"
  /\ shown' = IF l \in shown THEN shown \ {l} ELSE shown \cup {l}
  /\ UNCHANGED <<tab, hidden, room, fill, colormap, frames>>
  /\ RenderMap("map", "cold")

FlipColormap(c) ==
  /\ Event
  /\ colormap' = c
  /\ UNCHANGED <<tab, hidden, room, fill, shown, frames>>
  /\ IF tab = "map" THEN RenderMap("map", "cold")
     ELSE NoRender /\ UNCHANGED <<view, fitted, coarse, timer, cut>>

(* Wrong on purpose: the tab is rendered before its pane is shown.         *)
SelectTabRenderFirst(t) ==
  /\ Event
  /\ tab' = t
  /\ UNCHANGED <<hidden, room, fill, shown, colormap, frames>>
  /\ IF t = "map" THEN RenderMap(tab, "cold")
     ELSE NoRender /\ UNCHANGED <<view, fitted, coarse, timer, cut>>

SelectTab(t) ==
  /\ Event
  /\ tab' = t
  /\ UNCHANGED <<hidden, room, fill, shown, colormap, frames>>
  /\ IF t = "map" THEN RenderMap("map", "cold")
     ELSE NoRender /\ UNCHANGED <<view, fitted, coarse, timer, cut>>

(* A window resize; on another tab only the flag changes.                  *)
Resize(r) ==
  /\ Event
  /\ room' = r
  /\ UNCHANGED <<tab, hidden, fill, shown, colormap, frames>>
  /\ IF tab = "map" THEN Refit("map") /\ Draw(view', "map", "cold")
     ELSE NoRender /\ fitted' = FALSE /\ UNCHANGED <<view, coarse, timer, cut>>

(* Wrong on purpose: hiding the document leaves the timer armed.           *)
HideKeepingTimer ==
  /\ Event
  /\ hidden' = TRUE
  /\ cut' = (cut \/ timer)
  /\ NoRender
  /\ UNCHANGED <<tab, view, fitted, room, fill, shown, colormap, coarse, timer, frames>>

(* visibilitychange: a hidden document cancels the settle, and the browser *)
(* runs no frames until it is visible again.                               *)
Hide ==
  /\ Event
  /\ hidden' = TRUE
  /\ timer' = FALSE /\ cut' = (cut \/ timer)
  /\ NoRender
  /\ UNCHANGED <<tab, view, fitted, room, fill, shown, colormap, coarse, frames>>

Unhide ==
  /\ hidden /\ hidden' = FALSE
  /\ NoRender
  /\ UNCHANGED <<tab, view, fitted, room, fill, shown, colormap, coarse, timer, frames, cut, events>>

-----------------------------------------------------------------------------
(* The timer and the frames *)

(* Wrong on purpose: asks for its frame whatever is pending.               *)
SettleAsksAnyway ==
  /\ timer /\ timer' = FALSE
  /\ IF tab # "map" \/ hidden
     THEN cut' = TRUE /\ UNCHANGED <<coarse, frames>>
     ELSE /\ coarse' = WantsCoarse(view, fill) /\ cut' = FALSE
          /\ Ask("cold")
  /\ NoRender
  /\ UNCHANGED <<tab, hidden, view, fitted, room, fill, shown, colormap, events>>

(* The settle timer fires.                                                 *)
Settle ==
  /\ timer /\ timer' = FALSE
  /\ IF tab # "map" \/ hidden
     THEN cut' = TRUE /\ UNCHANGED <<coarse, frames>>
     ELSE /\ coarse' = WantsCoarse(view, fill) /\ cut' = FALSE
          /\ IF \E k \in 1..Len(frames) : frames[k] = "hot"
             THEN UNCHANGED frames ELSE Ask("cold")
  /\ NoRender
  /\ UNCHANGED <<tab, hidden, view, fitted, room, fill, shown, colormap, events>>

(* The next frame callback; a cold one gives way to a hot one behind it.   *)
(* Neither looks at the tab.                                               *)
Frame ==
  /\ frames # <<>> /\ ~hidden
  /\ frames' = Tail(frames)
  /\ UNCHANGED <<tab, hidden, room, fill, shown, colormap, events>>
  /\ \/ /\ Head(frames) = "cold" /\ Tail(frames) # <<>>
        /\ NoRender /\ UNCHANGED <<view, fitted, coarse, timer, cut>>
     \/ /\ Head(frames) = "cold" /\ Tail(frames) = <<>>
        /\ RenderMap(tab, "cold")
     \/ /\ Head(frames) = "hot"
        /\ RenderMap(tab, "hot")

Next ==
  \/ Wheel \/ Drag \/ SelectFill \/ Hide \/ Unhide \/ Settle \/ Frame
  \/ \E l \in Layers : ToggleLayer(l)
  \/ \E c \in Colormaps \ {colormap} : FlipColormap(c)
  \/ \E t \in {"map", "other"} : SelectTab(t)
  \/ \E r \in Rooms : Resize(r)

(* The browser runs the frames of a visible document, and timers; a user   *)
(* need not do anything.                                                   *)
Fairness == WF_vars(Settle) /\ WF_vars(Frame)

Spec == Init /\ [][Next]_vars /\ Fairness

-----------------------------------------------------------------------------
AtRest == frames = <<>> /\ ~timer

(* With no frame pending the map tab shows the selected fill's ring and    *)
(* the points, under the view, colormap and toggles of now; a bitmap it    *)
(* was blitted from is in the zoom band and covers what the canvas shows   *)
(* of the data.  (A settle's ring change has a frame pending.)             *)
ScreenIsCurrent ==
  tab = "map" /\ frames = <<>> =>
    /\ screen.at = view
    /\ view.zoom # Broken => \A l \in Layers :
         IF l \notin shown THEN screen.drawn[l] = NoBake
         ELSE LET d == screen.drawn[l] IN
              /\ d.ref = Ring(l, fill, coarse) /\ d.key = colormap
              /\ InBand(view.zoom, d.zoom)
              /\ Covers(d, Window(view, "map", 0))

(* 20-map.js, "at most once per animation frame": however wheel, settle    *)
(* and frames interleave, the frames pending never repaint the map twice.  *)
OneRepaintPerFrame ==
  frames \in {<<>>, <<"hot">>, <<"cold">>, <<"cold", "hot">>}

(* Once gestures settle, the ring drawn is the one the zoom wants, unless  *)
(* the settle was cut off by leaving or hiding the tab, or another fill    *)
(* was selected since.                                                     *)
RingSettles == tab = "map" /\ ~timer /\ ~cut => coarse = WantsCoarse(view, fill)

(* A hidden document has no timer running.                                 *)
NothingRunsUnseen == hidden => ~timer

(* The view is only ever fitted to a pane that is shown, except by a frame *)
(* that was asked for on the map tab and runs on another one.              *)
ReturningKeepsTheView ==
  [][view.zoom # Broken /\ view'.zoom = Broken => tab = "other" /\ tab' = "other"]_vars

(* No persistent loop: when the user stops, timers and frames do.          *)
ComesToRest == <>[](AtRest \/ hidden)
=============================================================================
