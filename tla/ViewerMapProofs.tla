--------------------------- MODULE ViewerMapProofs ---------------------------
(***************************************************************************)
(* For all fills, layers, zoom levels, window sizes and any number of user *)
(* actions: what the map tab shows is current, a frame never repaints it   *)
(* twice, the LOD ring settles, nothing runs unseen, and coming back keeps *)
(* the view.                                                               *)
(***************************************************************************)
EXTENDS ViewerMap, TLAPS

(* What the canvas shows is what the state of now calls for.               *)
Shows ==
  /\ screen.at = view
  /\ view.zoom # Broken => \A l \in Layers :
       IF l \notin shown THEN screen.drawn[l] = NoBake
       ELSE /\ screen.drawn[l].ref = Ring(l, fill, coarse)
            /\ screen.drawn[l].key = colormap
            /\ InBand(view.zoom, screen.drawn[l].zoom)
            /\ Covers(screen.drawn[l], Window(view, "map", 0))

(* A settle asks for its cold frame as the last thing: another one would   *)
(* need the timer armed, which only happens along with a hot frame.        *)
Repaints == OneRepaintPerFrame /\ (frames = <<"cold">> => ~timer)

(* The ring is the one the zoom wants or somebody has yet to choose it, on *)
(* whatever tab.                                                           *)
RingKnown == ~timer /\ ~cut => coarse = WantsCoarse(view, fill)

Inv == TypeOK /\ ScreenIsCurrent /\ Repaints /\ RingKnown /\ NothingRunsUnseen

Spans == [lo: Int, hi: Int]

-----------------------------------------------------------------------------
(* Windows and bitmaps                                                     *)

LEMMA Constants ==
  /\ \A z \in Level : Width[z] \in Nat /\ Width[z] > 2
  /\ FitZoom \in Level /\ Broken \notin Level
  /\ FitLeft \in Int /\ Extent \in Int /\ MaxEvents \in Nat
BY LevelsAssumption, WorldAssumption

LEMMA FitIsView == Fit \in Views /\ Fit.zoom \in Level /\ Fit.zoom # Broken
BY Constants DEF Fit, Views

LEMMA WindowTypes ==
  ASSUME NEW v \in Views, v.zoom # Broken, NEW pane, NEW margin \in {0, 1}
  PROVE  Window(v, pane, margin) \in Spans
<1>1. v.left \in Int /\ v.zoom \in Level
  BY DEF Views
<1> DEFINE w == IF pane = "map" THEN Width[v.zoom] ELSE 2
<1>2. w \in Int
  BY <1>1, Constants
<1>3. (margin * w) \div 2 \in Int
  BY <1>2
<1> DEFINE lo == Larger(v.left - (margin * w) \div 2, -Extent)
           hi == Smaller(v.left + w + (margin * w) \div 2, Extent)
<1>4. lo \in Int /\ hi \in Int
  BY <1>1, <1>2, <1>3, Constants DEF Larger, Smaller
<1>5. Window(v, pane, margin) = [lo |-> lo, hi |-> hi]
  BY DEF Window
<1>6. QED
  BY <1>4, <1>5 DEF Spans

LEMMA RingTypes ==
  ASSUME NEW l \in Layers, NEW f \in Fills, NEW c \in BOOLEAN
  PROVE  Ring(l, f, c) \in (Fills \cup {"points"}) \X BOOLEAN
BY DEF Ring

(* A bitmap rasterised for a view is in that view's zoom band.             *)
LEMMA OwnBand == \A z \in Level : InBand(z, z)
BY Constants DEF InBand

LEMMA CoversItself == \A w \in Spans : Covers(w, w)
BY DEF Spans, Covers

(* What a repaint needs of the state it reads.                             *)
Reads == /\ view' \in Views /\ room' \in Rooms /\ fill' \in Fills
         /\ shown' \subseteq Layers /\ colormap' \in Colormaps /\ coarse' \in BOOLEAN

LEMMA RasterTypes ==
  ASSUME Reads, NEW l \in Layers, NEW w \in Spans, view'.zoom # Broken
  PROVE  /\ Raster(l, view', w).ref = Ring(l, fill', coarse')
         /\ Raster(l, view', w).key = colormap'
         /\ Raster(l, view', w).zoom = view'.zoom
         /\ Raster(l, view', w).lo = w.lo /\ Raster(l, view', w).hi = w.hi
         /\ w.lo < w.hi => Raster(l, view', w) \in Bakes
<1>1. Raster(l, view', w) = [ref |-> Ring(l, fill', coarse'), key |-> colormap',
                             zoom |-> view'.zoom, lo |-> w.lo, hi |-> w.hi]
  BY DEF Raster
<1>2. /\ Ring(l, fill', coarse') \in (Fills \cup {"points"}) \X BOOLEAN
      /\ colormap' \in Colormaps /\ view'.zoom \in Level /\ w.lo \in Int /\ w.hi \in Int
  BY RingTypes DEF Reads, Views, Spans
<1>3. QED
  BY <1>1, <1>2 DEF Bakes

-----------------------------------------------------------------------------
(* A repaint                                                               *)

LEMMA DrawTypes ==
  ASSUME TypeOK, Reads, NEW pane, NEW kind, Draw(view', pane, kind), view'.zoom # Broken
  PROVE  cache' \in [Layers -> Bakes \cup {NoBake}]
<1>1. cache' = [l \in Layers |-> IF l \in shown' THEN Baked(l, view', pane, kind) ELSE cache[l]]
  BY DEF Draw
<1>2. cache \in [Layers -> Bakes \cup {NoBake}]
  BY DEF TypeOK
<1>3. ASSUME NEW l \in Layers PROVE Baked(l, view', pane, kind) \in Bakes \cup {NoBake}
  <2> DEFINE w == Window(view', pane, 1)
  <2>1. w \in Spans
    BY WindowTypes DEF Reads
  <2>2. CASE Baked(l, view', pane, kind) = cache[l]
    BY <1>2, <2>2
  <2>3. CASE FitsCaps(w, view', pane) /\ Baked(l, view', pane, kind) = Raster(l, view', w)
    <3>1. w.lo < w.hi
      BY <2>3 DEF FitsCaps
    <3>2. QED
      BY <2>1, <2>3, <3>1, RasterTypes
  <2>4. QED
    BY <2>2, <2>3 DEF Baked
<1>4. QED
  BY <1>1, <1>2, <1>3

LEMMA RepaintTypes ==
  ASSUME TypeOK, Reads, NEW pane, NEW kind, Repaint(view', pane, kind)
  PROVE  /\ cache' \in [Layers -> Bakes \cup {NoBake}]
         /\ screen'.at = view' /\ DOMAIN screen'.drawn = Layers
         /\ timer' \in BOOLEAN /\ (timer => timer') /\ (kind = "cold" => timer' = timer)
<1>1. CASE view'.zoom # Broken
  <2>1. Draw(view', pane, kind)
    BY <1>1 DEF Repaint
  <2>2. cache' \in [Layers -> Bakes \cup {NoBake}]
    BY <1>1, <2>1, DrawTypes
  <2>3. screen'.at = view' /\ DOMAIN screen'.drawn = Layers
    BY <2>1 DEF Draw
  <2>4. timer' \in BOOLEAN /\ (timer => timer') /\ (kind = "cold" => timer' = timer)
    BY <2>1 DEF Draw, TypeOK
  <2>5. QED
    BY <2>2, <2>3, <2>4
<1>2. CASE view'.zoom = Broken
  <2>1. DrawBroken(view', kind)
    BY <1>2 DEF Repaint
  <2>2. cache' \in [Layers -> Bakes \cup {NoBake}]
    <3>1. {NoBake} \cup {cache[l] : l \in Layers} \subseteq Bakes \cup {NoBake}
      BY DEF TypeOK
    <3>2. cache' \in [Layers -> {NoBake} \cup {cache[l] : l \in Layers}]
      BY <2>1 DEF DrawBroken
    <3>3. QED
      BY <3>1, <3>2
  <2>3. screen'.at = view' /\ DOMAIN screen'.drawn = Layers
    BY <2>1 DEF DrawBroken
  <2>4. timer' \in BOOLEAN /\ (timer => timer') /\ (kind = "cold" => timer' = timer)
    BY <2>1 DEF DrawBroken, TypeOK
  <2>5. QED
    BY <2>2, <2>3, <2>4
<1>3. QED
  BY <1>1, <1>2

(* A repaint of the pane that is shown leaves what is current on it.       *)
LEMMA RepaintShows ==
  ASSUME TypeOK, Reads, NEW kind, Repaint(view', "map", kind)
  PROVE  Shows'
<1>1. screen'.at = view'
  BY RepaintTypes
<1>2. ASSUME view'.zoom # Broken, NEW l \in Layers, l \notin shown'
      PROVE  screen'.drawn[l] = NoBake
  BY <1>2 DEF Repaint, Draw
<1>3. ASSUME view'.zoom # Broken, NEW l \in Layers, l \in shown'
      PROVE  /\ screen'.drawn[l].ref = Ring(l, fill', coarse')
             /\ screen'.drawn[l].key = colormap'
             /\ InBand(view'.zoom, screen'.drawn[l].zoom)
             /\ Covers(screen'.drawn[l], Window(view', "map", 0))
  <2> DEFINE need == Window(view', "map", 0)
  <2>1. screen'.drawn[l] = IF Usable(l, cache'[l], view', "map") THEN cache'[l]
                           ELSE Raster(l, view', need)
    BY <1>3 DEF Repaint, Draw
  <2>2. need \in Spans /\ view'.zoom \in Level
    BY <1>3, WindowTypes DEF Reads, Views
  <2>3. CASE Usable(l, cache'[l], view', "map")
    BY <2>1, <2>3 DEF Usable
  <2>4. CASE ~Usable(l, cache'[l], view', "map")
    <3>1. screen'.drawn[l] = Raster(l, view', need)
      BY <2>1, <2>4
    <3>2. /\ Raster(l, view', need).ref = Ring(l, fill', coarse')
          /\ Raster(l, view', need).key = colormap'
          /\ Raster(l, view', need).zoom = view'.zoom
          /\ Raster(l, view', need).lo = need.lo /\ Raster(l, view', need).hi = need.hi
      BY <1>3, <2>2, RasterTypes
    <3>3. InBand(view'.zoom, view'.zoom)
      BY <2>2, OwnBand
    <3>4. Covers(Raster(l, view', need), need)
      BY <2>2, <3>2 DEF Covers, Spans
    <3>5. QED
      BY <3>1, <3>2, <3>3, <3>4
  <2>5. QED
    BY <2>3, <2>4
<1>4. QED
  BY <1>1, <1>2, <1>3 DEF Shows

(* Fitting the view, if need be, and repainting it.                        *)
LEMMA RefitSound ==
  ASSUME NEW pane, Refit(pane)
  PROVE  /\ view' \in Views /\ fitted' \in BOOLEAN /\ coarse' \in BOOLEAN /\ cut' \in BOOLEAN
         /\ coarse' = WantsCoarse(view', fill')
         /\ view'.zoom = Broken => pane # "map"
<1>1. Fit \in Views /\ [zoom |-> Broken, left |-> 0] \in Views
  BY FitIsView DEF Views
<1>2. view' \in Views
  BY <1>1 DEF Refit
<1>3. view'.zoom = Broken => pane # "map"
  BY FitIsView DEF Refit
<1>4. coarse' = WantsCoarse(view', fill') /\ coarse' \in BOOLEAN
  BY DEF Refit, WantsCoarse
<1>5. fitted' \in BOOLEAN /\ cut' \in BOOLEAN
  BY DEF Refit
<1>6. QED
  BY <1>2, <1>3, <1>4, <1>5

LEMMA RenderMapSound ==
  ASSUME Inv, NEW pane, NEW kind, RenderMap(pane, kind), fill' = fill
  PROVE  /\ view' \in Views /\ fitted' \in BOOLEAN /\ coarse' \in BOOLEAN /\ cut' \in BOOLEAN
         /\ ~timer /\ ~cut' => coarse' = WantsCoarse(view', fill')
         /\ view'.zoom = Broken => view.zoom = Broken \/ pane # "map"
         /\ Repaint(view', pane, kind)
<1>1. Repaint(view', pane, kind)
  BY DEF RenderMap
<1>2. CASE fitted
  <2>1. UNCHANGED <<view, fitted, coarse, cut>>
    BY <1>2 DEF RenderMap
  <2>2. QED
    BY <1>1, <2>1 DEF Inv, TypeOK, RingKnown
<1>3. CASE ~fitted
  <2>1. Refit(pane)
    BY <1>3 DEF RenderMap
  <2>2. QED
    BY <1>1, <2>1, RefitSound
<1>4. QED
  BY <1>2, <1>3

-----------------------------------------------------------------------------
(* Steps that repaint, and steps that do not                               *)

LEMMA Current == ScreenIsCurrent <=> (tab = "map" /\ frames = <<>> => Shows)
BY DEF ScreenIsCurrent, Shows

Pending == {<<>>, <<"hot">>, <<"cold">>, <<"cold", "hot">>}

LEMMA PendingTypes == Pending \subseteq Seq({"hot", "cold"})
BY DEF Pending

(* The parts of the state no repaint writes.                               *)
Typed == /\ tab' \in {"map", "other"} /\ hidden' \in BOOLEAN
         /\ room' \in Rooms /\ fill' \in Fills /\ shown' \subseteq Layers
         /\ colormap' \in Colormaps /\ events' \in 0 .. MaxEvents
         /\ view' \in Views /\ fitted' \in BOOLEAN
         /\ coarse' \in BOOLEAN /\ cut' \in BOOLEAN

LEMMA Rendered ==
  ASSUME Inv, Typed,
         ~timer /\ ~cut' => coarse' = WantsCoarse(view', fill'),
         NEW pane, tab' = "map" => pane = "map",
         NEW kind, Repaint(view', pane, kind),
         frames' \in Pending, frames' = <<"cold">> => ~timer /\ kind = "cold",
         ~hidden'
  PROVE  Inv'
<1>1. Reads
  BY DEF Reads, Typed
<1>2. TypeOK
  BY DEF Inv
<1>3. /\ cache' \in [Layers -> Bakes \cup {NoBake}]
      /\ screen'.at = view' /\ DOMAIN screen'.drawn = Layers
      /\ timer' \in BOOLEAN /\ (timer => timer') /\ (kind = "cold" => timer' = timer)
  BY <1>1, <1>2, RepaintTypes
<1>4. TypeOK'
  BY <1>3, PendingTypes DEF Typed, TypeOK
<1>5. ScreenIsCurrent'
  <2>1. tab' = "map" => Shows'
    BY <1>1, <1>2, RepaintShows
  <2>2. QED
    BY <2>1 DEF ScreenIsCurrent, Shows
<1>6. Repaints'
  BY <1>3 DEF Repaints, OneRepaintPerFrame, Pending
<1>7. RingKnown'
  BY <1>3 DEF RingKnown
<1>8. NothingRunsUnseen'
  BY DEF NothingRunsUnseen
<1>9. QED
  BY <1>4, <1>5, <1>6, <1>7, <1>8 DEF Inv

LEMMA Unrendered ==
  ASSUME Inv, Typed, UNCHANGED <<cache, screen>>, timer' \in BOOLEAN,
         tab' = "map" /\ frames' = <<>>
           => tab = "map" /\ frames = <<>> /\ UNCHANGED <<view, fill, shown, colormap, coarse>>,
         frames' \in Pending, frames' = <<"cold">> => ~timer',
         ~timer' /\ ~cut' => coarse' = WantsCoarse(view', fill'),
         hidden' => ~timer'
  PROVE  Inv'
<1>1. TypeOK'
  BY PendingTypes DEF Inv, Typed, TypeOK
<1>2. ScreenIsCurrent'
  <2>1. ASSUME tab' = "map", frames' = <<>> PROVE Shows'
    <3>1. /\ UNCHANGED <<view, fill, shown, colormap, coarse>> /\ screen' = screen
          /\ tab = "map" /\ frames = <<>>
      BY <2>1
    <3>2. Shows
      BY <3>1, Current DEF Inv
    <3>3. QED
      BY <3>1, <3>2 DEF Shows
  <2>2. QED
    BY <2>1 DEF ScreenIsCurrent, Shows
<1>3. Repaints'
  BY DEF Repaints, OneRepaintPerFrame, Pending
<1>4. RingKnown' /\ NothingRunsUnseen'
  BY DEF RingKnown, NothingRunsUnseen
<1>5. QED
  BY <1>1, <1>2, <1>3, <1>4 DEF Inv

(* What scheduleRenderMap leaves pending.                                  *)
LEMMA AskHotPending ==
  ASSUME Inv, AskHot
  PROVE  frames' \in Pending /\ frames' # <<>> /\ frames' # <<"cold">>
<1>1. frames \in Pending
  BY DEF Inv, Repaints, OneRepaintPerFrame, Pending
<1>2. CASE frames = <<>>
  BY <1>2 DEF AskHot, Ask, Pending
<1>3. CASE frames = <<"hot">>
  BY <1>3 DEF AskHot, Ask, Pending
<1>4. CASE frames = <<"cold">>
  BY <1>4 DEF AskHot, Ask, Pending
<1>5. CASE frames = <<"cold", "hot">>
  <2>1. Len(frames) = 2 /\ frames[2] = "hot"
    BY <1>5
  <2>2. frames' = frames
    BY <2>1 DEF AskHot
  <2>3. QED
    BY <1>5, <2>2 DEF Pending
<1>6. QED
  BY <1>1, <1>2, <1>3, <1>4, <1>5 DEF Pending

-----------------------------------------------------------------------------
(* The actions                                                             *)

LEMMA EventTypes ==
  ASSUME Inv, Event
  PROVE  ~hidden /\ events' \in 0 .. MaxEvents
BY Constants DEF Event, Inv, TypeOK

LEMMA WheelStep == ASSUME Inv, Wheel PROVE Inv'
<1>1. view' \in Views
  <2>1. view \in Views
    BY DEF Inv, TypeOK
  <2>2. CASE view' = view
    BY <2>1, <2>2
  <2>3. ASSUME NEW z \in Level, view' \in Zoomed(z), view.zoom # Broken PROVE view' \in Views
    <3>1. view.left \in Int /\ view.zoom \in Level /\ view.left + Width[view.zoom] - Width[z] \in Int
      BY <2>1, <2>3, Constants DEF Views
    <3>2. QED
      BY <2>3, <3>1 DEF Zoomed, Views
  <2>4. QED
    BY <2>2, <2>3 DEF Wheel
<1>2. timer' = TRUE /\ UNCHANGED <<cache, screen>>
      /\ UNCHANGED <<tab, hidden, fitted, room, fill, shown, colormap, coarse, cut>>
  BY DEF Wheel, NoRender
<1>3. ~hidden /\ events' \in 0 .. MaxEvents
  BY EventTypes DEF Wheel
<1>4. frames' \in Pending /\ frames' # <<>> /\ frames' # <<"cold">>
  BY AskHotPending DEF Wheel
<1>5. Typed
  BY <1>1, <1>2, <1>3 DEF Typed, Inv, TypeOK
<1>6. QED
  BY <1>2, <1>3, <1>4, <1>5, Unrendered

LEMMA DragStep == ASSUME Inv, Drag PROVE Inv'
<1>1. view' \in Views /\ view'.zoom = view.zoom
  <2>1. view \in Views
    BY DEF Inv, TypeOK
  <2>2. PICK d \in PanSteps : view' = IF view.zoom = Broken THEN view
                                      ELSE [view EXCEPT !.left = view.left + d]
    BY DEF Drag
  <2>3. view.left + d \in Int
    BY <2>1, WorldAssumption DEF Views
  <2>4. QED
    BY <2>1, <2>2, <2>3 DEF Views
<1>2. UNCHANGED <<tab, hidden, fitted, room, fill, shown, colormap, coarse, timer, cut>>
      /\ UNCHANGED <<cache, screen>>
  BY DEF Drag, NoRender
<1>3. ~hidden /\ events' \in 0 .. MaxEvents
  BY EventTypes DEF Drag
<1>4. frames' \in Pending /\ frames' # <<>> /\ frames' # <<"cold">>
  BY AskHotPending DEF Drag
<1>5. Typed
  BY <1>1, <1>2, <1>3 DEF Typed, Inv, TypeOK
<1>6. ~timer' /\ ~cut' => coarse' = WantsCoarse(view', fill')
  BY <1>1, <1>2 DEF Inv, RingKnown, WantsCoarse
<1>7. timer' \in BOOLEAN
  BY <1>2 DEF Inv, TypeOK
<1>8. QED
  BY <1>2, <1>3, <1>4, <1>5, <1>6, <1>7, Unrendered

LEMMA HideStep == ASSUME Inv, Hide \/ Unhide PROVE Inv'
<1>1. UNCHANGED <<cache, screen, tab, view, fitted, room, fill, shown, colormap, coarse, frames>>
      /\ hidden' \in BOOLEAN /\ timer' \in BOOLEAN /\ (~timer => ~timer') /\ (hidden' => ~timer')
      /\ cut' \in BOOLEAN /\ (~timer' /\ ~cut' => ~timer /\ ~cut)
  <2>1. timer \in BOOLEAN /\ cut \in BOOLEAN /\ NothingRunsUnseen
    BY DEF Inv, TypeOK
  <2>2. CASE Hide
    BY <2>1, <2>2 DEF Hide, NoRender
  <2>3. CASE Unhide
    BY <2>1, <2>3 DEF Unhide, NoRender
  <2>4. QED
    BY <2>2, <2>3
<1>2. events' \in 0 .. MaxEvents
  <2>1. CASE Hide
    BY <2>1, EventTypes DEF Hide
  <2>2. CASE Unhide
    BY <2>2 DEF Unhide, Inv, TypeOK
  <2>3. QED
    BY <2>1, <2>2
<1>3. frames' \in Pending /\ (frames' = <<"cold">> => ~timer')
  BY <1>1 DEF Inv, Repaints, OneRepaintPerFrame, Pending
<1>4. Typed
  BY <1>1, <1>2 DEF Typed, Inv, TypeOK
<1>5. ~timer' /\ ~cut' => coarse' = WantsCoarse(view', fill')
  BY <1>1 DEF Inv, RingKnown
<1>6. QED
  BY <1>1, <1>3, <1>4, <1>5, Unrendered

LEMMA SettleStep == ASSUME Inv, Settle PROVE Inv'
<1>1. /\ UNCHANGED <<cache, screen>> /\ timer /\ timer' = FALSE
      /\ UNCHANGED <<tab, hidden, view, fitted, room, fill, shown, colormap, events>>
  BY DEF Settle, NoRender
<1>2. /\ coarse' \in BOOLEAN /\ cut' \in BOOLEAN
      /\ ~cut' => coarse' = WantsCoarse(view', fill')
  BY <1>1 DEF Settle, Inv, TypeOK, WantsCoarse
<1>3. Typed
  BY <1>1, <1>2 DEF Typed, Inv, TypeOK
<1>4. frames \in Pending /\ frames # <<"cold">>
  BY <1>1 DEF Inv, Repaints, OneRepaintPerFrame, Pending
<1>5. CASE tab = "map" /\ ~hidden
  <2>1. IF \E k \in 1 .. Len(frames) : frames[k] = "hot" THEN frames' = frames ELSE Ask("cold")
    BY <1>5 DEF Settle
  <2>2. frames' \in Pending /\ frames' # <<>>
    <3>1. CASE frames = <<>>
      BY <2>1, <3>1 DEF Ask, Pending
    <3>2. CASE frames = <<"hot">>
      BY <2>1, <3>2 DEF Ask, Pending
    <3>3. CASE frames = <<"cold", "hot">>
      <4>1. Len(frames) = 2 /\ frames[2] = "hot"
        BY <3>3
      <4>2. frames' = frames
        BY <2>1, <4>1
      <4>3. QED
        BY <3>3, <4>2 DEF Pending
    <3>4. QED
      BY <1>4, <3>1, <3>2, <3>3 DEF Pending
  <2>3. QED
    BY <1>1, <1>2, <1>3, <2>2, Unrendered
<1>6. CASE tab # "map"
  <2>1. frames' = frames
    BY <1>6 DEF Settle
  <2>2. QED
    BY <1>1, <1>2, <1>3, <1>4, <1>6, <2>1, Unrendered
<1>7. CASE hidden
  BY <1>1, <1>7 DEF Inv, NothingRunsUnseen
<1>8. QED
  BY <1>5, <1>6, <1>7

-----------------------------------------------------------------------------
(* Renders that change neither the frames nor the document's visibility.   *)
LEMMA RenderStep ==
  ASSUME Inv, Event, UNCHANGED <<hidden, frames>>, fill' = fill,
         tab' \in {"map", "other"}, room' \in Rooms, shown' \subseteq Layers,
         colormap' \in Colormaps, RenderMap("map", "cold")
  PROVE  Inv'
<1>1. /\ view' \in Views /\ fitted' \in BOOLEAN /\ coarse' \in BOOLEAN /\ cut' \in BOOLEAN
      /\ ~timer /\ ~cut' => coarse' = WantsCoarse(view', fill')
      /\ Repaint(view', "map", "cold")
  BY RenderMapSound
<1>2. Typed /\ ~hidden'
  BY <1>1, EventTypes DEF Typed, Inv, TypeOK
<1>3. frames' \in Pending /\ (frames' = <<"cold">> => ~timer)
  BY DEF Inv, Repaints, OneRepaintPerFrame, Pending
<1>4. QED
  BY <1>1, <1>2, <1>3, Rendered

(* Events that leave the map as it is, which is not the tab shown next.    *)
LEMMA ElsewhereStep ==
  ASSUME Inv, Event, NoRender, UNCHANGED <<hidden, frames, fill, shown, view, coarse, timer, cut>>,
         tab' = "other", room' \in Rooms, colormap' \in Colormaps, fitted' \in BOOLEAN
  PROVE  Inv'
<1>1. Typed
  BY EventTypes DEF Typed, Inv, TypeOK
<1>2. timer' \in BOOLEAN /\ (hidden' => ~timer') /\ (~timer' /\ ~cut' => coarse' = WantsCoarse(view', fill'))
  BY EventTypes DEF Inv, TypeOK, RingKnown
<1>3. frames' \in Pending /\ (frames' = <<"cold">> => ~timer')
  BY DEF Inv, Repaints, OneRepaintPerFrame, Pending
<1>4. QED
  BY <1>1, <1>2, <1>3, Unrendered DEF NoRender

LEMMA ToggleStep == ASSUME Inv, NEW l \in Layers, ToggleLayer(l) PROVE Inv'
<1>1. /\ Event /\ RenderMap("map", "cold")
      /\ UNCHANGED <<tab, hidden, room, fill, colormap, frames>> /\ shown' \subseteq Layers
  BY DEF ToggleLayer, Inv, TypeOK
<1>2. QED
  BY <1>1, RenderStep DEF Inv, TypeOK

LEMMA FlipStep == ASSUME Inv, NEW c \in Colormaps, FlipColormap(c) PROVE Inv'
<1>1. /\ Event /\ colormap' = c /\ UNCHANGED <<tab, hidden, room, fill, shown, frames>>
  BY DEF FlipColormap
<1>2. CASE tab = "map"
  <2>1. RenderMap("map", "cold")
    BY <1>2 DEF FlipColormap
  <2>2. QED
    BY <1>1, <2>1, RenderStep DEF Inv, TypeOK
<1>3. CASE tab = "other"
  <2>1. NoRender /\ UNCHANGED <<view, fitted, coarse, timer, cut>>
    BY <1>3 DEF FlipColormap
  <2>2. QED
    BY <1>1, <1>3, <2>1, ElsewhereStep DEF Inv, TypeOK
<1>4. QED
  BY <1>2, <1>3 DEF Inv, TypeOK

LEMMA SelectTabStep == ASSUME Inv, NEW t \in {"map", "other"}, SelectTab(t) PROVE Inv'
<1>1. /\ Event /\ tab' = t /\ UNCHANGED <<hidden, room, fill, shown, colormap, frames>>
  BY DEF SelectTab
<1>2. CASE t = "map"
  <2>1. RenderMap("map", "cold")
    BY <1>2 DEF SelectTab
  <2>2. QED
    BY <1>1, <1>2, <2>1, RenderStep DEF Inv, TypeOK
<1>3. CASE t = "other"
  <2>1. NoRender /\ UNCHANGED <<view, fitted, coarse, timer, cut>>
    BY <1>3 DEF SelectTab
  <2>2. QED
    BY <1>1, <1>3, <2>1, ElsewhereStep DEF Inv, TypeOK
<1>4. QED
  BY <1>2, <1>3

LEMMA ResizeStep == ASSUME Inv, NEW r \in Rooms, Resize(r) PROVE Inv'
<1>1. /\ Event /\ room' = r /\ UNCHANGED <<tab, hidden, fill, shown, colormap, frames>>
  BY DEF Resize
<1>2. CASE tab = "map"
  <2>1. Refit("map") /\ Draw(view', "map", "cold")
    BY <1>2 DEF Resize
  <2>2. /\ view' \in Views /\ fitted' \in BOOLEAN /\ coarse' \in BOOLEAN /\ cut' \in BOOLEAN
        /\ coarse' = WantsCoarse(view', fill') /\ view'.zoom # Broken
    BY <2>1, RefitSound
  <2>3. Repaint(view', "map", "cold")
    BY <2>1, <2>2 DEF Repaint
  <2>4. Typed /\ ~hidden'
    BY <1>1, <2>2, EventTypes DEF Typed, Inv, TypeOK
  <2>5. frames' \in Pending /\ (frames' = <<"cold">> => ~timer)
    BY <1>1 DEF Inv, Repaints, OneRepaintPerFrame, Pending
  <2>6. QED
    BY <2>2, <2>3, <2>4, <2>5, Rendered
<1>3. CASE tab = "other"
  <2>1. NoRender /\ fitted' = FALSE /\ UNCHANGED <<view, coarse, timer, cut>>
    BY <1>3 DEF Resize
  <2>2. QED
    BY <1>1, <1>3, <2>1, ElsewhereStep DEF Inv, TypeOK
<1>4. QED
  BY <1>2, <1>3 DEF Inv, TypeOK

LEMMA SelectFillStep == ASSUME Inv, SelectFill PROVE Inv'
<1>1. /\ Event /\ fill' \in Fills /\ cut' = TRUE /\ Repaint(view, "map", "cold")
      /\ UNCHANGED <<tab, hidden, view, fitted, room, shown, colormap, coarse, frames>>
  BY DEF SelectFill
<1>2. Repaint(view', "map", "cold")
  BY <1>1
<1>3. Typed /\ ~hidden'
  BY <1>1, EventTypes DEF Typed, Inv, TypeOK
<1>4. frames' \in Pending /\ (frames' = <<"cold">> => ~timer)
  BY <1>1 DEF Inv, Repaints, OneRepaintPerFrame, Pending
<1>5. QED
  BY <1>1, <1>2, <1>3, <1>4, Rendered

LEMMA FrameStep == ASSUME Inv, Frame PROVE Inv'
<1>1. /\ frames # <<>> /\ ~hidden /\ frames' = Tail(frames)
      /\ UNCHANGED <<tab, hidden, room, fill, shown, colormap, events>>
  BY DEF Frame
<1>2. frames \in {<<"hot">>, <<"cold">>, <<"cold", "hot">>}
  BY <1>1 DEF Inv, Repaints, OneRepaintPerFrame
<1>3. frames' \in Pending /\ frames' # <<"cold">>
  <2>1. CASE frames = <<"hot">>
    BY <1>1, <2>1 DEF Pending
  <2>2. CASE frames = <<"cold">>
    BY <1>1, <2>2 DEF Pending
  <2>3. CASE frames = <<"cold", "hot">>
    <3>1. frames' = <<"hot">>
      BY <1>1, <2>3
    <3>2. QED
      BY <3>1 DEF Pending
  <2>4. QED
    BY <1>2, <2>1, <2>2, <2>3
<1>4. ASSUME NEW kind, RenderMap(tab, kind) PROVE Inv'
  <2>1. /\ view' \in Views /\ fitted' \in BOOLEAN /\ coarse' \in BOOLEAN /\ cut' \in BOOLEAN
        /\ ~timer /\ ~cut' => coarse' = WantsCoarse(view', fill')
        /\ Repaint(view', tab, kind)
    BY <1>1, <1>4, RenderMapSound
  <2>2. Typed
    BY <1>1, <2>1 DEF Typed, Inv, TypeOK
  <2>3. QED
    BY <1>1, <1>3, <2>1, <2>2, Rendered
<1>5. CASE Tail(frames) # <<>> /\ NoRender /\ UNCHANGED <<view, fitted, coarse, timer, cut>>
  <2>1. Typed
    BY <1>1, <1>5 DEF Typed, Inv, TypeOK
  <2>2. /\ timer' \in BOOLEAN /\ frames' # <<>>
        /\ ~timer' /\ ~cut' => coarse' = WantsCoarse(view', fill')
    BY <1>1, <1>5 DEF Inv, TypeOK, RingKnown
  <2>3. QED
    BY <1>1, <1>3, <1>5, <2>1, <2>2, Unrendered DEF NoRender
<1>6. QED
  BY <1>4, <1>5 DEF Frame

LEMMA StutterStep == ASSUME Inv, UNCHANGED vars PROVE Inv'
<1>1. Typed
  BY DEF vars, Typed, Inv, TypeOK
<1>2. QED
  BY <1>1, Unrendered
     DEF vars, Inv, TypeOK, Repaints, OneRepaintPerFrame, Pending, RingKnown, NothingRunsUnseen

LEMMA InitInv == Init => Inv
<1> SUFFICES ASSUME Init PROVE Inv
  OBVIOUS
<1> DEFINE w == Window(Fit, "map", 1)
           n == Window(Fit, "map", 0)
           under == w.lo < w.hi /\ 4 * (w.hi - w.lo) <= room * Width[FitZoom]
           r(l) == [ref |-> Ring(l, fill, coarse), key |-> colormap, zoom |-> FitZoom,
                    lo |-> w.lo, hi |-> w.hi]
<1>1. /\ view = Fit /\ coarse = WantsCoarse(Fit, FirstFill) /\ fill = FirstFill
      /\ shown = Layers /\ colormap = FirstColormap /\ tab = "map" /\ fitted = TRUE
      /\ frames = <<>> /\ timer = FALSE /\ hidden = FALSE /\ cut = FALSE /\ room \in Rooms /\ events = 0
      /\ cache = [l \in Layers |-> IF under THEN r(l) ELSE NoBake]
      /\ screen = [at |-> Fit, drawn |-> [l \in Layers |->
           IF under THEN r(l) ELSE [r(l) EXCEPT !.lo = n.lo, !.hi = n.hi]]]
  BY DEF Init
<1>2. coarse \in BOOLEAN
  BY <1>1 DEF WantsCoarse
<1>3. /\ Fit \in Views /\ FitZoom \in Level /\ fill \in Fills /\ colormap \in Colormaps
      /\ \A l \in Layers : Ring(l, fill, coarse) \in (Fills \cup {"points"}) \X BOOLEAN
  BY <1>1, <1>2, FitIsView, Constants, FillsAssumption, LookAssumption, RingTypes
<1>4. w \in Spans /\ n \in Spans
  BY FitIsView, WindowTypes
<1>7. w.lo <= n.lo /\ n.hi <= w.hi
  <2>1. /\ FitLeft \in Int /\ Extent \in Int /\ Width[FitZoom] \in Nat
    BY Constants
  <2> DEFINE half == (1 * Width[FitZoom]) \div 2
  <2>2. half \in Nat /\ (0 * Width[FitZoom]) \div 2 = 0
    BY <2>1
  <2>3. /\ w = [lo |-> Larger(FitLeft - half, -Extent),
                hi |-> Smaller(FitLeft + Width[FitZoom] + half, Extent)]
        /\ n = [lo |-> Larger(FitLeft - 0, -Extent),
                hi |-> Smaller(FitLeft + Width[FitZoom] + 0, Extent)]
    BY <2>2 DEF Window, Fit
  <2> HIDE DEF half
  <2>4. QED
    BY <2>1, <2>2, <2>3 DEF Larger, Smaller
<1> HIDE DEF w, n
<1>5. TypeOK
  <2>1. cache \in [Layers -> Bakes \cup {NoBake}]
    <3>1. ASSUME NEW l \in Layers, w.lo < w.hi PROVE r(l) \in Bakes
      BY <1>3, <1>4, <3>1 DEF Bakes, Spans
    <3>2. QED
      BY <1>1, <3>1
  <2>2. screen.at \in Views /\ DOMAIN screen.drawn = Layers
    BY <1>1, <1>3
  <2>3. events \in 0 .. MaxEvents /\ frames \in Seq({"hot", "cold"})
    <3>1. events = 0 /\ frames = <<>> /\ MaxEvents \in Nat
      BY <1>1, Constants
    <3>2. QED
      BY <3>1
  <2>4. tab \in {"map", "other"} /\ hidden \in BOOLEAN /\ fitted \in BOOLEAN /\ timer \in BOOLEAN
        /\ cut \in BOOLEAN /\ view \in Views /\ shown \subseteq Layers /\ room \in Rooms
    BY <1>1, <1>3
  <2>5. QED
    BY <1>2, <1>3, <2>1, <2>2, <2>3, <2>4 DEF TypeOK
<1>6. ScreenIsCurrent
  <2>1. screen.at = view
    BY <1>1
  <2>2. InBand(FitZoom, FitZoom)
    BY <1>3, OwnBand
  <2>3. ASSUME NEW l \in Layers
        PROVE  /\ screen.drawn[l].ref = Ring(l, fill, coarse) /\ screen.drawn[l].key = colormap
               /\ screen.drawn[l].zoom = FitZoom /\ Covers(screen.drawn[l], n)
    <3>1. screen.drawn[l] = IF under THEN r(l) ELSE [r(l) EXCEPT !.lo = n.lo, !.hi = n.hi]
      BY <1>1
    <3>2. CASE under
      <4>1. screen.drawn[l] = r(l)
        BY <3>1, <3>2
      <4>2. Covers(r(l), n)
        BY <1>7 DEF Covers
      <4>3. QED
        BY <4>1, <4>2
    <3>3. CASE ~under
      <4>1. screen.drawn[l] = [ref |-> Ring(l, fill, coarse), key |-> colormap, zoom |-> FitZoom,
                               lo |-> n.lo, hi |-> n.hi]
        BY <3>1, <3>3
      <4>2. Covers(screen.drawn[l], n)
        BY <1>4, <4>1 DEF Covers, Spans
      <4>3. QED
        BY <4>1, <4>2
    <3>4. QED
      BY <3>2, <3>3
  <2>4. view.zoom = FitZoom
    BY <1>1 DEF Fit
  <2>5. n = Window(view, "map", 0)
    BY <1>1 DEF n
  <2>6. QED
    BY <1>1, <2>1, <2>2, <2>3, <2>4, <2>5 DEF ScreenIsCurrent
<1>8. Repaints /\ RingKnown /\ NothingRunsUnseen
  BY <1>1 DEF Repaints, OneRepaintPerFrame, RingKnown, NothingRunsUnseen
<1>9. QED
  BY <1>5, <1>6, <1>8 DEF Inv

LEMMA StepInv == ASSUME Inv, [Next]_vars PROVE Inv'
<1>1. CASE Wheel \/ Drag
  BY <1>1, WheelStep, DragStep
<1>2. CASE SelectFill
  BY <1>2, SelectFillStep
<1>3. CASE Hide \/ Unhide
  BY <1>3, HideStep
<1>4. CASE Settle
  BY <1>4, SettleStep
<1>5. CASE Frame
  BY <1>5, FrameStep
<1>6. CASE \E l \in Layers : ToggleLayer(l)
  BY <1>6, ToggleStep
<1>7. CASE \E c \in Colormaps \ {colormap} : FlipColormap(c)
  BY <1>7, FlipStep
<1>8. CASE \E t \in {"map", "other"} : SelectTab(t)
  BY <1>8, SelectTabStep
<1>9. CASE \E r \in Rooms : Resize(r)
  BY <1>9, ResizeStep
<1>10. CASE UNCHANGED vars
  BY <1>10, StutterStep
<1>11. QED
  BY <1>1, <1>2, <1>3, <1>4, <1>5, <1>6, <1>7, <1>8, <1>9, <1>10 DEF Next

-----------------------------------------------------------------------------
(* The inductive invariant of the map tab.                                 *)
THEOREM MapInv == Spec => []Inv
<1>1. Init => Inv
  BY InitInv
<1>2. Inv /\ [Next]_vars => Inv'
  BY StepInv
<1>3. QED
  BY <1>1, <1>2, PTL DEF Spec

(* Type correctness: no bitmap is ever empty, and no window of any fit,    *)
(* pan or zoom leaves the shapes of the model.                             *)
THEOREM MapTypes == Spec => []TypeOK
<1>1. Inv => TypeOK
  BY DEF Inv
<1>2. QED
  BY <1>1, MapInv, PTL

(* With no frame pending the map tab shows the state of now, whichever     *)
(* bitmaps it was blitted from.                                            *)
THEOREM NothingStale == Spec => []ScreenIsCurrent
<1>1. Inv => ScreenIsCurrent
  BY DEF Inv
<1>2. QED
  BY <1>1, MapInv, PTL

(* The frames pending never repaint the map twice.                         *)
THEOREM NoDoubleRepaint == Spec => []OneRepaintPerFrame
<1>1. Inv => OneRepaintPerFrame
  BY DEF Inv, Repaints
<1>2. QED
  BY <1>1, MapInv, PTL

(* When no settle is pending and none was cut off, the ring drawn is the   *)
(* one the zoom wants.                                                     *)
THEOREM RingIsSettled == Spec => []RingSettles
<1>1. Inv => RingSettles
  BY DEF Inv, RingKnown, RingSettles
<1>2. QED
  BY <1>1, MapInv, PTL

(* A hidden document has no timer running.                                 *)
THEOREM IdleWhenHidden == Spec => []NothingRunsUnseen
<1>1. Inv => NothingRunsUnseen
  BY DEF Inv
<1>2. QED
  BY <1>1, MapInv, PTL

(* Only a frame that runs on another tab ever fits the view to a pane that *)
(* is not shown: every other way to fit it goes by the shown pane.         *)
THEOREM ViewIsKept == Spec => ReturningKeepsTheView
<1> DEFINE Lost == view.zoom # Broken /\ view'.zoom = Broken
<1>1. ASSUME Inv, Next, Lost PROVE tab = "other" /\ tab' = "other"
  <2>1. view \in Views /\ view.zoom # Broken /\ view'.zoom = Broken /\ view' # view
    BY <1>1 DEF Inv, TypeOK
  <2>2. ASSUME NEW kind, RenderMap("map", kind) PROVE FALSE
    BY <2>1, <2>2, RefitSound DEF RenderMap
  <2>3. CASE Wheel
    <3>1. PICK z \in Level : view' \in Zoomed(z)
      BY <2>1, <2>3 DEF Wheel
    <3>2. view'.zoom = z
      BY <3>1 DEF Zoomed
    <3>3. QED
      BY <2>1, <3>2, Constants
  <2>4. CASE Drag
    <3>1. PICK d \in PanSteps : view' = IF view.zoom = Broken THEN view
                                        ELSE [view EXCEPT !.left = view.left + d]
      BY <2>4 DEF Drag
    <3>2. view'.zoom = view.zoom
      BY <2>1, <3>1 DEF Views
    <3>3. QED
      BY <2>1, <3>2
  <2>5. CASE SelectFill \/ Hide \/ Unhide \/ Settle
    BY <2>1, <2>5 DEF SelectFill, Hide, Unhide, Settle
  <2>6. CASE Frame
    <3>1. CASE tab = "map"
      <4>1. view' = view \/ \E kind \in {"hot", "cold"} : RenderMap("map", kind)
        BY <2>6, <3>1 DEF Frame
      <4>2. QED
        BY <2>1, <2>2, <4>1
    <3>2. CASE tab # "map"
      BY <1>1, <2>6, <3>2 DEF Frame, Inv, TypeOK
    <3>3. QED
      BY <3>1, <3>2
  <2>7. CASE \E l \in Layers : ToggleLayer(l)
    BY <2>2, <2>7 DEF ToggleLayer
  <2>8. CASE \E c \in Colormaps \ {colormap} : FlipColormap(c)
    BY <2>1, <2>2, <2>8 DEF FlipColormap
  <2>9. CASE \E t \in {"map", "other"} : SelectTab(t)
    BY <2>1, <2>2, <2>9 DEF SelectTab
  <2>10. CASE \E r \in Rooms : Resize(r)
    BY <2>1, <2>10, RefitSound DEF Resize
  <2>11. QED
    BY <1>1, <2>3, <2>4, <2>5, <2>6, <2>7, <2>8, <2>9, <2>10 DEF Next
<1>2. Inv /\ [Next]_vars => [Lost => tab = "other" /\ tab' = "other"]_vars
  BY <1>1
<1>3. QED
  BY <1>2, MapInv, PTL DEF Spec, ReturningKeepsTheView
=============================================================================
