------------------------ MODULE ViewerSectionProofs ------------------------
(***************************************************************************)
(* However many sections are asked for, however their answers interleave   *)
(* with clicks, reloads and the end of the server, each is kept once,      *)
(* under its own label, and is what the canvas of the section tab shows.   *)
(***************************************************************************)
EXTENDS ViewerSection, Integers, TLAPS

Section == [of: Wells \cup {Fence}, answers: 0 .. MaxRequests, columns: BOOLEAN]
InFlight == {"queued", "running", "answered"}

Live == {i \in 1 .. Len(sections) : sections[i].answers # 0}
Delivered == {n \in Request : req[n].at = "done" /\ req[n].for # Model /\ req[n].how # "error"}

(* Answers are the live sections on every page, the one still loading too. *)
AnswersKept ==
  /\ {sections[i].answers : i \in Live} = Delivered
  /\ \A i, j \in Live : sections[i].answers = sections[j].answers => i = j
  /\ \A i \in Live : sections[i].of = req[sections[i].answers].for

(* Requests are numbered as they are made.                                 *)
Numbered == \A n \in Request : n > asked => req[n].at = "none"

(* A page loads with one request for its model, before which and while     *)
(* which it has asked for nothing and has nothing.                         *)
LoadPending(n) == req[n].for = Model /\ req[n].at \in InFlight
Loading  == \A n \in Request : LoadPending(n) => page = "loading"
OneLoad  == \A m, n \in Request : LoadPending(m) /\ LoadPending(n) => m = n
NoneYet  == \A n \in Request : req[n].for # Model => req[n].at \in {"none", "gone"}
Loads    == Loading /\ OneLoad /\ (page # "ready" => sections = <<>> /\ labels = <<>> /\ NoneYet)

(* A serving server has its files, and serves them.                        *)
Serves ==
  /\ server = "serving" => tmp
  /\ server = "serving" => \A n \in Request : req[n].for = Model /\ req[n].at = "answered" => req[n].how = "ok"

Inv == /\ TypeOK /\ LabelsMatchSections /\ ShownOrSaid
       /\ LoadFailsOnlyAfterStop
       /\ AnswersKept /\ Numbered /\ Loads /\ Serves

LEMMA Bounds == MaxRequests \in Nat \ {0} /\ MaxClicks \in Nat
BY BoundsAssumption

LEMMA InitInv == Init => Inv
<1> SUFFICES ASSUME Init PROVE Inv
  OBVIOUS
<1>1. \A n \in Request : /\ req[n].for = Model /\ req[n].how = "none"
                         /\ req[n].at = IF n = 1 THEN "queued" ELSE "none"
  BY DEF Init, NoRequest
<1>2. sections = <<>> /\ labels = <<>> /\ Live = {} /\ Len(sections) = 0 /\ Len(labels) = 0
  BY DEF Init, Live
<1>3. TypeOK
  <2>1. req \in [Request -> [for: Wells \cup {Fence, Model}, at: Places, how: Answers]]
    BY DEF Init, NoRequest, Places, Answers
  <2>2. asked \in 0 .. MaxRequests
    BY Bounds DEF Init
  <2>3. sections \in Seq([of: Wells \cup {Fence}, answers: 0 .. MaxRequests, columns: BOOLEAN])
    BY <1>2
  <2>4. labels \in Seq((Wells \cup {Fence}) \X Nat)
    BY <1>2
  <2>5. /\ idx \in 0 .. Len(sections) /\ (sections # <<>> => idx # 0)
        /\ drawn \in 0 .. Len(sections)
        /\ clicks \in 0 .. MaxClicks
    BY <1>2, Bounds DEF Init
  <2>6. fence \in [drawing: BOOLEAN, points: 0 .. 2]
    BY DEF Init, NoFence
  <2>7. NoticeOK
    BY DEF Init, NoticeOK
  <2>8. QED
    BY <2>1, <2>2, <2>3, <2>4, <2>5, <2>6, <2>7 DEF Init, TypeOK
<1>4. Delivered = {}
  BY <1>1 DEF Delivered
<1>5. AnswersKept
  BY <1>2, <1>4 DEF AnswersKept
<1>6. Numbered
  BY <1>1, Bounds DEF Numbered, Request, Init
<1>7. Loads
  <2>1. page = "loading" /\ \A n \in Request : req[n].at \in InFlight => n = 1
    BY <1>1 DEF Init, InFlight
  <2>2. \A n \in Request : req[n].for = Model
    BY <1>1
  <2>3. Loading /\ OneLoad /\ NoneYet
    BY <2>1, <2>2 DEF Loading, OneLoad, NoneYet, LoadPending
  <2>4. QED
    BY <1>2, <2>3 DEF Loads
<1>8. Serves
  BY <1>1 DEF Serves, Init
<1>9. LabelsMatchSections /\ ShownOrSaid /\ LoadFailsOnlyAfterStop
  BY <1>2 DEF Init, LabelsMatchSections, ShownOrSaid, LoadFailsOnlyAfterStop
<1>10. QED
  BY <1>3, <1>5, <1>6, <1>7, <1>8, <1>9 DEF Inv

-----------------------------------------------------------------------------
(* The server's steps: requests move from being queued to being answered,  *)
(* the page does not change.                                               *)
Moves == \A n \in Request :
  /\ req'[n].for = req[n].for
  /\ req[n].at \notin {"queued", "running"} => req'[n] = req[n]
  /\ req[n].at \in {"queued", "running"} => req'[n].at \in InFlight

LEMMA ServerStep ==
  ASSUME Inv, UNCHANGED pageSide, Moves, Serves',
         req' \in [Request -> [for: Wells \cup {Fence, Model}, at: Places, how: Answers]],
         server' \in {"serving", "interrupted", "closed", "exited"}, tmp' \in BOOLEAN,
         UNCHANGED <<provider, block>>,
         server # "serving" => server' # "serving"
  PROVE  Inv'
<1>1. TypeOK'
  <2>1. NoticeOK'
    BY DEF Inv, TypeOK, NoticeOK, pageSide, noticeSide
  <2>2. QED
    BY <2>1 DEF Inv, TypeOK, pageSide
<1>2. LabelsMatchSections' /\ ShownOrSaid' /\ LoadFailsOnlyAfterStop'
  BY DEF Inv, pageSide, noticeSide, LabelsMatchSections, ShownOrSaid, LoadFailsOnlyAfterStop
<1>3. Delivered' = Delivered
  BY DEF Moves, Delivered, InFlight
<1>4. Live' = Live
  BY DEF Live, pageSide
<1>5. \A i \in Live : sections[i].answers \in Request
  BY DEF Inv, AnswersKept, Delivered
<1>6. AnswersKept'
  BY <1>3, <1>4, <1>5 DEF Inv, AnswersKept, pageSide, Moves
<1>7. Numbered'
  BY DEF Inv, Numbered, Moves, pageSide
<1>8. Loads'
  BY DEF Inv, Loads, Loading, OneLoad, NoneYet, LoadPending, Moves, pageSide, InFlight
<1>9. QED
  BY <1>1, <1>2, <1>6, <1>7, <1>8 DEF Inv

Record == [for: Wells \cup {Fence, Model}, at: Places, how: Answers]

LEMMA RequestTypes ==
  ASSUME Inv, NEW n \in Request
  PROVE  /\ req[n] = [for |-> req[n].for, at |-> req[n].at, how |-> req[n].how]
         /\ req[n].for \in Wells \cup {Fence, Model} /\ req[n].at \in Places /\ req[n].how \in Answers
BY DEF Inv, TypeOK

LEMMA AcceptStep == ASSUME Inv, NEW n \in Request, Accept(n) PROVE Inv'
<1>1. /\ req[n].at = "queued" /\ server = "serving"
      /\ UNCHANGED pageSide /\ UNCHANGED <<server, tmp, provider, block>>
  BY DEF Accept, serverSide
<1>2. req' \in [Request -> [for: Wells \cup {Fence, Model}, at: Places, how: Answers]]
  <2>1. req \in [Request -> Record] /\ "error" \in Answers /\ "answered" \in Places /\ "running" \in Places
    BY DEF Inv, TypeOK, Record, Places, Answers
  <2>2. [req[n] EXCEPT !.at = "running"] \in Record
    BY <2>1 DEF Record
  <2>3. [[req[n] EXCEPT !.at = "answered"] EXCEPT !.how = "error"] \in Record
    BY <2>1 DEF Record
  <2>4. req' \in [Request -> Record]
    BY <2>1, <2>2, <2>3 DEF Accept, Respond
  <2>5. QED
    BY <2>4 DEF Record
<1>3. /\ req'[n].for = req[n].for /\ req'[n].at \in {"running", "answered"}
      /\ (req[n].for = Model => req'[n].at = "running")
      /\ \A m \in Request : m # n => req'[m] = req[m]
  <2>1. req \in [Request -> Record]
    BY DEF Inv, TypeOK, Record
  <2>2. CASE req[n].for # Model /\ ~provider
    BY <2>1, <2>2 DEF Accept, Respond, Record
  <2>3. CASE ~(req[n].for # Model /\ ~provider)
    BY <2>1, <2>3 DEF Accept, Record
  <2>4. QED
    BY <2>2, <2>3
<1>4. Moves
  BY <1>1, <1>3 DEF Moves, InFlight
<1>5. Serves'
  BY <1>1, <1>3 DEF Serves, Inv
<1>6. QED
  BY <1>1, <1>2, <1>4, <1>5, ServerStep DEF Inv, TypeOK

LEMMA ServeStep == ASSUME Inv, NEW n \in Request, Serve(n) PROVE Inv'
<1>1. /\ req[n].at = "running"
      /\ UNCHANGED pageSide /\ UNCHANGED <<server, tmp, provider, block>>
  BY DEF Serve, serverSide
<1>2. PICK how \in {"ok", "nocolumns", "error"} :
        Respond(n, how) /\ (req[n].for = Model /\ tmp => how = "ok")
  BY DEF Serve
<1>3. req' \in [Request -> [for: Wells \cup {Fence, Model}, at: Places, how: Answers]]
  <2>1. req \in [Request -> [for: Wells \cup {Fence, Model}, at: Places, how: Answers]]
    BY DEF Inv, TypeOK
  <2>2. how \in Answers /\ "answered" \in Places
    BY DEF Answers, Places
  <2>3. QED
    BY <1>2, <2>1, <2>2 DEF Respond
<1>4. /\ req'[n].for = req[n].for /\ req'[n].at = "answered" /\ req'[n].how = how
      /\ \A m \in Request : m # n => req'[m] = req[m]
  BY <1>2 DEF Respond, Inv, TypeOK
<1>5. Moves
  BY <1>1, <1>4 DEF Moves, InFlight
<1>6. Serves'
  BY <1>1, <1>2, <1>4 DEF Serves, Inv
<1>7. QED
  BY <1>1, <1>3, <1>5, <1>6, ServerStep DEF Inv, TypeOK

LEMMA ResetMoves ==
  ASSUME Inv, NEW places, places \subseteq {"queued", "running"}, Reset(places)
  PROVE  Moves /\ req' \in [Request -> [for: Wells \cup {Fence, Model}, at: Places, how: Answers]]
<1>1. ASSUME NEW n \in Request
      PROVE  req'[n] = IF req[n].at \in places
                       THEN [for |-> req[n].for, at |-> "answered", how |-> "error"] ELSE req[n]
  BY DEF Reset
<1>2. DOMAIN req' = Request /\ req' = [n \in Request |-> req'[n]]
  BY DEF Reset
<1>3. ASSUME NEW n \in Request
      PROVE  req'[n] \in [for: Wells \cup {Fence, Model}, at: Places, how: Answers]
  <2>1. /\ req[n] \in [for: Wells \cup {Fence, Model}, at: Places, how: Answers]
        /\ req[n].for \in Wells \cup {Fence, Model} /\ "answered" \in Places /\ "error" \in Answers
    BY RequestTypes DEF Inv, TypeOK, Places, Answers
  <2>2. CASE req[n].at \in places
    <3>1. req'[n] = [for |-> req[n].for, at |-> "answered", how |-> "error"]
      BY <1>1, <2>2
    <3>2. QED
      BY <2>1, <3>1
  <2>3. CASE req[n].at \notin places
    BY <1>1, <2>1, <2>3
  <2>4. QED
    BY <2>2, <2>3
<1>4. Moves
  <2> SUFFICES ASSUME NEW n \in Request
               PROVE  /\ req'[n].for = req[n].for
                      /\ req[n].at \notin {"queued", "running"} => req'[n] = req[n]
                      /\ req[n].at \in {"queued", "running"} => req'[n].at \in InFlight
    BY DEF Moves
  <2>1. CASE req[n].at \in places
    <3>1. req'[n] = [for |-> req[n].for, at |-> "answered", how |-> "error"]
      BY <1>1, <2>1
    <3>2. req[n].at \in {"queued", "running"}
      BY <2>1
    <3>3. QED
      BY <3>1, <3>2 DEF InFlight
  <2>2. CASE req[n].at \notin places
    BY <1>1, <2>2 DEF InFlight
  <2>3. QED
    BY <2>1, <2>2
<1>5. QED
  BY <1>2, <1>3, <1>4

LEMMA StopStep == ASSUME Inv, Interrupt \/ Close \/ CleanUp \/ Exit PROVE Inv'
<1>1. CASE Interrupt \/ CleanUp
  <2>1. UNCHANGED pageSide /\ req' = req /\ UNCHANGED <<provider, block>> /\ server' # "serving"
        /\ server' \in {"serving", "interrupted", "closed", "exited"} /\ tmp' \in BOOLEAN
    BY <1>1 DEF Interrupt, CleanUp, Inv, TypeOK
  <2>2. Moves /\ Serves'
    BY <2>1 DEF Moves, InFlight, Serves
  <2>3. QED
    BY <2>1, <2>2, ServerStep DEF Inv, TypeOK
<1>2. CASE Close
  <2>1. UNCHANGED pageSide /\ UNCHANGED <<tmp, provider, block>> /\ server' = "closed" /\ Reset({"queued"})
    BY <1>2 DEF Close
  <2>2. Moves /\ Serves' /\ req' \in [Request -> [for: Wells \cup {Fence, Model}, at: Places, how: Answers]]
    BY <2>1, ResetMoves DEF Serves
  <2>3. QED
    BY <2>1, <2>2, ServerStep DEF Inv, TypeOK
<1>3. CASE Exit
  <2>1. UNCHANGED pageSide /\ UNCHANGED <<tmp, provider, block>> /\ server' = "exited" /\ Reset({"queued", "running"})
    BY <1>3 DEF Exit
  <2>2. Moves /\ Serves' /\ req' \in [Request -> [for: Wells \cup {Fence, Model}, at: Places, how: Answers]]
    BY <2>1, ResetMoves DEF Serves
  <2>3. QED
    BY <2>1, <2>2, ServerStep DEF Inv, TypeOK
<1>4. QED
  BY <1>1, <1>2, <1>3

-----------------------------------------------------------------------------
(* The user's steps and those of other tabs: nothing is added to the       *)
(* sections; one request may be made.                                      *)
Asks == \/ UNCHANGED <<asked, req>>
        \/ \E what \in Wells \cup {Fence} : Fetch(what)

LEMMA UserStep ==
  ASSUME Inv, Asks, page = "ready" \/ UNCHANGED <<asked, req>>,
         UNCHANGED <<page, sections, labels, serverSide>>, TypeOK', ShownOrSaid'
  PROVE  Inv'
<1>1. LabelsMatchSections' /\ LoadFailsOnlyAfterStop'
  BY DEF Inv, LabelsMatchSections, LoadFailsOnlyAfterStop, serverSide
<1>2. Live' = Live /\ \A i \in Live : sections[i].answers \in Delivered
  BY DEF Live, Inv, AnswersKept
<1>3. CASE UNCHANGED <<asked, req>>
  <2>1. AnswersKept' /\ Numbered' /\ Loads' /\ Serves'
    BY <1>2, <1>3 DEF Inv, AnswersKept, Delivered, Numbered, Loads, Loading, OneLoad, NoneYet, LoadPending, Serves, serverSide
  <2>2. QED
    BY <1>1, <2>1 DEF Inv
<1>4. ASSUME NEW what \in Wells \cup {Fence}, Fetch(what) PROVE Inv'
  <2> DEFINE new == asked + 1
  <2>1. new \in Request /\ asked \in Nat /\ asked' = new
    BY <1>4, Bounds DEF Fetch, Inv, TypeOK, Request
  <2>2. /\ req'[new].for = what /\ req'[new].at \in {"queued", "answered"}
        /\ \A m \in Request : m # new => req'[m] = req[m]
    BY <1>4, <2>1 DEF Fetch, Inv, TypeOK
  <2>3. what # Model
    BY NamesAssumption
  <2>4. req[new].at = "none"
    BY <2>1 DEF Inv, Numbered
  <2>5. new \notin Delivered /\ new \notin Delivered'
    BY <2>2, <2>4 DEF Delivered
  <2>6. Delivered' = Delivered
    BY <2>1, <2>2, <2>5 DEF Delivered
  <2>7. \A i \in Live : sections[i].answers \in Request /\ sections[i].answers # new
    BY <1>2, <2>5 DEF Delivered
  <2>8. AnswersKept'
    BY <1>2, <2>2, <2>6, <2>7 DEF Inv, AnswersKept
  <2>9. Numbered'
    <3> SUFFICES ASSUME NEW n \in Request, n > new PROVE req'[n].at = "none"
      BY <2>1 DEF Numbered
    <3>1. n # new /\ n > asked
      BY <2>1 DEF Request
    <3>2. QED
      BY <2>2, <3>1 DEF Inv, Numbered
  <2>10. Loads'
    <3>1. page = "ready"
      BY <2>1
    <3>2. QED
      BY <2>2, <2>3, <3>1 DEF Inv, Loads, Loading, OneLoad, NoneYet, LoadPending
  <2>11. Serves'
    BY <2>2, <2>3 DEF Inv, Serves, serverSide
  <2>12. QED
    BY <1>1, <2>8, <2>9, <2>10, <2>11 DEF Inv
<1>5. QED
  BY <1>3, <1>4 DEF Asks

(* What asking leaves of the types.                                        *)
LEMMA AsksTypes ==
  ASSUME Inv, Asks
  PROVE  /\ asked' \in 0 .. MaxRequests
         /\ req' \in [Request -> [for: Wells \cup {Fence, Model}, at: Places, how: Answers]]
<1>1. CASE UNCHANGED <<asked, req>>
  BY <1>1 DEF Inv, TypeOK
<1>2. ASSUME NEW what \in Wells \cup {Fence}, Fetch(what)
      PROVE  /\ asked' \in 0 .. MaxRequests
             /\ req' \in [Request -> [for: Wells \cup {Fence, Model}, at: Places, how: Answers]]
  <2>1. asked' \in 0 .. MaxRequests
    BY <1>2, Bounds DEF Fetch, Inv, TypeOK
  <2>2. QED
    BY <1>2, <2>1 DEF Fetch, Inv, TypeOK, Places, Answers
<1>3. QED
  BY <1>1, <1>2 DEF Asks

(* What the page shows, and what may be written over it.                   *)
Screen ==
  /\ NoticeOK
  /\ tab \in {"map", "section", "volume"}
  /\ drawn \in 0 .. Len(sections)
  /\ idx \in 0 .. Len(sections) /\ (sections # <<>> => idx # 0)
  /\ fence \in [drawing: BOOLEAN, points: 0 .. 2]
  /\ ShownOrSaid

LEMMA ScreenStep ==
  ASSUME Inv, Asks, page = "ready" \/ UNCHANGED <<asked, req>>,
         UNCHANGED <<page, sections, labels, serverSide>>, clicks' \in 0 .. MaxClicks, Screen'
  PROVE  Inv'
<1>1. TypeOK'
  BY AsksTypes DEF Inv, TypeOK, Screen, serverSide
<1>2. QED
  BY <1>1, UserStep DEF Screen

(* A section rendered on its own tab is what that shows, or says.          *)
LEMMA RenderedShows ==
  ASSUME sections' \in Seq(Section), idx' \in 0 .. Len(sections'), sections' # <<>> => idx' # 0,
         RenderSection(sections', idx'), late' \subseteq {"map", "volume"}
  PROVE  NoticeOK' /\ drawn' \in 0 .. Len(sections') /\ ShownOrSaid'
<1> DEFINE columns == sections'[idx'].columns
<1>1. overwritten' = FALSE /\ NoticeOK'
  BY DEF RenderSection, NoticeOK
<1>2. \/ sections' = <<>> /\ notice' = "nosections" /\ drawn' = 0
      \/ sections' # <<>> /\ ~columns /\ notice' = "nocolumns" /\ drawn' = 0
      \/ sections' # <<>> /\ columns /\ notice' = "none" /\ drawn' = idx'
  BY DEF RenderSection
<1>3. Len(sections') \in Nat
  OBVIOUS
<1>4. drawn' \in 0 .. Len(sections')
  BY <1>2, <1>3
<1>5. drawn' = IF sections' # <<>> /\ columns THEN idx' ELSE 0
  BY <1>2
<1>6. notice' \in {"failed", IF sections' = <<>> THEN "nosections"
                            ELSE IF drawn' = 0 THEN "nocolumns" ELSE "none"}
  BY <1>2, <1>3
<1>7. ShownOrSaid'
  BY <1>5, <1>6 DEF ShownOrSaid
<1>8. QED
  BY <1>1, <1>4, <1>7

(* The notice of another tab, wherever it is written.                      *)
LEMMA OverwrittenShows ==
  ASSUME Inv, UNCHANGED <<page, sections, idx>>, tab' \in {tab, "map", "volume"},
         RenderMap(tab') \/ RenderVolume(tab'), late' \subseteq {"map", "volume"}
  PROVE  NoticeOK' /\ drawn' = drawn /\ ShownOrSaid'
<1>1. notice' \in {"none", "other"} /\ drawn' = drawn
  BY DEF RenderMap, RenderVolume
<1>2. overwritten' \in BOOLEAN
  BY DEF RenderMap, RenderVolume
<1>3. NoticeOK'
  BY <1>1, <1>2 DEF NoticeOK
<1>4. CASE tab' = "section"
  <2>1. tab = "section" /\ overwritten'
    BY <1>4 DEF RenderMap, RenderVolume
  <2>2. ShownOrSaid'
    BY <1>1, <2>1 DEF Inv, ShownOrSaid
  <2>3. QED
    BY <1>1, <1>3, <2>2
<1>5. CASE tab' # "section"
  BY <1>1, <1>3, <1>5 DEF ShownOrSaid
<1>6. QED
  BY <1>4, <1>5

LEMMA LateNow == ASSUME Inv PROVE late \subseteq {"map", "volume"}
BY DEF Inv, TypeOK, NoticeOK

LEMMA ClickTypes == ASSUME Inv, Click PROVE page = "ready" /\ clicks' \in 0 .. MaxClicks
BY Bounds DEF Inv, TypeOK, Click

LEMMA ScreenNow == ASSUME Inv PROVE Screen /\ sections \in Seq(Section) /\ Len(labels) = Len(sections)
BY DEF Inv, TypeOK, Screen, Section, LabelsMatchSections

LEMMA SelectTabStep ==
  ASSUME Inv, NEW t \in {"map", "section", "volume"}, SelectTab(t)
  PROVE  Inv'
<1>1. /\ Click /\ tab' = t /\ RenderTab(t, sections, idx) /\ late' = late \cup ({t} \cap {"volume"})
      /\ UNCHANGED <<page, sections, labels, idx, fence, serverSide>> /\ UNCHANGED <<asked, req>>
  BY DEF SelectTab, NoFetch
<1>5. late' \subseteq {"map", "volume"}
  BY <1>1, LateNow
<1>2. CASE t = "section"
  <2>1. RenderSection(sections', idx')
    BY <1>1, <1>2 DEF RenderTab
  <2>2. Screen'
    BY <1>1, <1>5, <2>1, ScreenNow, RenderedShows DEF Screen
  <2>3. QED
    BY <1>1, <2>2, ClickTypes, ScreenStep DEF Asks
<1>3. CASE t # "section"
  <2>1. RenderMap(tab') \/ RenderVolume(tab')
    BY <1>1, <1>3 DEF RenderTab
  <2>2. Screen'
    BY <1>1, <1>3, <1>5, <2>1, ScreenNow, OverwrittenShows DEF Screen
  <2>3. QED
    BY <1>1, <2>2, ClickTypes, ScreenStep DEF Asks
<1>4. QED
  BY <1>2, <1>3

LEMMA ChooseTraceStep ==
  ASSUME Inv, NEW i \in 1 .. Len(sections), ChooseTrace(i)
  PROVE  Inv'
<1>1. /\ Click /\ tab' = "section" /\ idx' = i /\ RenderSection(sections', idx')
      /\ UNCHANGED <<page, late, sections, labels, fence, serverSide>> /\ UNCHANGED <<asked, req>>
  BY DEF ChooseTrace, NoFetch
<1>2. i \in 0 .. Len(sections) /\ i # 0
  BY ScreenNow
<1>3. Screen'
  BY <1>1, <1>2, ScreenNow, LateNow, RenderedShows DEF Screen
<1>4. QED
  BY <1>1, <1>3, ClickTypes, ScreenStep DEF Asks

LEMMA ClickWellStep ==
  ASSUME Inv, NEW w \in Wells, ClickWell(w)
  PROVE  Inv'
<1>1. Click /\ tab = "map" /\ UNCHANGED <<page, late, sections, labels, fence, serverSide>>
  BY DEF ClickWell
<1>2. CASE /\ Fetch(w) /\ UNCHANGED <<tab, idx, notice, overwritten, drawn>>
  <2>1. ShownOrSaid'
    BY <1>1, <1>2 DEF ShownOrSaid
  <2>2. Screen'
    BY <1>1, <1>2, <2>1, ScreenNow DEF Screen, NoticeOK
  <2>3. QED
    BY <1>1, <1>2, <2>2, ClickTypes, ScreenStep DEF Asks
<1>3. ASSUME NEW i \in 1 .. Len(labels), idx' = i, tab' = "section", RenderSection(sections, i), NoFetch
      PROVE  Inv'
  <2>1. i \in 0 .. Len(sections) /\ i # 0
    BY <1>3, ScreenNow
  <2>2. RenderSection(sections', idx')
    BY <1>1, <1>3
  <2>3. Screen'
    BY <1>1, <1>3, <2>1, <2>2, ScreenNow, LateNow, RenderedShows DEF Screen
  <2>4. QED
    BY <1>1, <1>3, <2>3, ClickTypes, ScreenStep DEF Asks, NoFetch
<1>4. QED
  BY <1>2, <1>3 DEF ClickWell

(* A gesture and the three ways to draw a fence, all on the map tab.       *)
LEMMA OnMapStep ==
  ASSUME Inv, MapGesture \/ FenceButton \/ FencePoint \/ FenceDoubleClick
  PROVE  Inv'
<1>1. /\ Click /\ tab = "map" /\ tab' = "map" /\ UNCHANGED <<page, sections, labels, idx, serverSide>>
      /\ late' \in {late, late \cup {"map"}}
  BY DEF MapGesture, FenceButton, FencePoint, FenceDoubleClick
<1>2. Asks
  BY DEF MapGesture, FenceButton, FencePoint, FenceDoubleClick, FinishFence, NoFetch, Asks
<1>3. RenderMap(tab) \/ UNCHANGED <<notice, overwritten, drawn>>
  BY DEF MapGesture, FenceButton, FencePoint, FenceDoubleClick, FinishFence
<1>4. fence' \in [drawing: BOOLEAN, points: 0 .. 2]
  <2>1. fence \in [drawing: BOOLEAN, points: 0 .. 2]
    BY ScreenNow DEF Screen
  <2>2. CASE FenceButton \/ FenceDoubleClick
    <3>1. fence' = NoFence \/ fence' = [drawing |-> TRUE, points |-> 0]
      BY <2>2 DEF FenceButton, FenceDoubleClick, FinishFence
    <3>2. [drawing |-> TRUE, points |-> 0] \in [drawing: BOOLEAN, points: 0 .. 2]
      OBVIOUS
    <3>3. NoFence \in [drawing: BOOLEAN, points: 0 .. 2]
      BY DEF NoFence
    <3>4. QED
      BY <3>1, <3>2, <3>3
  <2>3. CASE FencePoint
    <3>1. fence.points \in 0 .. 2 /\ fence.points < 2 /\ fence' = [fence EXCEPT !.points = fence.points + 1]
      BY <2>1, <2>3 DEF FencePoint
    <3>2. fence.points + 1 \in 0 .. 2
      BY <3>1
    <3>3. QED
      BY <2>1, <3>1, <3>2
  <2>4. CASE MapGesture
    BY <2>1, <2>4 DEF MapGesture
  <2>5. QED
    BY <2>2, <2>3, <2>4
<1>5. drawn' = drawn /\ NoticeOK'
  BY <1>1, <1>3, ScreenNow DEF RenderMap, Screen, NoticeOK
<1>6. ShownOrSaid'
  BY <1>1 DEF ShownOrSaid
<1>7. Screen'
  BY <1>1, <1>4, <1>5, <1>6, ScreenNow DEF Screen
<1>8. QED
  BY <1>1, <1>2, <1>7, ClickTypes, ScreenStep

(* A frame of the map or an answer to the volume, on whatever tab.         *)
LEMMA ElsewhereStep == ASSUME Inv, MapFrame \/ VolumeAnswer PROVE Inv'
<1>1. /\ UNCHANGED <<page, tab, sections, labels, idx, fence, serverSide>> /\ UNCHANGED <<asked, req>>
      /\ clicks' = clicks /\ (RenderMap(tab') \/ RenderVolume(tab'))
      /\ late' \in {late, late \ {"map"}, late \ {"volume"}}
  BY DEF MapFrame, VolumeAnswer
<1>2. clicks \in 0 .. MaxClicks
  BY DEF Inv, TypeOK
<1>5. late' \subseteq {"map", "volume"}
  BY <1>1, LateNow
<1>3. Screen'
  BY <1>1, <1>5, ScreenNow, OverwrittenShows DEF Screen
<1>4. QED
  BY <1>1, <1>2, <1>3, ScreenStep DEF Asks

LEMMA ReloadStep == ASSUME Inv, Reload PROVE Inv'
<1> DEFINE new == asked + 1
<1>1. new \in Request /\ asked \in Nat /\ asked' = new /\ new \in 0 .. MaxRequests
  BY Bounds DEF Reload, Inv, TypeOK, Request
<1>2. ASSUME NEW n \in Request
      PROVE  req'[n] = IF n = new THEN [for |-> Model, at |-> "queued", how |-> "none"]
                       ELSE IF n <= asked THEN [for |-> req[n].for, at |-> "gone", how |-> req[n].how]
                       ELSE req[n]
  <2>1. req[n] \in Record
    BY DEF Inv, TypeOK, Record
  <2>2. ASSUME NEW r \in Record
        PROVE  [r EXCEPT !.at = "gone"] = [for |-> r.for, at |-> "gone", how |-> r.how]
    BY DEF Record
  <2>3. QED
    BY <2>1, <2>2 DEF Reload
<1>3. ASSUME NEW n \in Request
      PROVE  /\ n # new => req'[n].at \in {"gone", "none"}
             /\ n > new => req'[n].at = "none"
             /\ n = new => req'[n].for = Model /\ req'[n].at = "queued"
             /\ req'[n] \in [for: Wells \cup {Fence, Model}, at: Places, how: Answers]
  <2>1. n \in Int
    BY DEF Request
  <2>2. CASE n = new
    <3>1. req'[n] = [for |-> Model, at |-> "queued", how |-> "none"]
      BY <1>2, <2>2
    <3>2. "queued" \in Places /\ "none" \in Answers
      BY DEF Places, Answers
    <3>3. QED
      BY <1>1, <2>1, <2>2, <3>1, <3>2
  <2>3. CASE n <= asked
    <3>1. n # new /\ ~(n > new)
      BY <1>1, <2>1, <2>3
    <3>2. req'[n] = [for |-> req[n].for, at |-> "gone", how |-> req[n].how]
      BY <1>2, <2>3, <3>1
    <3>3. "gone" \in Places /\ req[n].for \in Wells \cup {Fence, Model} /\ req[n].how \in Answers
      BY RequestTypes DEF Places
    <3>4. QED
      BY <3>1, <3>2, <3>3
  <2>4. CASE n > new
    <3>1. n # new /\ ~(n <= asked) /\ n > asked
      BY <1>1, <2>1, <2>4
    <3>2. req'[n] = req[n] /\ req[n].at = "none"
      BY <1>2, <3>1 DEF Inv, Numbered
    <3>3. req[n] \in [for: Wells \cup {Fence, Model}, at: Places, how: Answers]
      BY DEF Inv, TypeOK
    <3>4. QED
      BY <3>1, <3>2, <3>3
  <2>5. QED
    BY <1>1, <2>1, <2>2, <2>3, <2>4
<1>4. /\ page' = "loading" /\ tab' = "map" /\ notice' = "none" /\ sections' = <<>> /\ labels' = <<>>
      /\ late' = {} /\ overwritten' = FALSE
      /\ idx' = 0 /\ drawn' = 0 /\ fence' = NoFence /\ UNCHANGED serverSide
      /\ clicks' \in 0 .. MaxClicks /\ req' = [n \in Request |-> req'[n]]
  <2>1. /\ page' = "loading" /\ tab' = "map" /\ notice' = "none" /\ sections' = <<>> /\ labels' = <<>>
        /\ late' = {} /\ overwritten' = FALSE
        /\ idx' = 0 /\ drawn' = 0 /\ fence' = NoFence /\ UNCHANGED serverSide
        /\ clicks < MaxClicks /\ clicks' = clicks + 1
    BY DEF Reload
  <2>2. clicks \in 0 .. MaxClicks
    BY DEF Inv, TypeOK
  <2>3. clicks' \in 0 .. MaxClicks
    BY <2>1, <2>2, Bounds
  <2>4. req' = [n \in Request |-> req'[n]]
    BY DEF Reload
  <2>5. QED
    BY <2>1, <2>3, <2>4
<1>5. TypeOK'
  <2>1. req' \in [Request -> [for: Wells \cup {Fence, Model}, at: Places, how: Answers]]
    BY <1>3, <1>4
  <2>2. QED
    <3>1. NoticeOK'
      BY <1>4 DEF NoticeOK
    <3>2. QED
      BY <1>1, <1>4, <2>1, <3>1, Bounds DEF Inv, TypeOK, NoFence, serverSide
<1>6. Live' = {} /\ Delivered' = {}
  BY <1>3, <1>4 DEF Live, Delivered
<1>7. AnswersKept'
  BY <1>6 DEF AnswersKept
<1>8. Numbered'
  BY <1>1, <1>3 DEF Numbered
<1>9. Loads'
  <2>1. \A n \in Request : req'[n].at \in InFlight => n = new
    BY <1>3 DEF InFlight
  <2>2. NoneYet'
    BY <1>3 DEF NoneYet
  <2>3. Loading' /\ OneLoad'
    BY <1>4, <2>1 DEF Loading, OneLoad, LoadPending
  <2>4. QED
    BY <1>4, <2>2, <2>3 DEF Loads
<1>12. Serves'
  BY <1>3, <1>4 DEF Serves, Inv, serverSide
<1>10. LabelsMatchSections' /\ ShownOrSaid' /\ LoadFailsOnlyAfterStop'
  BY <1>4 DEF LabelsMatchSections, ShownOrSaid, LoadFailsOnlyAfterStop
<1>11. QED
  BY <1>5, <1>7, <1>8, <1>9, <1>10, <1>12 DEF Inv

-----------------------------------------------------------------------------
(* The answers.                                                            *)
LEMMA AnsweredStep == ASSUME Inv, NEW n \in Request, Answered(n) PROVE Inv'
<1>1. /\ req[n].at = "answered" /\ UNCHANGED <<asked, clicks, serverSide>>
      /\ req'[n].for = req[n].for /\ req'[n].at = "done" /\ req'[n].how = req[n].how
      /\ \A m \in Request : m # n => req'[m] = req[m]
  BY DEF Answered, Inv, TypeOK
<1>2. req' \in [Request -> [for: Wells \cup {Fence, Model}, at: Places, how: Answers]]
  <2>1. req \in [Request -> [for: Wells \cup {Fence, Model}, at: Places, how: Answers]]
    BY DEF Inv, TypeOK
  <2>2. req' = [req EXCEPT ![n].at = "done"] /\ "done" \in Places
    BY DEF Answered, Places
  <2>3. QED
    BY <2>1, <2>2
<1>3. Numbered'
  BY <1>1 DEF Inv, Numbered
<1>4. Serves'
  BY <1>1 DEF Inv, Serves, serverSide
<1>5. CASE req[n].for = Model
  <2>1. page = "loading" /\ sections = <<>> /\ labels = <<>> /\ Live = {}
    BY <1>1, <1>5 DEF Inv, Loads, Loading, OneLoad, NoneYet, LoadPending, InFlight, Live
  <2>2. Delivered = {}
    BY <2>1 DEF Inv, Loads, Loading, OneLoad, NoneYet, LoadPending, Delivered
  <2>3. Delivered' = {}
    BY <1>1, <1>5, <2>2 DEF Delivered
  <2>4. \A m \in Request : ~(req'[m].for = Model /\ req'[m].at \in InFlight)
    BY <1>1, <1>5 DEF Inv, Loads, Loading, OneLoad, NoneYet, LoadPending, InFlight
  <2>5. CASE req[n].how = "ok"
    <3>1. Boot
      BY <1>5, <2>5 DEF Answered
    <3>2. Len(Precomputed) \in Nat /\ \A i \in 1 .. Len(Precomputed) : Precomputed[i] \in Wells
      BY NamesAssumption
    <3>3. /\ sections' = [i \in 1 .. Len(Precomputed) |->
                            [of |-> Precomputed[i], answers |-> 0, columns |-> TRUE]]
          /\ sections' \in Seq(Section) /\ Len(sections') = Len(Precomputed)
      BY <3>1, <3>2, Bounds DEF Boot, Section
    <3>4. /\ labels' = [i \in 1 .. Len(Precomputed) |-> <<Precomputed[i], 0>>]
          /\ labels' \in Seq((Wells \cup {Fence}) \X Nat) /\ Len(labels') = Len(Precomputed)
      BY <3>1, <3>2 DEF Boot
    <3>5. idx' \in 0 .. Len(sections') /\ (sections' # <<>> => idx' # 0)
      BY <3>1, <3>2, <3>3, NamesAssumption DEF Boot
    <3>6. TypeOK'
      <4>1. NoticeOK'
        BY <3>1 DEF Boot, Inv, TypeOK, NoticeOK
      <4>2. QED
        BY <1>1, <1>2, <3>1, <3>3, <3>4, <3>5, <4>1 DEF Boot, NoFence, Inv, TypeOK, Section, serverSide
    <3>7. Live' = {}
      BY <3>3 DEF Live
    <3>8. AnswersKept'
      BY <2>3, <3>7 DEF AnswersKept
    <3>9. LabelsMatchSections'
      BY <3>3, <3>4 DEF LabelsMatchSections
    <3>10. page' = "ready" /\ tab' = "map" /\ drawn' = 0
      BY <3>1 DEF Boot
    <3>12. Loads'
      <4>1. Loading' /\ OneLoad'
        BY <2>4 DEF Loading, OneLoad, LoadPending
      <4>2. QED
        BY <3>10, <4>1 DEF Loads
    <3>13. ShownOrSaid' /\ LoadFailsOnlyAfterStop'
      BY <3>10 DEF ShownOrSaid, LoadFailsOnlyAfterStop
    <3>11. QED
      BY <1>3, <1>4, <3>6, <3>8, <3>9, <3>12, <3>13 DEF Inv
  <2>6. CASE req[n].how = "error"
    <3>1. page' = "banner" /\ UNCHANGED <<tab, notice, late, overwritten, sections, labels, idx, drawn, fence>>
      BY <1>5, <2>6 DEF Answered, noticeSide
    <3>2. server # "serving"
      BY <1>1, <1>5, <2>6 DEF Inv, Serves
    <3>3. TypeOK'
      <4>1. NoticeOK'
        BY <3>1 DEF Inv, TypeOK, NoticeOK
      <4>2. QED
        BY <1>1, <1>2, <3>1, <4>1 DEF Inv, TypeOK, serverSide
    <3>4. Live' = {}
      BY <2>1, <3>1 DEF Live
    <3>5. AnswersKept'
      BY <2>3, <3>4 DEF AnswersKept
    <3>6. LabelsMatchSections' /\ ShownOrSaid' /\ LoadFailsOnlyAfterStop'
      BY <1>1, <3>1, <3>2 DEF Inv, LabelsMatchSections, ShownOrSaid, LoadFailsOnlyAfterStop, serverSide
    <3>7. Loads'
      <4>1. NoneYet'
        BY <1>1, <1>5, <2>1 DEF Inv, Loads, NoneYet
      <4>2. Loading' /\ OneLoad'
        BY <2>4 DEF Loading, OneLoad, LoadPending
      <4>3. QED
        BY <2>1, <3>1, <4>1, <4>2 DEF Loads
    <3>8. QED
      BY <1>3, <1>4, <3>3, <3>5, <3>6, <3>7 DEF Inv
  <2>7. QED
    BY <1>5, <2>5, <2>6 DEF Answered
<1>6. CASE req[n].for # Model
  <2>1. page = "ready"
    BY <1>1, <1>6 DEF Inv, Loads, Loading, OneLoad, NoneYet, LoadPending
  <2>2. Loads' \/ page' # "ready"
    BY <1>1, <1>6, <2>1 DEF Inv, Loads, Loading, OneLoad, NoneYet, LoadPending
  <2>3. \A i \in Live : sections[i].answers \in Request /\ sections[i].answers # n
    BY <1>1 DEF Inv, AnswersKept, Delivered
  <2>4. CASE req[n].how = "error"
    <3>1. /\ notice' = "failed" /\ overwritten' = FALSE
          /\ UNCHANGED <<page, tab, late, sections, labels, idx, drawn, fence>>
      BY <1>6, <2>4 DEF Answered
    <3>2. Delivered' = Delivered /\ Live' = Live
      BY <1>1, <2>4, <3>1 DEF Delivered, Live
    <3>3. AnswersKept'
      BY <1>1, <2>3, <3>1, <3>2 DEF Inv, AnswersKept
    <3>4. TypeOK'
      <4>1. NoticeOK'
        BY <3>1 DEF Inv, TypeOK, NoticeOK
      <4>2. QED
        BY <1>1, <1>2, <3>1, <4>1 DEF Inv, TypeOK, serverSide
    <3>5. LabelsMatchSections' /\ ShownOrSaid' /\ LoadFailsOnlyAfterStop'
      BY <1>1, <2>1, <3>1 DEF Inv, LabelsMatchSections, ShownOrSaid, LoadFailsOnlyAfterStop, serverSide
    <3>6. QED
      BY <1>3, <1>4, <2>1, <2>2, <3>1, <3>3, <3>4, <3>5 DEF Inv
  <2>5. CASE req[n].how # "error"
    <3> DEFINE len == Len(sections)
               s == [of |-> req[n].for, answers |-> n, columns |-> req[n].how = "ok"]
    <3>1. AddSection(n, req[n])
      BY <1>6, <2>5 DEF Answered
    <3>2. /\ sections \in Seq(Section) /\ labels \in Seq((Wells \cup {Fence}) \X Nat)
          /\ len \in Nat /\ Len(labels) = len
      BY DEF Inv, TypeOK, Section, LabelsMatchSections
    <3>3. s \in Section /\ s.answers = n /\ s.of = req[n].for /\ n # 0
      <4>1. n \in 0 .. MaxRequests /\ n # 0
        BY Bounds DEF Request
      <4>2. req[n].for \in Wells \cup {Fence}
        BY <1>6, RequestTypes
      <4>3. (req[n].how = "ok") \in BOOLEAN
        OBVIOUS
      <4>4. ASSUME NEW b \in BOOLEAN
            PROVE  [of |-> req[n].for, answers |-> n, columns |-> b] \in Section
        BY <4>1, <4>2 DEF Section
      <4>5. s \in Section
        BY <4>3, <4>4, Zenon
      <4>6. QED
        BY <4>1, <4>5
    <3>4. /\ sections' = Append(sections, s) /\ sections' \in Seq(Section) /\ Len(sections') = len + 1
          /\ \A i \in 1 .. len : sections'[i] = sections[i]
          /\ sections'[len + 1] = s /\ sections' # <<>>
      <4>1. sections' = Append(sections, s)
        BY <3>1 DEF AddSection
      <4>2. ASSUME NEW e \in Section
            PROVE  /\ Append(sections, e) \in Seq(Section) /\ Len(Append(sections, e)) = len + 1
                   /\ \A i \in 1 .. len : Append(sections, e)[i] = sections[i]
                   /\ Append(sections, e)[len + 1] = e /\ Append(sections, e) # <<>>
        BY <3>2
      <4> HIDE DEF s, len
      <4>3. QED
        BY <3>3, <4>1, <4>2
    <3>5. /\ labels' = Append(labels, <<req[n].for, len + 1>>)
          /\ labels' \in Seq((Wells \cup {Fence}) \X Nat) /\ Len(labels') = len + 1
          /\ \A i \in 1 .. len : labels'[i] = labels[i]
          /\ labels'[len + 1] = <<req[n].for, len + 1>>
      <4>1. labels' = Append(labels, <<req[n].for, len + 1>>)
        BY <3>1, <3>4 DEF AddSection
      <4>2. <<req[n].for, len + 1>> \in (Wells \cup {Fence}) \X Nat
        <5>1. req[n].for \in Wells \cup {Fence}
          BY <1>6, RequestTypes
        <5>2. len + 1 \in Nat
          BY <3>2
        <5>3. QED
          BY <5>1, <5>2
      <4>3. QED
        BY <3>2, <4>1, <4>2
    <3>6. /\ idx' = len + 1 /\ tab' = "section" /\ UNCHANGED <<page, late, fence>>
          /\ RenderSection(sections', idx')
      BY <3>1, <3>4 DEF AddSection
    <3> HIDE DEF s, len
    <3>14. /\ NoticeOK' /\ drawn' \in 0 .. Len(sections') /\ ShownOrSaid'
           /\ idx' \in 0 .. Len(sections') /\ idx' # 0
      <4>1. idx' \in 0 .. Len(sections') /\ idx' # 0
        BY <3>2, <3>4, <3>6
      <4>2. QED
        BY <3>4, <3>6, <4>1, LateNow, RenderedShows
    <3>7. TypeOK'
      BY <1>1, <1>2, <3>4, <3>5, <3>6, <3>14 DEF Inv, TypeOK, Section, serverSide
    <3> USE DEF s, len
    <3>8. LabelsMatchSections'
      <4> SUFFICES ASSUME NEW i \in 1 .. len + 1
                   PROVE  labels'[i] = <<sections'[i].of, IF sections'[i].answers = 0 THEN 0 ELSE i>>
        BY <3>4, <3>5 DEF LabelsMatchSections
      <4>1. CASE i = len + 1
        BY <3>3, <3>4, <3>5, <4>1
      <4>2. CASE i # len + 1
        <5>1. i \in 1 .. len
          BY <3>2, <4>2
        <5>2. labels[i] = <<sections[i].of, IF sections[i].answers = 0 THEN 0 ELSE i>>
          BY <5>1 DEF Inv, LabelsMatchSections
        <5>3. QED
          BY <3>4, <3>5, <5>1, <5>2
      <4>3. QED
        BY <4>1, <4>2
    <3>9. Live' = Live \cup {len + 1} /\ len + 1 \notin Live /\ \A i \in Live : sections'[i] = sections[i]
      BY <3>2, <3>3, <3>4 DEF Live
    <3>10. Delivered' = Delivered \cup {n}
      BY <1>1, <1>6, <2>5 DEF Delivered
    <3>11. AnswersKept'
      <4>1. \A i \in Live' : sections'[i].answers = IF i = len + 1 THEN n ELSE sections[i].answers
        BY <3>3, <3>4, <3>9
      <4>2. {sections'[i].answers : i \in Live'} = Delivered'
        BY <3>9, <3>10, <4>1 DEF Inv, AnswersKept
      <4>3. \A i, j \in Live' : sections'[i].answers = sections'[j].answers => i = j
        BY <2>3, <3>9, <4>1 DEF Inv, AnswersKept
      <4>4. \A i \in Live' : sections'[i].of = req'[sections'[i].answers].for
        <5> SUFFICES ASSUME NEW i \in Live' PROVE sections'[i].of = req'[sections'[i].answers].for
          OBVIOUS
        <5>1. CASE i = len + 1
          BY <1>1, <3>3, <3>4, <5>1
        <5>2. CASE i # len + 1
          <6>1. i \in Live /\ sections'[i] = sections[i]
            BY <3>9, <5>2
          <6>2. sections[i].of = req[sections[i].answers].for
            BY <6>1 DEF Inv, AnswersKept
          <6>3. req'[sections[i].answers] = req[sections[i].answers]
            BY <1>1, <2>3, <6>1
          <6>4. QED
            BY <6>1, <6>2, <6>3
        <5>3. QED
          BY <5>1, <5>2
      <4>5. QED
        BY <4>2, <4>3, <4>4 DEF AnswersKept
    <3>12. ShownOrSaid' /\ LoadFailsOnlyAfterStop'
      BY <2>1, <3>6, <3>14 DEF LoadFailsOnlyAfterStop
    <3>13. QED
      BY <1>3, <1>4, <2>1, <2>2, <3>6, <3>7, <3>8, <3>11, <3>12 DEF Inv
  <2>6. QED
    BY <2>4, <2>5
<1>7. QED
  BY <1>5, <1>6

LEMMA StutterStep == ASSUME Inv, UNCHANGED vars PROVE Inv'
<1>1. TypeOK'
  <2>1. NoticeOK'
    BY DEF vars, noticeSide, Inv, TypeOK, NoticeOK
  <2>2. QED
    BY <2>1 DEF vars, serverSide, Inv, TypeOK
<1>2. ShownOrSaid'
  BY DEF vars, noticeSide, Inv, ShownOrSaid
<1>3. QED
  BY <1>1, <1>2 DEF vars, serverSide, Inv, LabelsMatchSections, LoadFailsOnlyAfterStop,
     AnswersKept, Live, Delivered, Numbered, Loads, Loading, OneLoad, NoneYet, LoadPending, Serves

LEMMA StepInv == ASSUME Inv, [Next]_vars PROVE Inv'
<1>1. CASE \/ \E t \in {"map", "section", "volume"} : SelectTab(t)
           \/ \E i \in 1 .. Len(sections) : ChooseTrace(i)
           \/ \E w \in Wells : ClickWell(w)
           \/ MapGesture \/ FenceButton \/ FencePoint \/ FenceDoubleClick
           \/ MapFrame \/ VolumeAnswer
  BY <1>1, SelectTabStep, ChooseTraceStep, ClickWellStep, OnMapStep, ElsewhereStep
<1>2. CASE Reload
  BY <1>2, ReloadStep
<1>3. CASE \E n \in Request : Answered(n)
  BY <1>3, AnsweredStep
<1>4. CASE \E n \in Request : Accept(n)
  BY <1>4, AcceptStep
<1>5. CASE \E n \in Request : Serve(n)
  BY <1>5, ServeStep
<1>6. CASE Interrupt \/ Close \/ CleanUp \/ Exit
  BY <1>6, StopStep
<1>7. CASE UNCHANGED vars
  BY <1>7, StutterStep
<1>8. QED
  BY <1>1, <1>2, <1>3, <1>4, <1>5, <1>6, <1>7 DEF Next

-----------------------------------------------------------------------------
(* The inductive invariant of the page, its requests and the server.       *)
THEOREM SectionsInv == Spec => []Inv
<1>1. Init => Inv
  BY InitInv
<1>2. Inv /\ [Next]_vars => Inv'
  BY StepInv
<1>3. QED
  BY <1>1, <1>2, PTL DEF Spec

(* Type correctness of the page, its requests and the server.              *)
THEOREM SectionTypes == Spec => []TypeOK
<1>1. Inv => TypeOK
  BY DEF Inv
<1>2. QED
  BY <1>1, SectionsInv, PTL

(* Each label names what its section is of, in whatever order the answers  *)
(* came; live labels carry the place, so no two are the same.              *)
THEOREM LabelsMatch == Spec => []LabelsMatchSections
<1>1. Inv => LabelsMatchSections
  BY DEF Inv
<1>2. QED
  BY <1>1, SectionsInv, PTL

(* Every answer delivered to the page is a section of it, once.            *)
THEOREM AnswersStay == Spec => []NoAnswerLost
<1>1. Inv => NoAnswerLost
  BY DEF Inv, AnswersKept, Live, Delivered, NoAnswerLost
<1>2. QED
  BY <1>1, SectionsInv, PTL

(* The canvas of the section tab is always the selected section's, even    *)
(* when frames of the map and answers to the volume come in between; and   *)
(* a blank one is never silent unless one of those took the notice down.   *)
THEOREM NeverSilent == Spec => []ShownOrSaid
<1>1. Inv => ShownOrSaid
  BY DEF Inv
<1>2. QED
  BY <1>1, SectionsInv, PTL

(* A load of the page fails only after the server was stopped.             *)
THEOREM LoadsHold == Spec => []LoadFailsOnlyAfterStop
<1>1. Inv => LoadFailsOnlyAfterStop
  BY DEF Inv
<1>2. QED
  BY <1>1, SectionsInv, PTL
=============================================================================
