---------------------------- MODULE ViewerSection ----------------------------
(***************************************************************************)
(* Sections on demand: the page asks for the section under a well or along *)
(* a fence (viewer/70-overlays.js, 20-map.js), the local server runs one   *)
(* thread per request (_server.py), and the answers are appended to the    *)
(* page's sections in the order they arrive (30-section.js draws one of    *)
(* them).  The same server serves the page's own model.json from a         *)
(* temporary directory, may be interrupted, and may exit; the page may be  *)
(* reloaded.                                                               *)
(*                                                                         *)
(* All tabs write one notice, and two of them write it later too, whatever *)
(* tab is shown then: the map from a frame, the volume from a decode's or  *)
(* a re-cut's answer.  The volume tab stands for every tab but the map's   *)
(* and the section's.                                                      *)
(*                                                                         *)
(* A label is a name and the number appended to it, 0 for a payload's own  *)
(* label, which is the bare name.  So no well's id is another's followed   *)
(* by a number.                                                            *)
(***************************************************************************)
EXTENDS Naturals, Sequences

CONSTANTS
  Wells,        (* the wells with a marker on the map                      *)
  Precomputed,  (* the wells whose section the payload brings, in order    *)
  Fence,        (* the name of sections along a fence line                 *)
  Model,        (* what a request for model.json asks for                  *)
  MaxRequests,  (* bound: requests made                                    *)
  MaxClicks     (* bound: user actions                                     *)

ASSUME NamesAssumption ==
  /\ Fence \notin Wells /\ Model \notin Wells \cup {Fence}
  /\ Precomputed \in Seq(Wells)
ASSUME BoundsAssumption == MaxRequests \in Nat \ {0} /\ MaxClicks \in Nat

VARIABLES
  page,      (* "loading", "ready" or "banner": it could not start         *)
  tab,       (* App.tab                                                    *)
  notice,    (* #empty: "none" or what it says, "other" for another tab's  *)
  late,      (* the tabs whose code may still write the notice, unasked    *)
  overwritten, (* the code of a tab that was not shown wrote it last       *)
  sections,  (* S.sections: of what, answering which request, with columns *)
  labels,    (* S.sectionLabels                                            *)
  idx,       (* S.sectionIdx, from 1; 0 when there are no sections         *)
  drawn,     (* the section on the section canvas, 0 if it is blank        *)
  fence,     (* S.fence: whether it is drawn, and its points, 2 for more   *)
  req,       (* per request: for what, where it is, how it was answered    *)
  asked,     (* requests made                                              *)
  clicks,    (* user actions taken                                         *)
  server,    (* "serving", "interrupted", "closed" or "exited"             *)
  tmp,       (* the server's temporary directory exists                    *)
  provider,  (* a section provider was given                               *)
  block      (* serve(block=True)                                          *)

serverSide == <<server, tmp, provider, block>>
noticeSide == <<notice, late, overwritten>>
vars == <<page, tab, noticeSide, sections, labels, idx, drawn, fence, req,
          asked, clicks, serverSide>>

Places  == {"none", "queued", "running", "answered", "done", "gone"}
Answers == {"none", "ok", "nocolumns", "error"}
Request == 1..MaxRequests

NoticeOK == /\ notice \in {"none", "nosections", "nocolumns", "failed", "other"}
            /\ late \subseteq {"map", "volume"} /\ overwritten \in BOOLEAN

TypeOK ==
  /\ page \in {"loading", "ready", "banner"}
  /\ tab \in {"map", "section", "volume"}
  /\ NoticeOK
  /\ sections \in Seq([of: Wells \cup {Fence}, answers: 0..MaxRequests, columns: BOOLEAN])
  /\ labels \in Seq((Wells \cup {Fence}) \X Nat)
  /\ idx \in 0..Len(sections) /\ (sections # <<>> => idx # 0)
  /\ drawn \in 0..Len(sections)
  /\ fence \in [drawing: BOOLEAN, points: 0..2]
  /\ req \in [Request -> [for: Wells \cup {Fence, Model}, at: Places, how: Answers]]
  /\ asked \in 0..MaxRequests
  /\ clicks \in 0..MaxClicks
  /\ server \in {"serving", "interrupted", "closed", "exited"}
  /\ tmp \in BOOLEAN /\ provider \in BOOLEAN /\ block \in BOOLEAN

NoFence == [drawing |-> FALSE, points |-> 0]
NoRequest == [for |-> Model, at |-> "none", how |-> "none"]

(* The page has been opened and asks for its model.                        *)
Init ==
  /\ page = "loading" /\ tab = "map"
  /\ notice = "none" /\ late = {} /\ overwritten = FALSE
  /\ sections = <<>> /\ labels = <<>> /\ idx = 0 /\ drawn = 0
  /\ fence = NoFence /\ clicks = 0 /\ asked = 1
  /\ req = [n \in Request |-> IF n = 1 THEN [NoRequest EXCEPT !.at = "queued"] ELSE NoRequest]
  /\ server = "serving" /\ tmp = TRUE
  /\ provider \in BOOLEAN /\ block \in BOOLEAN

-----------------------------------------------------------------------------
(* Rendering *)

(* renderSection, for sections s of which i is selected.  Without columns  *)
(* it returns early, with a cleared canvas.                                *)
RenderSection(s, i) ==
  /\ overwritten' = FALSE
  /\ \/ s = <<>> /\ notice' = "nosections" /\ drawn' = 0
     \/ s # <<>> /\ ~s[i].columns /\ notice' = "nocolumns" /\ drawn' = 0
     \/ s # <<>> /\ s[i].columns /\ notice' = "none" /\ drawn' = i

(* renderMap, while tab t is shown: it says what the map lacks, or hides   *)
(* the notice, whosever it was.                                            *)
RenderMap(t) ==
  /\ notice' \in {"none", "other"} /\ overwritten' = (t # "map")
  /\ UNCHANGED drawn

(* What renderVolume and the answers to it do to the notice, likewise.     *)
RenderVolume(t) ==
  /\ notice' \in {"none", "other"} /\ overwritten' = (t # "volume")
  /\ UNCHANGED drawn

RenderTab(t, s, i) ==
  \/ t = "map" /\ RenderMap(t)
  \/ t = "volume" /\ RenderVolume(t)
  \/ t = "section" /\ RenderSection(s, i)

-----------------------------------------------------------------------------
(* The user *)

Click == page = "ready" /\ clicks < MaxClicks /\ clicks' = clicks + 1

(* fetch: a server that no longer listens refuses the connection.          *)
Fetch(what) ==
  /\ asked < MaxRequests /\ asked' = asked + 1
  /\ req' = [req EXCEPT ![asked + 1] =
       IF server \in {"serving", "interrupted"}
       THEN [for |-> what, at |-> "queued", how |-> "none"]
       ELSE [for |-> what, at |-> "answered", how |-> "error"]]

NoFetch == UNCHANGED <<asked, req>>

SelectTab(t) ==
  /\ Click
  /\ tab' = t
  /\ RenderTab(t, sections, idx)
  /\ late' = late \cup ({t} \cap {"volume"})
  /\ NoFetch
  /\ UNCHANGED <<page, sections, labels, idx, fence, serverSide>>

(* A wheel or drag on the map asks for a frame.                            *)
MapGesture ==
  /\ Click /\ tab = "map"
  /\ late' = late \cup {"map"}
  /\ NoFetch
  /\ UNCHANGED <<page, tab, notice, overwritten, sections, labels, idx, drawn, fence, serverSide>>

(* Wrong on purpose: the canvas waits for the next control.                *)
ChooseTraceWithoutRender(i) ==
  /\ Click /\ tab = "section"
  /\ idx' = i
  /\ NoFetch
  /\ UNCHANGED <<page, tab, noticeSide, sections, labels, drawn, fence, serverSide>>

(* The Trace row of the panel; i = idx is a toggle or slider of the tab.   *)
ChooseTrace(i) ==
  /\ Click /\ tab = "section"
  /\ idx' = i
  /\ RenderSection(sections, i)
  /\ NoFetch
  /\ UNCHANGED <<page, tab, late, sections, labels, fence, serverSide>>

(* sectionForWell, from a click on a marker outside of fence drawing.      *)
ClickWell(w) ==
  /\ Click /\ tab = "map" /\ ~fence.drawing
  /\ \/ \E i \in 1..Len(labels) :
          /\ labels[i] = <<w, 0>> /\ \A j \in 1..(i - 1) : labels[j] # <<w, 0>>
          /\ idx' = i /\ tab' = "section"
          /\ RenderSection(sections, i)
          /\ NoFetch
     \/ /\ \A i \in 1..Len(labels) : labels[i] # <<w, 0>>
        /\ Fetch(w)
        /\ UNCHANGED <<tab, idx, notice, overwritten, drawn>>
  /\ UNCHANGED <<page, late, sections, labels, fence, serverSide>>

(* finishFence *)
FinishFence(points) ==
  /\ fence' = NoFence
  /\ IF points < 2 THEN RenderMap(tab) /\ NoFetch
     ELSE Fetch(Fence) /\ UNCHANGED <<notice, overwritten, drawn>>

(* The "Draw fence line" button.                                           *)
FenceButton ==
  /\ Click /\ tab = "map"
  /\ IF fence.drawing THEN FinishFence(fence.points)
     ELSE /\ fence' = [drawing |-> TRUE, points |-> 0]
          /\ RenderMap(tab) /\ NoFetch
  /\ UNCHANGED <<page, tab, late, sections, labels, idx, serverSide>>

FencePoint ==
  /\ Click /\ tab = "map" /\ fence.drawing /\ fence.points < 2
  /\ fence' = [fence EXCEPT !.points = @ + 1]
  /\ RenderMap(tab) /\ NoFetch
  /\ UNCHANGED <<page, tab, late, sections, labels, idx, serverSide>>

(* A double click is two mousedowns, each of which adds a point, first.    *)
FenceDoubleClick ==
  /\ Click /\ tab = "map" /\ fence.drawing
  /\ FinishFence(2)
  /\ UNCHANGED <<page, tab, late, sections, labels, idx, serverSide>>

(* The browser's reload, which gives up what is in flight.                 *)
Reload ==
  /\ clicks < MaxClicks /\ clicks' = clicks + 1
  /\ asked < MaxRequests /\ asked' = asked + 1
  /\ server = "serving"
  /\ page' = "loading" /\ tab' = "map"
  /\ notice' = "none" /\ late' = {} /\ overwritten' = FALSE
  /\ sections' = <<>> /\ labels' = <<>> /\ idx' = 0 /\ drawn' = 0
  /\ fence' = NoFence
  /\ req' = [n \in Request |->
       IF n = asked + 1 THEN [for |-> Model, at |-> "queued", how |-> "none"]
       ELSE IF n <= asked THEN [req[n] EXCEPT !.at = "gone"] ELSE req[n]]
  /\ UNCHANGED serverSide

-----------------------------------------------------------------------------
(* The answers on the page *)

(* Wrong on purpose: no section is selected although there are some.       *)
BootSelectingNone ==
  /\ page' = "ready" /\ tab' = "map" /\ notice' = "none"
  /\ sections' = [i \in 1..Len(Precomputed) |->
                   [of |-> Precomputed[i], answers |-> 0, columns |-> TRUE]]
  /\ labels' = [i \in 1..Len(Precomputed) |-> <<Precomputed[i], 0>>]
  /\ idx' = 0
  /\ drawn' = 0 /\ fence' = NoFence
  /\ UNCHANGED <<late, overwritten>>

(* boot: the payload's sections and labels, on the map tab.                *)
Boot ==
  /\ page' = "ready" /\ tab' = "map" /\ notice' = "none"
  /\ sections' = [i \in 1..Len(Precomputed) |->
                   [of |-> Precomputed[i], answers |-> 0, columns |-> TRUE]]
  /\ labels' = [i \in 1..Len(Precomputed) |-> <<Precomputed[i], 0>>]
  /\ idx' = IF Precomputed = <<>> THEN 0 ELSE 1
  /\ drawn' = 0 /\ fence' = NoFence
  /\ UNCHANGED <<late, overwritten>>

(* Wrong on purpose: the label's number is taken from the requests made.   *)
AddSectionLabelledByRequest(n, r) ==
  /\ sections' = Append(sections, [of |-> r.for, answers |-> n, columns |-> r.how = "ok"])
  /\ labels' = Append(labels, <<r.for, Len(Precomputed) + n - 1>>)
  /\ idx' = Len(sections') /\ tab' = "section"
  /\ RenderSection(sections', idx')
  /\ UNCHANGED <<page, late, fence>>

(* Wrong on purpose: an answer replaces the section that is selected.      *)
AddSectionInPlace(n, r) ==
  /\ sections' = IF idx = 0 THEN <<[of |-> r.for, answers |-> n, columns |-> r.how = "ok"]>>
                 ELSE [sections EXCEPT ![idx] =
                        [of |-> r.for, answers |-> n, columns |-> r.how = "ok"]]
  /\ labels' = IF idx = 0 THEN <<<<r.for, 1>>>> ELSE [labels EXCEPT ![idx] = <<r.for, idx>>]
  /\ idx' = (IF idx = 0 THEN 1 ELSE idx) /\ tab' = "section"
  /\ RenderSection(sections', idx')
  /\ UNCHANGED <<page, late, fence>>

(* requestSection's answer: appended, labelled by its place, selected, and *)
(* the section tab brought to the front.                                   *)
AddSection(n, r) ==
  /\ sections' = Append(sections, [of |-> r.for, answers |-> n, columns |-> r.how = "ok"])
  /\ labels' = Append(labels, <<r.for, Len(sections')>>)
  /\ idx' = Len(sections') /\ tab' = "section"
  /\ RenderSection(sections', idx')
  /\ UNCHANGED <<page, late, fence>>

Answered(n) ==
  /\ req[n].at = "answered"
  /\ req' = [req EXCEPT ![n].at = "done"]
  /\ UNCHANGED <<asked, clicks, serverSide>>
  /\ \/ /\ req[n].for = Model /\ req[n].how = "ok"
        /\ Boot
     \/ /\ req[n].for = Model /\ req[n].how = "error"
        /\ page' = "banner"
        /\ UNCHANGED <<tab, noticeSide, sections, labels, idx, drawn, fence>>
     \/ /\ req[n].for # Model /\ req[n].how # "error"
        /\ AddSection(n, req[n])
     \/ /\ req[n].for # Model /\ req[n].how = "error"
        /\ notice' = "failed" /\ overwritten' = FALSE
        /\ UNCHANGED <<page, tab, late, sections, labels, idx, drawn, fence>>

-----------------------------------------------------------------------------
(* The other tabs, whichever tab is shown *)

(* The frame of scheduleRenderMap or of the settle timer.  It may have the *)
(* timer set again, which may ask for the next.                            *)
MapFrame ==
  /\ "map" \in late
  /\ late' \in {late, late \ {"map"}}
  /\ RenderMap(tab)
  /\ UNCHANGED <<page, tab, sections, labels, idx, fence, req, asked, clicks, serverSide>>

(* A decode is stored, fails or times out; a re-cut is adopted or fails.   *)
VolumeAnswer ==
  /\ "volume" \in late
  /\ late' \in {late, late \ {"volume"}}
  /\ RenderVolume(tab)
  /\ UNCHANGED <<page, tab, sections, labels, idx, fence, req, asked, clicks, serverSide>>

-----------------------------------------------------------------------------
(* The server *)

pageSide == <<page, tab, noticeSide, sections, labels, idx, drawn, fence, asked, clicks>>

Respond(n, how) == req' = [req EXCEPT ![n].at = "answered", ![n].how = how]

(* A thread is started for a request; _section replies 501 at once when    *)
(* there is no provider.                                                   *)
Accept(n) ==
  /\ server = "serving" /\ req[n].at = "queued"
  /\ IF req[n].for # Model /\ ~provider THEN Respond(n, "error")
     ELSE req' = [req EXCEPT ![n].at = "running"]
  /\ UNCHANGED <<pageSide, serverSide>>

(* The thread of request n answers: model.json if the file is there; what  *)
(* the provider returns, or 400 for what it raises.                        *)
Serve(n) ==
  /\ server # "exited" /\ req[n].at = "running"
  /\ IF req[n].for = Model THEN Respond(n, IF tmp THEN "ok" ELSE "error")
     ELSE \E how \in {"ok", "nocolumns", "error"} : Respond(n, how)
  /\ UNCHANGED <<pageSide, serverSide>>

(* Ctrl-C ends serve_forever: nothing more is accepted.                    *)
Interrupt ==
  /\ block /\ server = "serving" /\ server' = "interrupted"
  /\ UNCHANGED <<pageSide, req, tmp, provider, block>>

(* Connections of the requests at `places` are reset.                      *)
Reset(places) ==
  req' = [n \in Request |-> IF req[n].at \in places
                            THEN [for |-> req[n].for, at |-> "answered", how |-> "error"]
                            ELSE req[n]]

(* Wrong on purpose: the listening socket is left open.                    *)
CloseNothing ==
  /\ server = "interrupted" /\ server' = "closed"
  /\ UNCHANGED <<pageSide, req, tmp, provider, block>>

(* server_close: the listening socket goes, daemon threads are not joined. *)
Close ==
  /\ server = "interrupted" /\ server' = "closed"
  /\ Reset({"queued"})
  /\ UNCHANGED <<pageSide, tmp, provider, block>>

(* Wrong on purpose: the files go as soon as the caller may.               *)
CleanUpEarly ==
  /\ tmp /\ tmp' = FALSE
  /\ UNCHANGED <<pageSide, req, server, provider, block>>

(* rmtree, with handlers perhaps still running.                            *)
CleanUp ==
  /\ server = "closed" /\ tmp /\ tmp' = FALSE
  /\ UNCHANGED <<pageSide, req, server, provider, block>>

(* The Python process ends, with or without the directory removed.         *)
Exit ==
  /\ server # "exited" /\ server' = "exited"
  /\ Reset({"queued", "running"})
  /\ UNCHANGED <<pageSide, tmp, provider, block>>

-----------------------------------------------------------------------------
Next ==
  \/ \E t \in {"map", "section", "volume"} : SelectTab(t)
  \/ MapGesture \/ MapFrame \/ VolumeAnswer
  \/ \E i \in 1..Len(sections) : ChooseTrace(i)
  \/ \E w \in Wells : ClickWell(w)
  \/ FenceButton \/ FencePoint \/ FenceDoubleClick \/ Reload
  \/ \E n \in Request : Answered(n) \/ Accept(n) \/ Serve(n)
  \/ Interrupt \/ Close \/ CleanUp \/ Exit

(* The page's event loop runs, the server accepts, a provider returns or   *)
(* raises, and an interrupted server goes on to close.                     *)
Fairness == /\ \A n \in Request : /\ WF_vars(Answered(n))
                                  /\ WF_vars(Accept(n))
                                  /\ WF_vars(Serve(n))
            /\ WF_vars(Close)

Spec == Init /\ [][Next]_vars /\ Fairness

-----------------------------------------------------------------------------
(* SCHEMA.md, "one display label per sections entry": however answers      *)
(* interleave, each label names what its section is of, and no two of the  *)
(* sections added live share a label.                                      *)
LabelsMatchSections ==
  /\ Len(labels) = Len(sections)
  /\ \A i \in 1..Len(sections) :
       labels[i] = <<sections[i].of, IF sections[i].answers = 0 THEN 0 ELSE i>>

(* The answers delivered to this page and no others are its live sections, *)
(* each once, for what was asked.                                          *)
NoAnswerLost ==
  page = "ready" =>
    LET live == {i \in 1..Len(sections) : sections[i].answers # 0}
        got  == {n \in Request : req[n].at = "done" /\ req[n].for # Model /\ req[n].how # "error"}
    IN  /\ {sections[i].answers : i \in live} = got
        /\ \A i, j \in live : sections[i].answers = sections[j].answers => i = j
        /\ \A i \in live : sections[i].of = req[sections[i].answers].for

(* 30-section.js says why it draws nothing: the canvas of the section tab  *)
(* is the selected section's, whatever was answered since, and a blank one *)
(* is explained, as long as no other tab's code has written the shared     *)
(* notice since (20-map.js:323, 40-volume.js:375 and :485 do, unasked).    *)
ShownOrSaid ==
  page = "ready" /\ tab = "section" =>
    /\ drawn = IF sections # <<>> /\ sections[idx].columns THEN idx ELSE 0
    /\ ~overwritten => notice \in {"failed", IF sections = <<>> THEN "nosections"
                                             ELSE IF drawn = 0 THEN "nocolumns" ELSE "none"}

(* A page that finds the server serving starts: a load fails only once the *)
(* server was interrupted or has exited.                                   *)
LoadFailsOnlyAfterStop == page = "banner" => server # "serving"

(* Every request is answered: with a section, an error, or a reset.        *)
EveryRequestEnds ==
  \A n \in Request : req[n].at \in {"queued", "running"} ~> req[n].at \in {"done", "gone"}
=============================================================================
