------------------------- MODULE ViewerVolumeProofs -------------------------
(***************************************************************************)
(* What holds of ViewerVolume for every number of re-cuts and clicks,      *)
(* every set of colormaps and every choice of envelopes, strides and       *)
(* fates: its type, the no-hang and no-silent-blank invariants, whose      *)
(* colours the mesh wears, and the mesh a burst of re-cuts ends on.        *)
(***************************************************************************)
EXTENDS ViewerVolume, SequenceTheorems, TLAPS

(* What the proofs use of the constants, under one name.                   *)
ConstantsOK ==
  /\ MaxCuts \in Nat /\ MaxClicks \in Nat
  /\ InitialMap \in Colormaps
  /\ NoEnv \notin Env /\ Stride \in [Env -> Nat \ {0}]

LEMMA Constants == ConstantsOK
BY BoundsAssumption, ColormapsAssumption, EnvAssumption DEF ConstantsOK

(* The part of TypeOK that a rendering can change.                         *)
RenderedType ==
  /\ vol3 \in Shells
  /\ watchdog \in Env \cup {NoEnv}
  /\ overlay \in Overlays
  /\ banner \in Banners
  /\ drawn \in Drawings
  /\ toWorker \in Seq(WorkerMessage)
  /\ binFetch \in [Env \X Colormaps -> Nat]

(* The part that it cannot.                                                *)
OtherType ==
  /\ payload \in Env
  /\ colormap \in Colormaps
  /\ tab \in {"map", "volume"}
  /\ worker \in BOOLEAN
  /\ toPage \in Seq(PageMessage)
  /\ errors \in Nat
  /\ keep \in Env \cup {NoEnv}
  /\ cutFetch \subseteq 1..MaxCuts
  /\ asked \in 0..MaxCuts
  /\ clicks \in 0..MaxClicks
  /\ mapPending \in BOOLEAN
  /\ mapFrame \in BOOLEAN
  /\ fate \in [Env \ TooLarge -> Fates]
  /\ mapFate \in MapFates

LEMMA TypeSplit == TypeOK <=> RenderedType /\ OtherType
BY DEF TypeOK, RenderedType, OtherType

LEMMA NullMeshType == NullMesh \in Shells
BY Constants DEF ConstantsOK, NullMesh, Shells

LEMMA MessageTypes ==
  ASSUME NEW v \in Env, NEW c \in Colormaps
  PROVE  /\ Message("decode", v, c) \in WorkerMessage
         /\ Message("recolor", NoEnv, c) \in WorkerMessage
         /\ Message("decoded", v, c) \in PageMessage
         /\ Message("recolored", v, c) \in PageMessage
         /\ Message("decoded2d", NoEnv, NoMap) \in PageMessage
BY DEF Message, WorkerMessage, PageMessage

-----------------------------------------------------------------------------
(* Each way a decode ends, and a rendering, keep the type of what they set. *)

LEMMA ShowMeshType ==
  ASSUME NEW v \in Env, NEW src \in Env, NEW c \in Colormaps, colormap' \in Colormaps,
         ShowMesh(v, src, c)
  PROVE  /\ vol3' \in Shells /\ watchdog' \in Env \cup {NoEnv}
         /\ overlay' \in Overlays /\ banner' \in Banners /\ drawn' \in Drawings
BY Constants DEF ConstantsOK, ShowMesh, Decoded, Shells, Drawings, Overlays, Banners

LEMMA ShowEmptyMeshType ==
  ASSUME drawn \in Drawings, ShowEmptyMesh
  PROVE  /\ vol3' \in Shells /\ watchdog' \in Env \cup {NoEnv}
         /\ overlay' \in Overlays /\ banner' \in Banners /\ drawn' \in Drawings
BY NullMeshType DEF ShowEmptyMesh, Drawings, Overlays, Banners

LEMMA DecodeFailedType ==
  ASSUME drawn \in Drawings, NEW b \in Banners, DecodeFailed(b)
  PROVE  /\ vol3' \in Shells /\ watchdog' \in Env \cup {NoEnv}
         /\ overlay' \in Overlays /\ banner' \in Banners /\ drawn' \in Drawings
BY NullMeshType DEF DecodeFailed, Overlays

LEMMA DecodeSyncType ==
  ASSUME drawn \in Drawings, toWorker \in Seq(WorkerMessage), NEW v \in Env,
         NEW c \in Colormaps, colormap' \in Colormaps, DecodeSync(v, c)
  PROVE  /\ vol3' \in Shells /\ watchdog' \in Env \cup {NoEnv}
         /\ overlay' \in Overlays /\ banner' \in Banners /\ drawn' \in Drawings
         /\ toWorker' \in Seq(WorkerMessage)
<1>1. toWorker' \in Seq(WorkerMessage)
  BY DEF DecodeSync
<1>2. CASE ShowMesh(v, v, c)
  BY <1>1, <1>2, ShowMeshType
<1>3. CASE ShowEmptyMesh
  BY <1>1, <1>3, ShowEmptyMeshType
<1>4. CASE DecodeFailed("decode")
  BY <1>1, <1>4, DecodeFailedType DEF Banners
<1>5. QED
  BY <1>2, <1>3, <1>4 DEF DecodeSync

LEMMA RenderVolumeType ==
  ASSUME RenderedType, NEW v \in Env, NEW m \in Shells, colormap' \in Colormaps,
         RenderVolume(v, m)
  PROVE  RenderedType'
<1>1. CASE Redraw(v, m)
  <2>1. Message("recolor", NoEnv, colormap') \in WorkerMessage
    BY MessageTypes
  <2>2. vol3' \in Shells
    BY <1>1 DEF Redraw, Shells
  <2>3. drawn' \in Drawings
    BY <1>1 DEF Redraw, Shells, Drawings, RenderedType
  <2>4. toWorker' \in Seq(WorkerMessage)
    BY <1>1, <2>1 DEF Redraw, RenderedType
  <2>5. QED
    BY <1>1, <2>2, <2>3, <2>4 DEF Redraw, RenderedType, Overlays, Banners
<1>2. CASE AwaitDecode(v, m)
  BY <1>2 DEF AwaitDecode, RenderedType, Overlays
<1>3. CASE RefuseTooLarge(v, m)
  BY <1>3 DEF RefuseTooLarge, RenderedType, Overlays, Banners, Drawings
<1>4. CASE StartDecode(v, m)
  <2>1. CASE Decoding(v) /\ UNCHANGED toWorker
             /\ binFetch' = [binFetch EXCEPT ![<<v, colormap'>>] = @ + 1]
    <3>1. vol3' \in Shells
      BY <2>1, Constants DEF Decoding, Pending, NullMesh, Shells, ConstantsOK
    <3>2. binFetch' \in [Env \X Colormaps -> Nat]
      BY <2>1 DEF RenderedType
    <3>3. QED
      BY <2>1, <3>1, <3>2 DEF Decoding, RenderedType, Overlays, Banners
  <2>2. CASE Decoding(v) /\ UNCHANGED binFetch
             /\ toWorker' = Append(toWorker, Message("decode", v, colormap'))
    <3>1. vol3' \in Shells
      BY <2>2, Constants DEF Decoding, Pending, NullMesh, Shells, ConstantsOK
    <3>2. toWorker' \in Seq(WorkerMessage)
      BY <2>2, MessageTypes DEF RenderedType
    <3>3. QED
      BY <2>2, <3>1, <3>2 DEF Decoding, RenderedType, Overlays, Banners
  <2>3. CASE DecodeSync(v, colormap') /\ UNCHANGED binFetch
    BY <2>3, DecodeSyncType DEF RenderedType
  <2>4. QED
    BY <1>4, <2>1, <2>2, <2>3 DEF StartDecode
<1>5. QED
  BY <1>1, <1>2, <1>3, <1>4 DEF RenderVolume

LEMMA RenderActiveType ==
  ASSUME RenderedType, payload \in Env, colormap' \in Colormaps, RenderActive
  PROVE  RenderedType'
<1>1. CASE RenderMap
  BY <1>1 DEF RenderMap, RenderedType, Overlays
<1>2. CASE RenderVolume(payload, vol3)
  BY <1>2, RenderVolumeType DEF RenderedType
<1>3. QED
  BY <1>1, <1>2 DEF RenderActive

-----------------------------------------------------------------------------
LEMMA InitType == Init => TypeOK
<1> SUFFICES ASSUME Init PROVE TypeOK
  OBVIOUS
<1>1. RenderedType
  <2>1. Message("decode2d", NoEnv, NoMap) \in WorkerMessage
    BY DEF Message, WorkerMessage
  <2>2. toWorker \in Seq(WorkerMessage)
    BY <2>1 DEF Init
  <2>3. drawn \in Drawings
    BY DEF Init, Drawings
  <2>4. QED
    BY <2>2, <2>3, NullMeshType DEF Init, RenderedType, Overlays, Banners
<1>2. OtherType
  <2>1. worker \in BOOLEAN
    BY WorkerAssumption DEF Init
  <2>2. payload \in Env
    BY Constants DEF Init, Env, ConstantsOK
  <2>3. mapPending \in BOOLEAN /\ mapFrame \in BOOLEAN
    BY <2>1 DEF Init
  <2>4. QED
    BY <2>1, <2>2, <2>3, Constants DEF Init, OtherType, ConstantsOK
<1>3. QED
  BY <1>1, <1>2, TypeSplit

LEMMA UserType ==
  ASSUME TypeOK, User
  PROVE  TypeOK'
<1> USE Constants DEF ConstantsOK
<1>0. RenderedType /\ OtherType
  BY TypeSplit
<1>1. ASSUME NEW t \in {"map", "volume"}, SelectTab(t)
      PROVE  TypeOK'
  <2>1. OtherType'
    BY <1>0, <1>1 DEF SelectTab, Click, OtherType, workerSide
  <2>2. RenderedType'
    BY <1>0, <1>1, <2>1, RenderActiveType DEF SelectTab, OtherType
  <2>3. QED
    BY <2>1, <2>2 DEF TypeOK, RenderedType, OtherType
<1>2. ASSUME NEW c \in Colormaps, FlipColormap(c)
      PROVE  TypeOK'
  <2>1. OtherType'
    BY <1>0, <1>2 DEF FlipColormap, Click, OtherType, workerSide
  <2>2. RenderedType'
    BY <1>0, <1>2, <2>1, RenderActiveType DEF FlipColormap, OtherType
  <2>3. QED
    BY <2>1, <2>2 DEF TypeOK, RenderedType, OtherType
<1>3. CASE ToggleZone
  <2>1. OtherType'
    BY <1>0, <1>3 DEF ToggleZone, Click, OtherType, workerSide
  <2>2. drawn' \in Drawings
    BY <1>0, <1>3 DEF ToggleZone, RenderedType, Drawings, Shells
  <2>3. RenderedType'
    BY <1>0, <1>3, <2>2 DEF ToggleZone, RenderedType
  <2>4. QED
    BY <2>1, <2>3 DEF TypeOK, RenderedType, OtherType
<1>4. CASE AskRecut
  <2>1. OtherType'
    BY <1>0, <1>4 DEF AskRecut, OtherType, workerSide
  <2>2. RenderedType'
    BY <1>0, <1>4 DEF AskRecut, RenderedType, Overlays
  <2>3. QED
    BY <2>1, <2>2 DEF TypeOK, RenderedType, OtherType
<1>5. CASE GestureOnMap
  <2>1. OtherType'
    BY <1>0, <1>5 DEF GestureOnMap, Click, OtherType, workerSide
  <2>2. RenderedType'
    BY <1>0, <1>5 DEF GestureOnMap, RenderedType
  <2>3. QED
    BY <2>1, <2>2 DEF TypeOK, RenderedType, OtherType
<1>6. QED
  BY <1>1, <1>2, <1>3, <1>4, <1>5 DEF User

LEMMA ServerType ==
  ASSUME TypeOK, Server
  PROVE  TypeOK'
<1> USE Constants DEF ConstantsOK
<1>0. RenderedType /\ OtherType
  BY TypeSplit
<1>1. ASSUME NEW n \in 1..MaxCuts, RecutAnswered(n)
      PROVE  TypeOK'
  <2>1. n \in Env
    BY DEF Env
  <2>2. OtherType'
    BY <1>0, <1>1, <2>1 DEF RecutAnswered, OtherType, workerSide, userSide
  <2>3. RenderedType'
    BY <1>0, <1>1, <2>1, <2>2, RenderVolumeType, NullMeshType DEF RecutAnswered, OtherType
  <2>4. QED
    BY <2>2, <2>3 DEF TypeOK, RenderedType, OtherType
<1>2. ASSUME NEW n \in 1..MaxCuts, RecutFailed(n)
      PROVE  TypeOK'
  <2>1. OtherType'
    BY <1>0, <1>2 DEF RecutFailed, OtherType, workerSide, userSide
  <2>2. RenderedType'
    BY <1>0, <1>2 DEF RecutFailed, RenderedType, Overlays, Banners
  <2>3. QED
    BY <2>1, <2>2 DEF TypeOK, RenderedType, OtherType
<1>3. ASSUME NEW v \in Env, NEW c \in Colormaps, BinArrived(v, c)
      PROVE  TypeOK'
  <2>1. OtherType'
    BY <1>0, <1>3 DEF BinArrived, OtherType, workerSide, userSide
  <2>2. binFetch' \in [Env \X Colormaps -> Nat]
    BY <1>0, <1>3 DEF BinArrived, RenderedType
  <2>3. RenderedType'
    <3>1. CASE DecodeSync(v, c)
      BY <1>0, <1>3, <2>1, <2>2, <3>1, DecodeSyncType DEF RenderedType, OtherType
    <3>2. CASE /\ toWorker' = Append(toWorker, Message("decode", v, c))
               /\ UNCHANGED <<vol3, watchdog, overlay, banner, drawn>>
      BY <1>0, <2>2, <3>2, MessageTypes DEF RenderedType
    <3>3. QED
      BY <1>3, <3>1, <3>2 DEF BinArrived
  <2>4. QED
    BY <2>1, <2>3 DEF TypeOK, RenderedType, OtherType
<1>4. ASSUME NEW v \in Env, NEW c \in Colormaps, BinFailed(v, c)
      PROVE  TypeOK'
  <2>1. OtherType'
    BY <1>0, <1>4 DEF BinFailed, OtherType, workerSide, userSide
  <2>2. binFetch' \in [Env \X Colormaps -> Nat]
    BY <1>0, <1>4 DEF BinFailed, RenderedType
  <2>3. RenderedType'
    BY <1>0, <1>4, <2>2, DecodeFailedType DEF BinFailed, RenderedType, Banners
  <2>4. QED
    BY <2>1, <2>3 DEF TypeOK, RenderedType, OtherType
<1>5. QED
  BY <1>1, <1>2, <1>3, <1>4 DEF Server

LEMMA AnswerType ==
  ASSUME OtherType, NEW r \in PageMessage, Reply(r) \/ Throw
  PROVE  toPage' \in Seq(PageMessage) /\ errors' \in Nat
<1>1. toPage \in Seq(PageMessage) /\ errors \in Nat
  BY DEF OtherType
<1>2. CASE Reply(r)
  BY <1>1, <1>2 DEF Reply
<1>3. CASE Throw
  BY <1>1, <1>3 DEF Throw
<1>4. QED
  BY <1>2, <1>3

LEMMA WorkerStepType ==
  ASSUME TypeOK, WorkerStep
  PROVE  TypeOK'
<1> USE Constants DEF ConstantsOK
<1>0. RenderedType /\ OtherType
  BY TypeSplit
<1> DEFINE msg == Head(toWorker)
<1>1. msg \in WorkerMessage /\ toWorker' \in Seq(WorkerMessage)
  BY <1>0, HeadTailProperties DEF WorkerStep, RenderedType
<1>2. toPage' \in Seq(PageMessage) /\ errors' \in Nat /\ keep' \in Env \cup {NoEnv}
  <2>1. CASE WorkerDecodes(msg)
    <3>1. msg.env \in Env /\ msg.colours \in Colormaps
      BY <1>1, <2>1 DEF WorkerDecodes, WorkerMessage
    <3>2. Message("decoded", msg.env, msg.colours) \in PageMessage
      BY <3>1, MessageTypes
    <3>3. QED
      BY <1>0, <2>1, <3>1, <3>2, AnswerType DEF WorkerDecodes, OtherType
  <2>2. CASE WorkerRecolours(msg)
    <3>1. msg.colours \in Colormaps
      BY <1>1, <2>2 DEF WorkerRecolours, WorkerMessage
    <3>2. keep # NoEnv => Message("recolored", keep, msg.colours) \in PageMessage
      BY <1>0, <3>1, MessageTypes DEF OtherType
    <3>3. QED
      <4>1. CASE keep = NoEnv
        BY <1>0, <2>2, <4>1 DEF WorkerRecolours, Throw, OtherType
      <4>2. CASE keep # NoEnv
        BY <1>0, <2>2, <3>2, <4>2, AnswerType DEF WorkerRecolours, OtherType
      <4>3. QED
        BY <4>1, <4>2
  <2>3. CASE WorkerDecodesMap(msg)
    <3>1. Message("decoded2d", NoEnv, NoMap) \in PageMessage
      BY DEF Message, PageMessage
    <3>2. QED
      BY <1>0, <2>3, <3>1, AnswerType DEF WorkerDecodesMap, OtherType
  <2>4. QED
    BY <2>1, <2>2, <2>3 DEF WorkerStep
<1>3. UNCHANGED page
  BY DEF WorkerStep
<1>4. RenderedType'
  BY <1>0, <1>1, <1>3 DEF page, RenderedType
<1>5. OtherType'
  BY <1>0, <1>2, <1>3 DEF page, userSide, OtherType
<1>6. QED
  BY <1>4, <1>5 DEF TypeOK, RenderedType, OtherType

LEMMA OnMessageType ==
  ASSUME TypeOK, OnMessage
  PROVE  TypeOK'
<1> USE Constants DEF ConstantsOK
<1>0. RenderedType /\ OtherType
  BY TypeSplit
<1> DEFINE msg == Head(toPage)
<1>1. msg \in PageMessage /\ toPage' \in Seq(PageMessage)
  BY <1>0, HeadTailProperties DEF OnMessage, OtherType
<1>2. RenderedType' /\ mapPending' \in BOOLEAN
  <2>1. CASE OnDecoded(msg)
    <3>1. msg.env \in Env /\ msg.colours \in Colormaps /\ payload \in Env /\ colormap' \in Colormaps
      BY <1>0, <1>1, <2>1 DEF OnDecoded, PageMessage, OnMessage, OtherType
    <3>2. CASE ShowMesh(payload, msg.env, msg.colours)
      BY <1>0, <2>1, <3>1, <3>2, ShowMeshType DEF OnDecoded, RenderedType, OtherType
    <3>3. CASE ShowEmptyMesh
      BY <1>0, <2>1, <3>3, ShowEmptyMeshType DEF OnDecoded, RenderedType, OtherType
    <3>4. QED
      BY <2>1, <3>2, <3>3 DEF OnDecoded
  <2>2. CASE OnRecolored(msg)
    <3>1. msg.env \in Env /\ msg.colours \in Colormaps
      BY <1>1, <2>2 DEF OnRecolored, PageMessage
    <3>2. drawn' \in Drawings
      BY <1>0, <2>2, <3>1 DEF OnRecolored, RenderedType, Drawings
    <3>3. QED
      BY <1>0, <2>2, <3>2 DEF OnRecolored, RenderedType, OtherType
  <2>3. CASE OnMap2dDecoded(msg)
    BY <1>0, <2>3 DEF OnMap2dDecoded, RenderMap, RenderedType, OtherType, Overlays
  <2>4. QED
    BY <2>1, <2>2, <2>3 DEF OnMessage
<1>3. OtherType'
  BY <1>0, <1>1, <1>2 DEF OnMessage, OtherType, workerSide, userSide
<1>4. QED
  BY <1>2, <1>3 DEF TypeOK, RenderedType, OtherType

LEMMA OnErrorType ==
  ASSUME TypeOK, OnError
  PROVE  TypeOK'
<1>0. RenderedType /\ OtherType
  BY TypeSplit
<1>1. OtherType'
  <2>1. errors' \in Nat
    <3>1. errors \in Nat
      BY <1>0 DEF OtherType
    <3>2. QED
      BY <3>1 DEF OnError
  <2>2. QED
    BY <1>0, <2>1 DEF OnError, OtherType, userSide
<1>2. RenderedType'
  BY <1>0, DecodeFailedType DEF OnError, RenderedType, Banners
<1>3. QED
  BY <1>1, <1>2 DEF TypeOK, RenderedType, OtherType

LEMMA WatchdogFiresType ==
  ASSUME TypeOK, WatchdogFires
  PROVE  TypeOK'
<1>0. RenderedType /\ OtherType
  BY TypeSplit
<1>1. OtherType'
  BY <1>0 DEF WatchdogFires, OtherType, workerSide, userSide
<1>2. vol3' \in Shells /\ drawn' \in Drawings
  BY <1>0, NullMeshType DEF WatchdogFires, RenderedType, Drawings
<1>3. RenderedType'
  BY <1>0, <1>2 DEF WatchdogFires, RenderedType, Overlays, Banners
<1>4. QED
  BY <1>1, <1>3 DEF TypeOK, RenderedType, OtherType

LEMMA MapFrameType ==
  ASSUME TypeOK, MapFrame
  PROVE  TypeOK'
<1>0. RenderedType /\ OtherType
  BY TypeSplit
<1>1. OtherType'
  BY <1>0 DEF MapFrame, OtherType, workerSide
<1>2. RenderedType'
  BY <1>0 DEF MapFrame, RenderMap, RenderedType, Overlays
<1>3. QED
  BY <1>1, <1>2 DEF TypeOK, RenderedType, OtherType

(* Every reachable state is a state of the right shape: in particular a    *)
(* `decode` or `decoded` message always carries an envelope, and the shell *)
(* always a positive stride.                                               *)
THEOREM TypeCorrect == Spec => []TypeOK
<1>1. TypeOK /\ [Next]_vars => TypeOK'
  <2> SUFFICES ASSUME TypeOK, [Next]_vars PROVE TypeOK'
    OBVIOUS
  <2>1. CASE UNCHANGED vars
    BY <2>1 DEF vars, TypeOK
  <2>2. CASE Next
    BY <2>2, UserType, ServerType, WorkerStepType, OnMessageType, OnErrorType,
       WatchdogFiresType, MapFrameType DEF Next
  <2>3. QED
    BY <2>1, <2>2
<1>2. QED
  BY InitType, <1>1, PTL DEF Spec

-----------------------------------------------------------------------------
(* The shell that the page holds is watched, spun for and never silently   *)
(* blank.  The last conjunct strengthens the third: a shell that would be  *)
(* redrawn for the payload is on screen, so that re-entering the tab shows *)
(* it.                                                                     *)
ShellInv ==
  /\ DecodeIsWatched
  /\ SpinnerMeansDecoding
  /\ BlankOnlyWhileDecoding
  /\ vol3.for = payload /\ ~vol3.decoding /\ vol3.stride >= Stride[payload] => drawn.shown

LEMMA InitShell == Init => ShellInv
BY Constants DEF Init, ShellInv, DecodeIsWatched, SpinnerMeansDecoding,
   BlankOnlyWhileDecoding, NullMesh, Env, ConstantsOK

(* ShellInv holds after a decode ended, whichever way it ended.            *)
LEMMA DecodeEndShell ==
  ASSUME NEW v, NEW src, NEW c, NEW b \in Banners \ {"none"}, drawn \in Drawings,
         payload' \in Env,
         ShowMesh(v, src, c) \/ ShowEmptyMesh \/ DecodeFailed(b)
  PROVE  ShellInv'
BY Constants DEF ConstantsOK, ShowMesh, ShowEmptyMesh, DecodeFailed, Decoded, NullMesh,
   ShellInv, DecodeIsWatched, SpinnerMeansDecoding, BlankOnlyWhileDecoding, Drawings

LEMMA DecodeSyncShell ==
  ASSUME NEW v, NEW c, drawn \in Drawings, payload' \in Env, DecodeSync(v, c)
  PROVE  ShellInv'
<1>1. "decode" \in Banners \ {"none"}
  BY DEF Banners
<1>2. QED
  BY <1>1, DecodeEndShell DEF DecodeSync

(* A rendering of the payload, of the shell the page holds or of none.     *)
LEMMA RenderVolumeShell ==
  ASSUME TypeOK, ShellInv, payload' \in Env, NEW m \in Shells,
         m = NullMesh \/ (m = vol3 /\ payload' = payload), RenderVolume(payload', m)
  PROVE  ShellInv'
<1> DEFINE v == payload'
<1>0. drawn \in Drawings /\ NoEnv \notin Env /\ v \in Env /\ Stride[v] \in Nat
  BY Constants DEF TypeOK, ConstantsOK
<1>1. CASE Redraw(v, m)
  <2>1. m = vol3 /\ drawn.shown
    BY <1>0, <1>1 DEF Redraw, NullMesh, ShellInv
  <2>2. drawn'.shown
    BY <1>0, <1>1, <2>1 DEF Redraw, Drawings
  <2>3. ~vol3'.decoding
    BY <1>1 DEF Redraw, Shells
  <2>4. QED
    BY <1>1, <2>2, <2>3 DEF Redraw, ShellInv, DecodeIsWatched, SpinnerMeansDecoding,
       BlankOnlyWhileDecoding
<1>2. CASE AwaitDecode(v, m)
  <2>1. m = vol3
    BY <1>0, <1>2 DEF AwaitDecode, NullMesh
  <2>2. QED
    BY <1>2, <2>1 DEF AwaitDecode, ShellInv, DecodeIsWatched, SpinnerMeansDecoding,
       BlankOnlyWhileDecoding
<1>3. CASE RefuseTooLarge(v, m)
  BY <1>0, <1>3 DEF RefuseTooLarge, NeedsDecode, NullMesh, ShellInv, DecodeIsWatched,
     SpinnerMeansDecoding, BlankOnlyWhileDecoding, Drawings, Shells
<1>4. CASE StartDecode(v, m)
  <2>1. CASE Decoding(v)
    BY <1>0, <2>1 DEF Decoding, Pending, NullMesh, ShellInv, DecodeIsWatched,
       SpinnerMeansDecoding, BlankOnlyWhileDecoding
  <2>2. CASE DecodeSync(v, colormap')
    BY <1>0, <2>2, DecodeSyncShell
  <2>3. QED
    BY <1>4, <2>1, <2>2 DEF StartDecode
<1>5. QED
  BY <1>1, <1>2, <1>3, <1>4 DEF RenderVolume

LEMMA RenderActiveShell ==
  ASSUME TypeOK, ShellInv, payload' = payload, tab' \in {"map", "volume"}, RenderActive
  PROVE  ShellInv'
<1>1. CASE tab' = "map"
  BY <1>1 DEF RenderActive, RenderMap, ShellInv, DecodeIsWatched, SpinnerMeansDecoding,
     BlankOnlyWhileDecoding
<1>2. CASE tab' # "map"
  BY <1>2, RenderVolumeShell DEF RenderActive, TypeOK
<1>3. QED
  BY <1>1, <1>2

(* Steps that leave the shell, its timer, the payload and the tab alone,   *)
(* and keep what is on screen on screen.                                   *)
LEMMA UndisturbedShell ==
  ASSUME ShellInv, UNCHANGED <<payload, vol3, watchdog, tab>>,
         overlay' \in {overlay, "none", "recut", "mapdecoding"},
         banner' = banner \/ banner' # "none",
         drawn.shown => drawn'.shown \/ vol3.decoding
  PROVE  ShellInv'
BY DEF ShellInv, DecodeIsWatched, SpinnerMeansDecoding, BlankOnlyWhileDecoding

THEOREM ShellSafe == Spec => []ShellInv
<1>1. TypeOK /\ TypeOK' /\ ShellInv /\ [Next]_vars => ShellInv'
  <2> SUFFICES ASSUME TypeOK, TypeOK', ShellInv, [Next]_vars PROVE ShellInv'
    OBVIOUS
  <2>0. /\ drawn \in Drawings /\ payload \in Env /\ payload' \in Env
        /\ tab' \in {"map", "volume"} /\ vol3 \in Shells
    BY DEF TypeOK
  <2> USE DEF Banners
  <2>1. ASSUME NEW t \in {"map", "volume"}, SelectTab(t)
        PROVE  ShellInv'
    BY <2>0, <2>1, RenderActiveShell DEF SelectTab
  <2>2. ASSUME NEW c \in Colormaps, FlipColormap(c)
        PROVE  ShellInv'
    BY <2>0, <2>2, RenderActiveShell DEF FlipColormap
  <2>3. CASE ToggleZone
    <3>1. drawn'.shown = ~vol3.decoding
      BY <2>0, <2>3 DEF ToggleZone, Drawings
    <3>2. QED
      BY <2>3, <3>1, UndisturbedShell DEF ToggleZone
  <2>4. CASE AskRecut
    BY <2>4, UndisturbedShell DEF AskRecut
  <2>5. ASSUME NEW n \in 1..MaxCuts, RecutAnswered(n)
        PROVE  ShellInv'
    BY <2>0, <2>5, NullMeshType, RenderVolumeShell DEF RecutAnswered
  <2>6. ASSUME NEW n \in 1..MaxCuts, RecutFailed(n)
        PROVE  ShellInv'
    BY <2>6, UndisturbedShell DEF RecutFailed
  <2>7. ASSUME NEW v \in Env, NEW c \in Colormaps, BinArrived(v, c)
        PROVE  ShellInv'
    <3>1. CASE DecodeSync(v, c)
      BY <2>0, <3>1, DecodeSyncShell
    <3>2. CASE UNCHANGED <<vol3, watchdog, overlay, banner, drawn>>
      BY <2>7, <3>2, UndisturbedShell DEF BinArrived
    <3>3. QED
      BY <2>7, <3>1, <3>2 DEF BinArrived
  <2>8. ASSUME NEW v \in Env, NEW c \in Colormaps, BinFailed(v, c)
        PROVE  ShellInv'
    BY <2>0, <2>8, DecodeEndShell DEF BinFailed
  <2>9. CASE WorkerStep
    BY <2>9, UndisturbedShell DEF WorkerStep, page
  <2>10. CASE OnMessage
    <3> DEFINE msg == Head(toPage)
    <3>0. UNCHANGED <<payload, tab>>
      BY <2>10 DEF OnMessage
    <3>1. CASE OnDecoded(msg)
      BY <2>0, <3>1, DecodeEndShell DEF OnDecoded
    <3>2. CASE OnRecolored(msg)
      <4>1. drawn'.shown = drawn.shown
        BY <2>0, <3>2 DEF OnRecolored, Drawings
      <4>2. QED
        BY <3>0, <3>2, <4>1, UndisturbedShell DEF OnRecolored
    <3>3. CASE OnMap2dDecoded(msg)
      BY <3>0, <3>3 DEF OnMap2dDecoded, RenderMap, ShellInv, DecodeIsWatched,
         SpinnerMeansDecoding, BlankOnlyWhileDecoding
    <3>4. QED
      BY <2>10, <3>1, <3>2, <3>3 DEF OnMessage
  <2>11. CASE OnError
    <3>1. CASE DecodeFailed("worker")
      BY <2>0, <3>1, DecodeEndShell
    <3>2. CASE UNCHANGED <<vol3, watchdog, overlay, banner, drawn>>
      BY <2>11, <3>2, UndisturbedShell DEF OnError
    <3>3. QED
      BY <2>11, <3>1, <3>2 DEF OnError
  <2>12. CASE WatchdogFires
    BY <2>0, <2>12, Constants DEF WatchdogFires, NullMesh, ShellInv, DecodeIsWatched,
       SpinnerMeansDecoding, BlankOnlyWhileDecoding, Drawings, ConstantsOK
  <2>13. CASE GestureOnMap
    BY <2>13, UndisturbedShell DEF GestureOnMap
  <2>14. CASE MapFrame
    BY <2>14, UndisturbedShell DEF MapFrame, RenderMap
  <2>15. CASE UNCHANGED vars
    BY <2>15 DEF vars, ShellInv, DecodeIsWatched, SpinnerMeansDecoding, BlankOnlyWhileDecoding
  <2>16. QED
    BY <2>1, <2>2, <2>3, <2>4, <2>5, <2>6, <2>7, <2>8, <2>9, <2>10, <2>11, <2>12, <2>13,
       <2>14, <2>15
    DEF Next, User, Server
<1>2. QED
  BY InitShell, TypeCorrect, <1>1, PTL DEF Spec

(* No decode is ever left without a timer armed for it, whatever overtakes *)
(* what.                                                                   *)
THEOREM NoHang == Spec => []DecodeIsWatched
<1>1. ShellInv => DecodeIsWatched
  BY DEF ShellInv
<1>2. QED
  BY ShellSafe, <1>1, PTL

(* The spinner is never left over a decode that has ended.                 *)
THEOREM NoStraySpinner == Spec => []SpinnerMeansDecoding
<1>1. ShellInv => SpinnerMeansDecoding
  BY DEF ShellInv
<1>2. QED
  BY ShellSafe, <1>1, PTL

(* Once no decode is in flight the volume tab shows a mesh or says why not. *)
THEOREM NoLastingBlank == Spec => []BlankOnlyWhileDecoding
<1>1. ShellInv => BlankOnlyWhileDecoding
  BY DEF ShellInv
<1>2. QED
  BY ShellSafe, <1>1, PTL

-----------------------------------------------------------------------------
(* Replies that follow one another: what a queue says of the last `cmd`    *)
(* before a place in it.                                                   *)

(* No message between places j and i of the queue is a cmd.                *)
NoneIn(q, cmd, j, i) == \A k \in 1..Len(q) : j < k /\ k < i => q[k].cmd # cmd

(* The last cmd in the queue, if there is one, is of envelope e.           *)
LastIs(q, cmd, e) ==
  \A j \in 1..Len(q) : q[j].cmd = cmd /\ NoneIn(q, cmd, j, Len(q) + 1) => q[j].env = e

(* Every recolouring in the queue is of the mesh decoded last before it,   *)
(* one of B if that was before the queue; the worker ends with mesh e.     *)
Recolours(q, B) ==
  \A i \in 1..Len(q) : q[i].cmd = "recolored" =>
    /\ NoneIn(q, "decoded", 0, i) => q[i].env \in B
    /\ \A j \in 1..(i - 1) :
         q[j].cmd = "decoded" /\ NoneIn(q, "decoded", j, i) => q[i].env = q[j].env

InStep(q, B, e) ==
  /\ Recolours(q, B)
  /\ LastIs(q, "decoded", e)
  /\ NoneIn(q, "decoded", 0, Len(q) + 1) => e \in B

LEMMA Appended ==
  ASSUME NEW S, NEW q \in Seq(S), NEW m \in S
  PROVE  /\ Append(q, m) \in Seq(S) /\ Len(Append(q, m)) = Len(q) + 1 /\ Len(q) \in Nat
         /\ Append(q, m)[Len(q) + 1] = m
         /\ \A i \in 1..Len(q) : Append(q, m)[i] = q[i]
OBVIOUS

LEMMA TailOf ==
  ASSUME NEW S, NEW q \in Seq(S), q # <<>>
  PROVE  /\ Head(q) = q[1] /\ Head(q) \in S /\ Tail(q) \in Seq(S)
         /\ Len(q) \in Nat /\ Len(q) >= 1 /\ Len(Tail(q)) = Len(q) - 1
         /\ \A i \in 1..(Len(q) - 1) : Tail(q)[i] = q[i + 1]
BY HeadTailProperties

LEMMA NoneInAppend ==
  ASSUME NEW S, NEW q \in Seq(S), NEW m \in S, NEW cmd, NEW j \in Nat, NEW i \in Nat
  PROVE  /\ i <= Len(q) + 1 => (NoneIn(Append(q, m), cmd, j, i) <=> NoneIn(q, cmd, j, i))
         /\ j <= Len(q) => (NoneIn(Append(q, m), cmd, j, Len(q) + 2)
                              <=> NoneIn(q, cmd, j, Len(q) + 1) /\ m.cmd # cmd)
<1> DEFINE n == Len(q)
           a == Append(q, m)
<1>1. Len(a) = n + 1 /\ n \in Nat /\ a[n + 1] = m /\ \A k \in 1..n : a[k] = q[k]
  BY Appended
<1> HIDE DEF a
<1>2. ASSUME i <= n + 1 PROVE NoneIn(a, cmd, j, i) <=> NoneIn(q, cmd, j, i)
  BY <1>1, <1>2 DEF NoneIn
<1>3. ASSUME j <= n PROVE NoneIn(a, cmd, j, n + 2) <=> NoneIn(q, cmd, j, n + 1) /\ m.cmd # cmd
  <2>1. ASSUME NoneIn(a, cmd, j, n + 2) PROVE NoneIn(q, cmd, j, n + 1) /\ m.cmd # cmd
    BY <1>1, <1>3, <2>1 DEF NoneIn
  <2>2. ASSUME NoneIn(q, cmd, j, n + 1), m.cmd # cmd PROVE NoneIn(a, cmd, j, n + 2)
    <3>1. ASSUME NEW k \in 1..Len(a), j < k, k < n + 2 PROVE a[k].cmd # cmd
      <4>1. CASE k = n + 1
        BY <1>1, <2>2, <4>1
      <4>2. CASE k \in 1..n
        BY <1>1, <2>2, <3>1, <4>2 DEF NoneIn
      <4>3. QED
        BY <1>1, <4>1, <4>2
    <3>2. QED
      BY <3>1 DEF NoneIn
  <2>3. QED
    BY <2>1, <2>2
<1>4. QED
  BY <1>2, <1>3 DEF a

LEMMA NoneInTail ==
  ASSUME NEW S, NEW q \in Seq(S), q # <<>>, NEW cmd, NEW j \in Nat, NEW i \in Nat
  PROVE  NoneIn(Tail(q), cmd, j, i) <=> NoneIn(q, cmd, j + 1, i + 1)
<1> DEFINE t == Tail(q)
           n == Len(q)
<1>1. n \in Nat /\ n >= 1 /\ Len(t) = n - 1 /\ \A k \in 1..(n - 1) : t[k] = q[k + 1]
  BY TailOf
<1> HIDE DEF t, n
<1>2. ASSUME NoneIn(t, cmd, j, i), NEW k \in 1..n, j + 1 < k, k < i + 1 PROVE q[k].cmd # cmd
  <2>1. k - 1 \in 1..(n - 1) /\ j < k - 1 /\ k - 1 < i
    BY <1>1, <1>2
  <2>2. t[k - 1].cmd # cmd
    BY <1>1, <1>2, <2>1 DEF NoneIn
  <2>3. t[k - 1] = q[(k - 1) + 1] /\ (k - 1) + 1 = k
    BY <1>1, <2>1
  <2>4. QED
    BY <2>2, <2>3
<1>3. ASSUME NoneIn(q, cmd, j + 1, i + 1), NEW k \in 1..Len(t), j < k, k < i PROVE t[k].cmd # cmd
  <2>1. k + 1 \in 1..n /\ j + 1 < k + 1 /\ k + 1 < i + 1 /\ k \in 1..(n - 1)
    BY <1>1, <1>3
  <2>2. q[k + 1].cmd # cmd
    BY <1>3, <2>1 DEF NoneIn, n
  <2>3. QED
    BY <1>1, <2>1, <2>2
<1>4. QED
  BY <1>2, <1>3 DEF NoneIn, t, n

(* The last cmd of a queue that grows and shrinks.                         *)
LEMMA LastAppend ==
  ASSUME NEW S, NEW q \in Seq(S), NEW m \in S, NEW cmd, NEW e
  PROVE  /\ m.cmd = cmd /\ m.env = e => LastIs(Append(q, m), cmd, e)
         /\ m.cmd # cmd /\ LastIs(q, cmd, e) => LastIs(Append(q, m), cmd, e)
<1> DEFINE n == Len(q)
           a == Append(q, m)
<1>1. Len(a) = n + 1 /\ n \in Nat /\ a[n + 1] = m /\ \A k \in 1..n : a[k] = q[k]
  BY Appended
<1>2. \A j \in 1..n : NoneIn(a, cmd, j, n + 2) <=> NoneIn(q, cmd, j, n + 1) /\ m.cmd # cmd
  BY <1>1, NoneInAppend
<1> HIDE DEF a
<1>3. ASSUME m.cmd = cmd, m.env = e, NEW j \in 1..Len(a), NoneIn(a, cmd, j, Len(a) + 1)
      PROVE  a[j].env = e
  <2>1. Len(a) + 1 = n + 2
    BY <1>1
  <2>2. j \notin 1..n
    BY <1>2, <1>3, <2>1
  <2>3. j = n + 1
    BY <1>1, <2>2
  <2>4. QED
    BY <1>1, <1>3, <2>3
<1>4. ASSUME m.cmd # cmd, LastIs(q, cmd, e), NEW j \in 1..Len(a), a[j].cmd = cmd,
             NoneIn(a, cmd, j, Len(a) + 1)
      PROVE  a[j].env = e
  <2>1. Len(a) + 1 = n + 2
    BY <1>1
  <2>2. j # n + 1
    BY <1>1, <1>4
  <2>3. j \in 1..n /\ a[j] = q[j]
    BY <1>1, <2>2
  <2>4. NoneIn(q, cmd, j, n + 1)
    BY <1>2, <1>4, <2>1, <2>3
  <2>5. QED
    BY <1>4, <2>3, <2>4 DEF LastIs
<1>5. QED
  BY <1>3, <1>4 DEF LastIs, a

LEMMA LastTail ==
  ASSUME NEW S, NEW q \in Seq(S), q # <<>>, NEW cmd, NEW e, LastIs(q, cmd, e)
  PROVE  /\ LastIs(Tail(q), cmd, e)
         /\ NoneIn(Tail(q), cmd, 0, Len(Tail(q)) + 1) /\ Head(q).cmd = cmd => Head(q).env = e
         /\ NoneIn(Tail(q), cmd, 0, Len(Tail(q)) + 1) /\ Head(q).cmd # cmd
              => NoneIn(q, cmd, 0, Len(q) + 1)
<1> DEFINE t == Tail(q)
           n == Len(q)
<1>1. n \in Nat /\ n >= 1 /\ Len(t) = n - 1 /\ \A k \in 1..(n - 1) : t[k] = q[k + 1]
  BY TailOf
<1>2. Head(q) = q[1] /\ Len(t) + 1 = n /\ n + 1 \in Nat
  BY <1>1, TailOf
<1>3. \A j \in Nat : NoneIn(t, cmd, j, n) <=> NoneIn(q, cmd, j + 1, n + 1)
  BY <1>1, NoneInTail
<1> HIDE DEF t
<1>4. ASSUME NEW j \in 1..Len(t), t[j].cmd = cmd, NoneIn(t, cmd, j, n) PROVE t[j].env = e
  <2>1. j + 1 \in 1..n /\ t[j] = q[j + 1] /\ j \in Nat
    BY <1>1
  <2>2. NoneIn(q, cmd, j + 1, n + 1)
    BY <1>3, <1>4, <2>1
  <2>3. QED
    BY <1>4, <2>1, <2>2 DEF LastIs
<1>5. ASSUME NoneIn(t, cmd, 0, n)
      PROVE  /\ q[1].cmd = cmd => q[1].env = e
             /\ q[1].cmd # cmd => NoneIn(q, cmd, 0, n + 1)
  <2>1. NoneIn(q, cmd, 1, n + 1)
    <3>1. NoneIn(q, cmd, 0 + 1, n + 1)
      BY <1>3, <1>5
    <3>2. QED
      BY <3>1
  <2>2. q[1].cmd = cmd => q[1].env = e
    BY <1>1, <2>1 DEF LastIs
  <2>3. ASSUME q[1].cmd # cmd, NEW k \in 1..n, 0 < k, k < n + 1 PROVE q[k].cmd # cmd
    <3>1. CASE k = 1
      BY <2>3, <3>1
    <3>2. CASE 1 < k
      BY <2>1, <2>3, <3>2 DEF NoneIn
    <3>3. QED
      BY <3>1, <3>2
  <2>4. QED
    BY <2>2, <2>3 DEF NoneIn
<1>6. QED
  BY <1>2, <1>4, <1>5 DEF LastIs, t

(* The worker posts a reply: in step with the mesh it holds then.          *)
LEMMA InStepAppend ==
  ASSUME NEW q \in Seq(PageMessage), NEW m \in PageMessage, NEW B, NEW e, InStep(q, B, e)
  PROVE  /\ m.cmd = "decoded" => InStep(Append(q, m), B, m.env)
         /\ m.cmd = "recolored" /\ m.env = e => InStep(Append(q, m), B, e)
         /\ m.cmd = "decoded2d" => InStep(Append(q, m), B, e)
<1> DEFINE n == Len(q)
           a == Append(q, m)
<1>1. Len(a) = n + 1 /\ n \in Nat /\ a[n + 1] = m /\ \A k \in 1..n : a[k] = q[k]
  BY Appended
<1>2. \A j, i \in Nat : i <= n + 1 => (NoneIn(a, "decoded", j, i) <=> NoneIn(q, "decoded", j, i))
  BY NoneInAppend
<1>3. NoneIn(a, "decoded", 0, n + 2) <=> NoneIn(q, "decoded", 0, n + 1) /\ m.cmd # "decoded"
  BY <1>1, NoneInAppend
<1>4. /\ m.cmd = "decoded" => LastIs(a, "decoded", m.env)
      /\ m.cmd # "decoded" => LastIs(a, "decoded", e)
  BY LastAppend DEF InStep
<1>5. Len(a) + 1 = n + 2
  BY <1>1
<1> HIDE DEF a
<1>6. ASSUME m.cmd = "recolored" => m.env = e PROVE Recolours(a, B)
  <2> SUFFICES ASSUME NEW i \in 1..Len(a), a[i].cmd = "recolored"
               PROVE  /\ NoneIn(a, "decoded", 0, i) => a[i].env \in B
                      /\ \A j \in 1..(i - 1) :
                           a[j].cmd = "decoded" /\ NoneIn(a, "decoded", j, i) => a[i].env = a[j].env
    BY DEF Recolours
  <2>1. CASE i \in 1..n
    <3>1. a[i] = q[i] /\ \A j \in 1..(i - 1) : a[j] = q[j] /\ j \in Nat
      BY <1>1, <2>1
    <3>2. i \in Nat /\ i <= n + 1 /\ 0 \in Nat
      BY <1>1, <2>1
    <3>3. \A j \in Nat : NoneIn(a, "decoded", j, i) <=> NoneIn(q, "decoded", j, i)
      BY <1>2, <3>2
    <3>4. /\ NoneIn(q, "decoded", 0, i) => q[i].env \in B
          /\ \A j \in 1..(i - 1) :
               q[j].cmd = "decoded" /\ NoneIn(q, "decoded", j, i) => q[i].env = q[j].env
      BY <2>1, <3>1 DEF InStep, Recolours
    <3>5. QED
      BY <3>1, <3>2, <3>3, <3>4
  <2>2. CASE i = n + 1
    <3>1. a[i].env = e
      BY <1>1, <1>6, <2>2
    <3>2. ASSUME NoneIn(a, "decoded", 0, i) PROVE e \in B
      <4>1. NoneIn(q, "decoded", 0, n + 1)
        BY <1>1, <1>2, <2>2, <3>2
      <4>2. QED
        BY <4>1 DEF InStep
    <3>3. ASSUME NEW j \in 1..(i - 1), a[j].cmd = "decoded", NoneIn(a, "decoded", j, i)
          PROVE  a[j].env = e
      <4>1. j \in 1..n /\ j \in Nat /\ n + 1 \in Nat /\ n + 1 <= n + 1 /\ a[j] = q[j]
        BY <1>1, <2>2
      <4>2. NoneIn(q, "decoded", j, n + 1)
        BY <1>2, <2>2, <3>3, <4>1
      <4>3. QED
        BY <3>3, <4>1, <4>2 DEF InStep, LastIs
    <3>4. QED
      BY <3>1, <3>2, <3>3
  <2>3. QED
    BY <1>1, <2>1, <2>2
<1>7. CASE m.cmd = "decoded"
  BY <1>3, <1>4, <1>5, <1>6, <1>7 DEF InStep, a
<1>8. CASE m.cmd # "decoded"
  BY <1>3, <1>4, <1>5, <1>6, <1>8 DEF InStep, a
<1>9. QED
  BY <1>7, <1>8

(* The page takes a reply: what is left is in step with its mesh, if it    *)
(* brought one.                                                            *)
LEMMA InStepTail ==
  ASSUME NEW q \in Seq(PageMessage), q # <<>>, NEW B, NEW e, InStep(q, B, e)
  PROVE  /\ Head(q).cmd = "decoded" => InStep(Tail(q), {Head(q).env}, e)
         /\ Head(q).cmd # "decoded" => InStep(Tail(q), B, e)
         /\ Head(q).cmd = "recolored" => Head(q).env \in B
<1> DEFINE t == Tail(q)
           n == Len(q)
           C == IF q[1].cmd = "decoded" THEN {q[1].env} ELSE B
<1>1. n \in Nat /\ n >= 1 /\ Len(t) = n - 1 /\ \A k \in 1..(n - 1) : t[k] = q[k + 1]
  BY TailOf
<1>2. Head(q) = q[1] /\ Len(t) + 1 = n /\ n + 1 \in Nat
  BY <1>1, TailOf
<1>3. \A j, i \in Nat : NoneIn(t, "decoded", j, i) <=> NoneIn(q, "decoded", j + 1, i + 1)
  BY NoneInTail
<1>4. /\ LastIs(t, "decoded", e)
      /\ NoneIn(t, "decoded", 0, n) /\ q[1].cmd = "decoded" => q[1].env = e
      /\ NoneIn(t, "decoded", 0, n) /\ q[1].cmd # "decoded" => NoneIn(q, "decoded", 0, n + 1)
  BY <1>2, LastTail DEF InStep
<1> HIDE DEF t
<1>5. NoneIn(t, "decoded", 0, Len(t) + 1) => e \in C
  BY <1>2, <1>4 DEF InStep
<1>6. Recolours(t, C)
  <2> SUFFICES ASSUME NEW i \in 1..Len(t), t[i].cmd = "recolored"
               PROVE  /\ NoneIn(t, "decoded", 0, i) => t[i].env \in C
                      /\ \A j \in 1..(i - 1) :
                           t[j].cmd = "decoded" /\ NoneIn(t, "decoded", j, i) => t[i].env = t[j].env
    BY DEF Recolours
  <2>1. i + 1 \in 1..n /\ t[i] = q[i + 1] /\ i \in Nat /\ i <= n - 1 /\ i + 1 \in Nat
    BY <1>1
  <2>2. /\ NoneIn(q, "decoded", 0, i + 1) => q[i + 1].env \in B
        /\ \A j \in 1..((i + 1) - 1) :
             q[j].cmd = "decoded" /\ NoneIn(q, "decoded", j, i + 1) => q[i + 1].env = q[j].env
    BY <2>1 DEF InStep, Recolours
  <2>3. ASSUME NoneIn(t, "decoded", 0, i) PROVE t[i].env \in C
    <3>1. NoneIn(q, "decoded", 1, i + 1)
      <4>1. NoneIn(q, "decoded", 0 + 1, i + 1)
        BY <1>3, <2>1, <2>3
      <4>2. QED
        BY <4>1
    <3>2. CASE q[1].cmd = "decoded"
      <4>1. 1 \in 1..((i + 1) - 1)
        BY <2>1
      <4>2. QED
        BY <2>1, <2>2, <3>1, <3>2, <4>1
    <3>3. CASE q[1].cmd # "decoded"
      <4>1. ASSUME NEW k \in 1..n, 0 < k, k < i + 1 PROVE q[k].cmd # "decoded"
        <5>1. CASE k = 1
          BY <3>3, <5>1
        <5>2. CASE 1 < k
          BY <3>1, <4>1, <5>2 DEF NoneIn
        <5>3. QED
          BY <5>1, <5>2
      <4>2. NoneIn(q, "decoded", 0, i + 1)
        BY <4>1 DEF NoneIn
      <4>3. QED
        BY <2>1, <2>2, <3>3, <4>2
    <3>4. QED
      BY <3>2, <3>3
  <2>4. ASSUME NEW j \in 1..(i - 1), t[j].cmd = "decoded", NoneIn(t, "decoded", j, i)
        PROVE  t[i].env = t[j].env
    <3>1. j \in Nat /\ j + 1 \in 1..((i + 1) - 1) /\ t[j] = q[j + 1]
      BY <1>1, <2>1
    <3>2. NoneIn(q, "decoded", j + 1, i + 1)
      BY <1>3, <2>1, <2>4, <3>1
    <3>3. QED
      BY <2>1, <2>2, <2>4, <3>1, <3>2
  <2>5. QED
    BY <2>3, <2>4
<1>7. InStep(t, C, e)
  BY <1>4, <1>5, <1>6 DEF InStep
<1>8. q[1].cmd = "recolored" => q[1].env \in B
  <2>1. 1 \in 1..n /\ NoneIn(q, "decoded", 0, 1)
    BY <1>1 DEF NoneIn
  <2>2. QED
    BY <2>1 DEF InStep, Recolours
<1>9. QED
  BY <1>2, <1>7, <1>8 DEF t

LEMMA InStepWider ==
  ASSUME NEW q, NEW B, NEW C, NEW e, InStep(q, B, e), B \subseteq C
  PROVE  InStep(q, C, e)
BY DEF InStep, Recolours

-----------------------------------------------------------------------------
(* The colours on screen.  The queue of replies is in step with what is    *)
(* drawn and with the mesh the worker holds, until the worker crashes.     *)

Has(q, cmd) == \E i \in 1..Len(q) : q[i].cmd = cmd

LEMMA HasAppend ==
  ASSUME NEW S, NEW q \in Seq(S), NEW m \in S, NEW cmd
  PROVE  Has(Append(q, m), cmd) <=> Has(q, cmd) \/ m.cmd = cmd
<1> DEFINE n == Len(q)
           a == Append(q, m)
<1>1. Len(a) = n + 1 /\ n \in Nat /\ a[n + 1] = m /\ \A k \in 1..n : a[k] = q[k]
  BY Appended
<1> HIDE DEF a
<1>2. ASSUME Has(a, cmd) PROVE Has(q, cmd) \/ m.cmd = cmd
  <2>1. PICK i \in 1..Len(a) : a[i].cmd = cmd
    BY <1>2 DEF Has
  <2>2. CASE i = n + 1
    BY <1>1, <2>1, <2>2
  <2>3. CASE i \in 1..n
    BY <1>1, <2>1, <2>3 DEF Has
  <2>4. QED
    BY <1>1, <2>2, <2>3
<1>3. ASSUME Has(q, cmd) PROVE Has(a, cmd)
  <2>1. PICK i \in 1..n : q[i].cmd = cmd
    BY <1>3 DEF Has
  <2>2. i \in 1..Len(a) /\ a[i].cmd = cmd
    BY <1>1, <2>1
  <2>3. QED
    BY <2>2 DEF Has
<1>4. ASSUME m.cmd = cmd PROVE Has(a, cmd)
  <2>1. n + 1 \in 1..Len(a) /\ a[n + 1].cmd = cmd
    BY <1>1, <1>4
  <2>2. QED
    BY <2>1 DEF Has
<1>5. QED
  BY <1>2, <1>3, <1>4 DEF a

LEMMA HasTail ==
  ASSUME NEW S, NEW q \in Seq(S), q # <<>>
  PROVE  Has(q, Head(q).cmd) /\ \A cmd : Has(Tail(q), cmd) => Has(q, cmd)
<1>1. Head(q) = q[1] /\ 1 \in 1..Len(q) /\ Len(q) \in Nat /\ Len(Tail(q)) = Len(q) - 1
      /\ \A i \in 1..(Len(q) - 1) : Tail(q)[i] = q[i + 1]
  BY TailOf
<1>2. ASSUME NEW cmd, NEW i \in 1..Len(Tail(q)), Tail(q)[i].cmd = cmd PROVE Has(q, cmd)
  <2>1. i + 1 \in 1..Len(q) /\ q[i + 1].cmd = cmd
    BY <1>1, <1>2
  <2>2. QED
    BY <2>1 DEF Has
<1>3. QED
  BY <1>1, <1>2 DEF Has

LEMMA NoneIsNotHas ==
  ASSUME NEW S, NEW q \in Seq(S), NEW cmd
  PROVE  NoneIn(q, cmd, 0, Len(q) + 1) <=> ~Has(q, cmd)
BY DEF NoneIn, Has

(* Nothing is on screen and the page holds no mesh: the colours the        *)
(* geometry was left with are of no account.                               *)
Hidden == ~drawn.shown /\ vol3.src = NoEnv

(* Whose colours the geometry may wear.                                    *)
Base == IF Hidden THEN Env \cup {NoEnv} ELSE {drawn.src}

(* The shell is null, in flight or the mesh that was drawn last.           *)
ShellOK ==
  /\ vol3.src = NoEnv => vol3 = NullMesh \/ vol3.decoding
  /\ vol3.decoding => vol3.src = NoEnv
  /\ vol3.src # NoEnv => drawn.src = vol3.src

(* Whoever may ask for, or was sent, colours knows that the worker holds a *)
(* mesh.                                                                   *)
MeshHeld ==
  /\ worker /\ vol3.src # NoEnv => keep # NoEnv
  /\ Has(toPage, "decoded") => keep # NoEnv
  /\ Has(toWorker, "recolor") => keep # NoEnv

Coloured == worker /\ errors = 0 => drawn.colSrc \in Base /\ InStep(toPage, Base, keep)

ColourInv == ShellOK /\ MeshHeld /\ Coloured

LEMMA InitColour == Init => ColourInv
<1> SUFFICES ASSUME Init PROVE ColourInv
  OBVIOUS
<1>1. ~Has(toWorker, "recolor") /\ ~Has(toPage, "decoded")
  BY DEF Init, Has, Message
<1>2. ShellOK /\ MeshHeld
  BY <1>1 DEF Init, NullMesh, ShellOK, MeshHeld
<1>3. drawn.colSrc \in Base /\ keep \in Base
  BY DEF Init, Base, Hidden, NullMesh
<1>4. InStep(toPage, Base, keep)
  BY <1>3 DEF Init, InStep, Recolours, LastIs
<1>5. QED
  BY <1>2, <1>3, <1>4 DEF ColourInv, Coloured

(* A step that leaves the replies and the worker's mesh alone, and whose   *)
(* drawing (if there is a worker) is of the same mesh, in the same         *)
(* colours, unless it hides it.                                            *)
LEMMA KeptColour ==
  ASSUME TypeOK, ColourInv, ShellOK', UNCHANGED <<toPage, keep, errors>>,
         worker' => /\ worker
                    /\ drawn'.src = drawn.src /\ drawn'.colSrc = drawn.colSrc
                    /\ Hidden => Hidden'
                    /\ vol3'.src # NoEnv => vol3.src # NoEnv,
         Has(toWorker, "recolor")' => Has(toWorker, "recolor") \/ keep # NoEnv
  PROVE  ColourInv'
<1>1. MeshHeld'
  BY DEF ColourInv, MeshHeld
<1>2. ASSUME worker', errors' = 0 PROVE drawn'.colSrc \in Base' /\ InStep(toPage', Base', keep')
  <2>1. drawn.colSrc \in Base /\ InStep(toPage, Base, keep)
    BY <1>2 DEF ColourInv, Coloured
  <2>2. drawn.src \in Env \cup {NoEnv}
    BY DEF TypeOK, Drawings
  <2>3. Base \subseteq Base'
    BY <1>2, <2>2 DEF Base
  <2>4. InStep(toPage, Base', keep)
    BY <2>1, <2>3, InStepWider
  <2>5. QED
    BY <1>2, <2>1, <2>3, <2>4
<1>3. QED
  BY <1>1, <1>2 DEF ColourInv, Coloured

(* A decode that ends on the page, where there is no worker.               *)
LEMMA EndShellOK ==
  ASSUME drawn \in Drawings, NEW v, NEW src \in Env, NEW c, NEW b,
         ShowMesh(v, src, c) \/ ShowEmptyMesh \/ DecodeFailed(b)
  PROVE  ShellOK'
BY Constants DEF ConstantsOK, ShowMesh, ShowEmptyMesh, DecodeFailed, Decoded, NullMesh, ShellOK

(* What a rendering does to the shell, the drawing and the worker's queue. *)
LEMMA RenderVolumeColour ==
  ASSUME TypeOK, ColourInv, NEW v \in Env, NEW m \in Shells, m = NullMesh \/ m = vol3,
         RenderVolume(v, m)
  PROVE  /\ ShellOK'
         /\ worker => /\ drawn'.src = drawn.src /\ drawn'.colSrc = drawn.colSrc
                      /\ Hidden => Hidden'
                      /\ vol3'.src # NoEnv => vol3.src # NoEnv
         /\ Has(toWorker, "recolor")' => Has(toWorker, "recolor") \/ keep # NoEnv
<1>0. /\ drawn \in Drawings /\ NoEnv \notin Env /\ toWorker \in Seq(WorkerMessage)
      /\ vol3 \in Shells /\ ShellOK /\ MeshHeld
  BY Constants DEF TypeOK, ConstantsOK, ColourInv
<1>1. CASE Redraw(v, m)
  <2>1. m = vol3 /\ vol3 # NullMesh /\ ~vol3.decoding
    BY <1>0, <1>1 DEF Redraw, NullMesh
  <2>2. vol3.src # NoEnv
    BY <1>0, <2>1 DEF ShellOK
  <2>3. vol3'.src = vol3.src /\ ~vol3'.decoding
    BY <1>0, <1>1, <2>1 DEF Redraw, Shells
  <2>4. drawn'.src = drawn.src /\ drawn'.shown = drawn.shown
    BY <1>0, <1>1 DEF Redraw, Drawings
  <2>5. worker => UNCHANGED drawn
    BY <1>1 DEF Redraw
  <2>6. ShellOK'
    BY <1>0, <2>1, <2>2, <2>3, <2>4 DEF ShellOK
  <2>7. Has(toWorker, "recolor")' => Has(toWorker, "recolor") \/ keep # NoEnv
    <3>1. CASE UNCHANGED toWorker
      BY <3>1
    <3>2. CASE worker
      BY <1>0, <2>2, <3>2 DEF MeshHeld
    <3>3. QED
      BY <1>1, <3>1, <3>2 DEF Redraw
  <2>8. QED
    BY <2>2, <2>3, <2>5, <2>6, <2>7 DEF Hidden
<1>2. CASE AwaitDecode(v, m)
  <2>1. UNCHANGED <<vol3, drawn, toWorker>>
    BY <1>0, <1>2 DEF AwaitDecode, NullMesh
  <2>2. QED
    BY <1>0, <2>1 DEF ShellOK, Hidden
<1>3. CASE RefuseTooLarge(v, m)
  <2>1. /\ drawn'.src = drawn.src /\ drawn'.colSrc = drawn.colSrc /\ ~drawn'.shown
        /\ vol3' = m /\ UNCHANGED toWorker
    BY <1>0, <1>3 DEF RefuseTooLarge, Drawings
  <2>2. ShellOK'
    BY <1>0, <2>1 DEF ShellOK, NullMesh
  <2>3. (Hidden => Hidden') /\ (vol3'.src # NoEnv => vol3.src # NoEnv)
    BY <2>1 DEF Hidden, NullMesh
  <2>4. QED
    BY <2>1, <2>2, <2>3
<1>4. CASE StartDecode(v, m)
  <2>1. CASE Decoding(v) /\ (\/ UNCHANGED toWorker
                             \/ toWorker' = Append(toWorker, Message("decode", v, colormap')))
    <3>1. vol3'.src = NoEnv /\ vol3'.decoding /\ UNCHANGED drawn
      BY <2>1 DEF Decoding, Pending, NullMesh
    <3>2. ShellOK' /\ (Hidden => Hidden')
      BY <3>1 DEF ShellOK, Hidden
    <3>3. Has(toWorker, "recolor")' => Has(toWorker, "recolor")
      <4>1. CASE UNCHANGED toWorker
        BY <4>1
      <4>2. CASE toWorker' = Append(toWorker, Message("decode", v, colormap'))
        <5>1. toWorker \in Seq(WorkerMessage \cup {Message("decode", v, colormap')})
          BY <1>0
        <5>2. Message("decode", v, colormap').cmd # "recolor"
          BY DEF Message
        <5>3. QED
          BY <4>2, <5>1, <5>2, HasAppend
      <4>3. QED
        BY <2>1, <4>1, <4>2
    <3>4. QED
      BY <3>1, <3>2, <3>3
  <2>2. CASE ~worker /\ DecodeSync(v, colormap')
    BY <1>0, <2>2, EndShellOK DEF DecodeSync
  <2>3. QED
    BY <1>4, <2>1, <2>2 DEF StartDecode
<1>5. QED
  BY <1>1, <1>2, <1>3, <1>4 DEF RenderVolume

LEMMA RenderActiveColour ==
  ASSUME TypeOK, ColourInv, RenderActive, UNCHANGED <<worker, toPage, keep, errors>>
  PROVE  ColourInv'
<1>1. CASE RenderMap
  BY <1>1, KeptColour DEF RenderMap, ColourInv, ShellOK, Hidden
<1>2. CASE RenderVolume(payload, vol3)
  <2>1. payload \in Env /\ vol3 \in Shells
    BY DEF TypeOK
  <2>2. QED
    BY <1>2, <2>1, RenderVolumeColour, KeptColour
<1>3. QED
  BY <1>1, <1>2 DEF RenderActive

LEMMA WorkerStepColour ==
  ASSUME TypeOK, ColourInv, WorkerStep
  PROVE  ColourInv'
<1> DEFINE msg == Head(toWorker)
<1>0. /\ toWorker \in Seq(WorkerMessage) /\ toPage \in Seq(PageMessage) /\ errors \in Nat
      /\ keep \in Env \cup {NoEnv} /\ NoEnv \notin Env /\ ShellOK /\ MeshHeld
  BY Constants DEF TypeOK, ConstantsOK, ColourInv
<1>1. /\ msg \in WorkerMessage /\ Has(toWorker, msg.cmd)
      /\ Has(toWorker, "recolor")' => Has(toWorker, "recolor")
  BY <1>0, HasTail, TailOf DEF WorkerStep
<1>2. UNCHANGED <<vol3, drawn, worker>>
  BY DEF WorkerStep, page
<1>3. ShellOK' /\ Base' = Base
  BY <1>0, <1>2 DEF ShellOK, Base, Hidden
<1>4. CASE UNCHANGED keep /\ Throw
  <2>1. MeshHeld'
    BY <1>0, <1>1, <1>2, <1>4 DEF MeshHeld, Throw
  <2>2. errors' # 0
    BY <1>0, <1>4 DEF Throw
  <2>3. QED
    BY <1>3, <2>1, <2>2 DEF ColourInv, Coloured
<1>5. ASSUME NEW r \in PageMessage, Reply(r), keep' # NoEnv \/ (UNCHANGED keep /\ r.cmd # "decoded"),
             \/ r.cmd = "decoded" /\ keep' = r.env
             \/ r.cmd = "recolored" /\ UNCHANGED keep /\ r.env = keep
             \/ r.cmd = "decoded2d" /\ UNCHANGED keep
      PROVE  ColourInv'
  <2>1. Has(toPage, "decoded")' <=> Has(toPage, "decoded") \/ r.cmd = "decoded"
    BY <1>0, <1>5, HasAppend DEF Reply
  <2>2. MeshHeld'
    BY <1>0, <1>1, <1>2, <1>5, <2>1 DEF MeshHeld
  <2>3. ASSUME worker', errors' = 0 PROVE drawn'.colSrc \in Base' /\ InStep(toPage', Base', keep')
    <3>1. drawn.colSrc \in Base /\ InStep(toPage, Base, keep)
      BY <1>2, <1>5, <2>3 DEF ColourInv, Coloured, Reply
    <3>2. InStep(Append(toPage, r), Base, keep')
      BY <1>0, <1>5, <3>1, InStepAppend
    <3>3. QED
      BY <1>2, <1>3, <1>5, <3>1, <3>2 DEF Reply
  <2>4. QED
    BY <1>3, <2>2, <2>3 DEF ColourInv, Coloured
<1>6. CASE WorkerDecodes(msg)
  <2>1. msg.env \in Env /\ msg.colours \in Colormaps
    BY <1>1, <1>6 DEF WorkerDecodes, WorkerMessage
  <2> DEFINE r == Message("decoded", msg.env, msg.colours)
  <2>2. r \in PageMessage /\ r.cmd = "decoded" /\ r.env = msg.env
    BY <2>1, MessageTypes DEF Message
  <2>3. CASE UNCHANGED keep /\ Throw
    BY <1>4, <2>3
  <2>4. CASE keep' = msg.env /\ Reply(r)
    BY <1>0, <1>5, <2>1, <2>2, <2>4
  <2>5. QED
    BY <1>6, <2>3, <2>4 DEF WorkerDecodes
<1>7. CASE WorkerRecolours(msg)
  <2>1. keep # NoEnv /\ keep \in Env /\ msg.colours \in Colormaps /\ UNCHANGED keep
    BY <1>0, <1>1, <1>7 DEF WorkerRecolours, WorkerMessage, MeshHeld
  <2> DEFINE r == Message("recolored", keep, msg.colours)
  <2>2. r \in PageMessage /\ r.cmd = "recolored" /\ r.env = keep
    BY <2>1, MessageTypes DEF Message
  <2>3. Reply(r)
    BY <1>7, <2>1 DEF WorkerRecolours
  <2>4. QED
    BY <1>5, <2>1, <2>2, <2>3
<1>8. CASE WorkerDecodesMap(msg)
  <2> DEFINE r == Message("decoded2d", NoEnv, NoMap)
  <2>1. r \in PageMessage /\ r.cmd = "decoded2d"
    BY DEF Message, PageMessage
  <2>2. UNCHANGED keep /\ (Throw \/ Reply(r))
    BY <1>8 DEF WorkerDecodesMap
  <2>3. QED
    BY <1>4, <1>5, <2>1, <2>2
<1>9. QED
  BY <1>6, <1>7, <1>8 DEF WorkerStep

LEMMA OnMessageColour ==
  ASSUME TypeOK, ColourInv, OnMessage
  PROVE  ColourInv'
<1> DEFINE msg == Head(toPage)
<1>0. /\ toPage \in Seq(PageMessage) /\ drawn \in Drawings /\ vol3 \in Shells
      /\ keep \in Env \cup {NoEnv} /\ NoEnv \notin Env /\ ShellOK /\ MeshHeld
  BY Constants DEF TypeOK, ConstantsOK, ColourInv
<1>1. /\ msg \in PageMessage /\ Has(toPage, msg.cmd)
      /\ Has(toPage, "decoded")' => Has(toPage, "decoded")
  BY <1>0, HasTail, TailOf DEF OnMessage
<1>2. UNCHANGED <<worker, keep, errors>> /\ toPage # <<>> /\ toPage' = Tail(toPage)
  BY DEF OnMessage, workerSide
<1>3. UNCHANGED toWorker
  BY DEF OnMessage, OnDecoded, OnRecolored, OnMap2dDecoded, RenderMap
<1>4. ASSUME InStep(toPage, Base, keep)
      PROVE  /\ msg.cmd = "decoded" => InStep(toPage', {msg.env}, keep)
             /\ msg.cmd # "decoded" => InStep(toPage', Base, keep)
             /\ msg.cmd = "recolored" => msg.env \in Base
  BY <1>0, <1>2, <1>4, InStepTail
<1>5. CASE OnDecoded(msg)
  <2>1. msg.cmd = "decoded" /\ msg.env \in Env /\ keep # NoEnv
    BY <1>0, <1>1, <1>5 DEF OnDecoded, PageMessage, MeshHeld
  <2>2. ShellOK'
    BY <1>0, <1>5, <2>1, EndShellOK DEF OnDecoded
  <2>3. MeshHeld'
    BY <1>0, <1>1, <1>2, <1>3, <2>1 DEF MeshHeld
  <2>4. ASSUME worker', errors' = 0 PROVE drawn'.colSrc \in Base' /\ InStep(toPage', Base', keep')
    <3>1. drawn.colSrc \in Base /\ InStep(toPage', {msg.env}, keep)
      BY <1>2, <1>4, <2>1, <2>4 DEF ColourInv, Coloured
    <3>2. CASE ShowMesh(payload, msg.env, msg.colours)
      <4>1. Base' = {msg.env} /\ drawn'.colSrc = msg.env
        BY <3>2 DEF ShowMesh, Decoded, Base, Hidden
      <4>2. QED
        BY <1>2, <3>1, <4>1
    <3>3. CASE ShowEmptyMesh
      <4>1. Base' = Env \cup {NoEnv} /\ drawn'.colSrc \in Env \cup {NoEnv}
        BY <1>0, <3>3 DEF ShowEmptyMesh, Base, Hidden, NullMesh, Drawings
      <4>2. InStep(toPage', Base', keep)
        BY <2>1, <3>1, <4>1, InStepWider
      <4>3. QED
        BY <1>2, <4>1, <4>2
    <3>4. QED
      BY <1>5, <3>2, <3>3 DEF OnDecoded
  <2>5. QED
    BY <2>2, <2>3, <2>4 DEF ColourInv, Coloured
<1>6. CASE msg.cmd # "decoded" /\ UNCHANGED vol3
           /\ (\/ UNCHANGED drawn
               \/ msg.cmd = "recolored" /\ drawn' = [drawn EXCEPT !.colSrc = msg.env, !.colours = msg.colours])
  <2>1. drawn'.src = drawn.src /\ drawn'.shown = drawn.shown
    BY <1>0, <1>6 DEF Drawings
  <2>2. ShellOK' /\ MeshHeld' /\ Base' = Base
    BY <1>0, <1>1, <1>2, <1>3, <1>6, <2>1 DEF ShellOK, MeshHeld, Base, Hidden
  <2>3. ASSUME worker', errors' = 0 PROVE drawn'.colSrc \in Base' /\ InStep(toPage', Base', keep')
    <3>1. drawn.colSrc \in Base /\ InStep(toPage', Base, keep) /\ (msg.cmd = "recolored" => msg.env \in Base)
      BY <1>2, <1>4, <1>6, <2>3 DEF ColourInv, Coloured
    <3>2. drawn'.colSrc \in Base
      BY <1>0, <1>6, <3>1 DEF Drawings
    <3>3. QED
      BY <1>2, <2>2, <3>1, <3>2
  <2>4. QED
    BY <2>2, <2>3 DEF ColourInv, Coloured
<1>7. CASE OnRecolored(msg)
  BY <1>6, <1>7 DEF OnRecolored
<1>8. CASE OnMap2dDecoded(msg)
  BY <1>6, <1>8 DEF OnMap2dDecoded, RenderMap
<1>9. QED
  BY <1>5, <1>7, <1>8 DEF OnMessage

THEOREM ColourSafe == Spec => []ColourInv
<1>1. TypeOK /\ ColourInv /\ [Next]_vars => ColourInv'
  <2> SUFFICES ASSUME TypeOK, ColourInv, [Next]_vars PROVE ColourInv'
    OBVIOUS
  <2>0. /\ drawn \in Drawings /\ vol3 \in Shells /\ ShellOK /\ toWorker \in Seq(WorkerMessage)
        /\ NoEnv \notin Env
    BY Constants DEF TypeOK, ConstantsOK, ColourInv
  <2> USE DEF workerSide
  <2>1. ASSUME NEW t \in {"map", "volume"}, SelectTab(t)
        PROVE  ColourInv'
    BY <2>1, RenderActiveColour DEF SelectTab
  <2>2. ASSUME NEW c \in Colormaps, FlipColormap(c)
        PROVE  ColourInv'
    BY <2>2, RenderActiveColour DEF FlipColormap
  <2>3. CASE ToggleZone
    <3>1. UNCHANGED <<vol3, worker, toWorker, toPage, keep, errors>>
      BY <2>3 DEF ToggleZone
    <3>2. drawn'.src = drawn.src /\ drawn'.colSrc = drawn.colSrc /\ drawn'.shown = ~vol3.decoding
      BY <2>0, <2>3 DEF ToggleZone, Drawings
    <3>3. vol3.src = NoEnv => vol3.decoding
      BY <2>0, <2>3 DEF ToggleZone, ShellOK
    <3>4. ShellOK' /\ (Hidden => Hidden')
      BY <2>0, <3>1, <3>2, <3>3 DEF ShellOK, Hidden
    <3>5. QED
      BY <3>1, <3>2, <3>4, KeptColour
  <2>4. ASSUME UNCHANGED <<vol3, drawn, worker, toWorker, toPage, keep, errors>>
        PROVE  ColourInv'
    <3>1. ShellOK' /\ (Hidden => Hidden')
      BY <2>0, <2>4 DEF ShellOK, Hidden
    <3>2. QED
      BY <2>4, <3>1, KeptColour
  <2>5. ASSUME NEW n \in 1..MaxCuts, RecutAnswered(n)
        PROVE  ColourInv'
    <3>1. n \in Env /\ NullMesh \in Shells
      BY NullMeshType DEF Env
    <3>2. QED
      BY <2>5, <3>1, RenderVolumeColour, KeptColour DEF RecutAnswered
  <2>6. ASSUME NEW v \in Env, NEW c \in Colormaps, BinArrived(v, c)
        PROVE  ColourInv'
    <3>1. UNCHANGED <<worker, toPage, keep, errors>>
      BY <2>6 DEF BinArrived
    <3>2. CASE ~worker /\ DecodeSync(v, c)
      <4>1. ShellOK' /\ UNCHANGED toWorker
        BY <2>0, <3>2, EndShellOK DEF DecodeSync
      <4>2. QED
        BY <3>1, <3>2, <4>1, KeptColour
    <3>3. CASE /\ toWorker' = Append(toWorker, Message("decode", v, c))
               /\ UNCHANGED <<vol3, watchdog, overlay, banner, drawn>>
      <4>1. ShellOK' /\ (Hidden => Hidden')
        BY <2>0, <3>3 DEF ShellOK, Hidden
      <4>2. Has(toWorker, "recolor")' => Has(toWorker, "recolor")
        <5>1. Message("decode", v, c) \in WorkerMessage /\ Message("decode", v, c).cmd = "decode"
          BY MessageTypes DEF Message
        <5>2. QED
          BY <2>0, <3>3, <5>1, HasAppend
      <4>3. QED
        BY <3>1, <3>3, <4>1, <4>2, KeptColour
    <3>4. QED
      BY <2>6, <3>2, <3>3 DEF BinArrived
  <2>7. ASSUME NEW v \in Env, NEW c \in Colormaps, BinFailed(v, c)
        PROVE  ColourInv'
    <3>1. UNCHANGED <<worker, toWorker, toPage, keep, errors, drawn>> /\ vol3' = NullMesh
      BY <2>7 DEF BinFailed, DecodeFailed
    <3>2. ShellOK' /\ (Hidden => Hidden') /\ vol3'.src = NoEnv
      BY <3>1 DEF ShellOK, Hidden, NullMesh
    <3>3. QED
      BY <3>1, <3>2, KeptColour
  <2>8. CASE WorkerStep
    BY <2>8, WorkerStepColour
  <2>9. CASE OnMessage
    BY <2>9, OnMessageColour
  <2>10. CASE OnError
    <3>1. UNCHANGED <<drawn, toWorker, toPage, keep>> /\ ~worker'
      BY <2>10 DEF OnError, DecodeFailed
    <3>2. ShellOK'
      BY <2>0, <2>10 DEF OnError, DecodeFailed, ShellOK, NullMesh
    <3>3. MeshHeld'
      BY <3>1 DEF ColourInv, MeshHeld
    <3>4. QED
      BY <3>1, <3>2, <3>3 DEF ColourInv, Coloured
  <2>11. CASE WatchdogFires
    <3>1. UNCHANGED <<worker, toWorker, toPage, keep, errors>>
      BY <2>11 DEF WatchdogFires
    <3>2. CASE vol3' = NullMesh /\ drawn' = [drawn EXCEPT !.shown = FALSE]
      <4>1. ShellOK' /\ Hidden' /\ vol3'.src = NoEnv /\ drawn'.src = drawn.src
            /\ drawn'.colSrc = drawn.colSrc
        BY <2>0, <3>2 DEF ShellOK, Hidden, NullMesh, Drawings
      <4>2. QED
        BY <3>1, <4>1, KeptColour
    <3>3. CASE UNCHANGED <<vol3, drawn>>
      BY <2>4, <3>1, <3>3
    <3>4. QED
      BY <2>11, <3>2, <3>3 DEF WatchdogFires
  <2>12. CASE GestureOnMap \/ AskRecut \/ MapFrame \/ UNCHANGED vars
    BY <2>4, <2>12 DEF GestureOnMap, AskRecut, MapFrame, RenderMap, vars
  <2>13. ASSUME NEW n \in 1..MaxCuts, RecutFailed(n)
         PROVE  ColourInv'
    BY <2>4, <2>13 DEF RecutFailed
  <2>14. QED
    BY <2>1, <2>2, <2>3, <2>5, <2>6, <2>7, <2>8, <2>9, <2>10, <2>11, <2>12, <2>13
    DEF Next, User, Server
<1>2. QED
  BY InitColour, TypeCorrect, <1>1, PTL DEF Spec

(* The worker is never asked to recolour a mesh it does not hold, however  *)
(* colormap flips, re-cuts and failing decodes interleave.                 *)
THEOREM RecoloursHaveMesh == Spec => []RecolourHasMesh
<1>1. ColourInv => RecolourHasMesh
  BY DEF ColourInv, MeshHeld, Has, RecolourHasMesh
<1>2. QED
  BY ColourSafe, <1>1, PTL

(* Until the worker crashes, what is on screen wears its own colours: the  *)
(* replies that are still to come recolour what will then be drawn.        *)
THEOREM ColoursMatch == Spec => []ColoursBelongToMesh
<1>1. ColourInv => ColoursBelongToMesh
  BY DEF ColourInv, Coloured, Base, Hidden, ColoursBelongToMesh
<1>2. QED
  BY ColourSafe, <1>1, PTL

-----------------------------------------------------------------------------
(* The end of a burst of re-cuts, when every envelope is inline, under the *)
(* memory cap and decodes, as in the run volume_settles.                   *)
OnlyInline == Sidecar = {} /\ TooLarge = {} /\ Fates = {"ok"} /\ MapFates = {"ok"}

(* The last decode in the worker's queue is of the payload; if there is    *)
(* none, the last one in the page's is; if there is none either, the mesh  *)
(* the page holds is the payload's.                                        *)
SettleInv ==
  /\ errors = 0
  /\ \A f \in DOMAIN binFetch : binFetch[f] = 0
  /\ ~worker => toWorker = <<>> /\ toPage = <<>>
  /\ LastIs(toWorker, "decode", payload)
  /\ ~Has(toWorker, "decode") => LastIs(toPage, "decoded", payload)
  /\ ~Has(toWorker, "decode") /\ ~Has(toPage, "decoded") => vol3.src \in {NoEnv, payload}

LEMMA InitSettle == Init => SettleInv
<1> SUFFICES ASSUME Init PROVE SettleInv
  OBVIOUS
<1>1. LastIs(toWorker, "decode", payload) /\ LastIs(toPage, "decoded", payload)
  BY DEF Init, LastIs, Message
<1>2. QED
  BY <1>1 DEF Init, SettleInv, NullMesh

LEMMA FateOk ==
  ASSUME OnlyInline, TypeOK
  PROVE  mapFate = "ok" /\ \A v \in Env : fate[v] = "ok"
BY DEF OnlyInline, TypeOK

(* An empty queue says nothing.                                            *)
LEMMA LastEmpty == ASSUME NEW cmd, NEW e PROVE LastIs(<<>>, cmd, e)
BY DEF LastIs

(* A step that leaves the queues and the payload alone, and takes the page *)
(* at most to a state without a mesh.                                      *)
LEMMA KeptSettle ==
  ASSUME SettleInv, UNCHANGED <<payload, worker, toWorker, toPage, errors, binFetch>>,
         vol3'.src \in {vol3.src, NoEnv}
  PROVE  SettleInv'
BY DEF SettleInv

LEMMA RenderVolumeSettle ==
  ASSUME OnlyInline, TypeOK, SettleInv, UNCHANGED <<worker, toPage, errors>>, payload' \in Env,
         colormap' \in Colormaps, NEW m, m = NullMesh \/ (m = vol3 /\ payload' = payload),
         RenderVolume(payload', m)
  PROVE  SettleInv'
<1> DEFINE v == payload'
<1>0. /\ vol3 \in Shells /\ toWorker \in Seq(WorkerMessage) /\ NoEnv \notin Env
      /\ v \in Env /\ v \notin Sidecar /\ v \notin TooLarge /\ fate[v] = "ok"
  BY FateOk, Constants DEF TypeOK, ConstantsOK, OnlyInline
<1>1. CASE Redraw(v, m)
  <2>1. m = vol3 /\ payload' = payload /\ UNCHANGED binFetch
    BY <1>0, <1>1 DEF Redraw, NullMesh
  <2>2. vol3'.src = vol3.src
    BY <1>0, <1>1, <2>1 DEF Redraw, Shells
  <2>3. CASE UNCHANGED toWorker
    BY <2>1, <2>2, <2>3, KeptSettle
  <2>4. CASE worker /\ toWorker' = Append(toWorker, Message("recolor", NoEnv, colormap'))
    <3> DEFINE r == Message("recolor", NoEnv, colormap')
    <3>1. r \in WorkerMessage /\ r.cmd = "recolor"
      BY MessageTypes DEF Message
    <3>2. LastIs(toWorker', "decode", payload) /\ (Has(toWorker, "decode")' <=> Has(toWorker, "decode"))
      BY <1>0, <2>4, <3>1, LastAppend, HasAppend DEF SettleInv
    <3>3. QED
      BY <2>1, <2>2, <2>4, <3>2 DEF SettleInv
  <2>5. QED
    BY <1>1, <2>3, <2>4 DEF Redraw
<1>2. CASE AwaitDecode(v, m)
  <2>1. m = vol3 /\ payload' = payload
    BY <1>0, <1>2 DEF AwaitDecode, NullMesh
  <2>2. QED
    BY <1>2, <2>1, KeptSettle DEF AwaitDecode
<1>3. ASSUME RefuseTooLarge(v, m) PROVE FALSE
  BY <1>0, <1>3 DEF RefuseTooLarge
<1>4. CASE StartDecode(v, m)
  <2>1. CASE worker /\ toWorker' = Append(toWorker, Message("decode", v, colormap')) /\ UNCHANGED binFetch
    <3> DEFINE r == Message("decode", v, colormap')
    <3>1. r \in WorkerMessage /\ r.cmd = "decode" /\ r.env = v
      BY <1>0, MessageTypes DEF Message
    <3>2. LastIs(toWorker', "decode", v) /\ Has(toWorker, "decode")'
      BY <1>0, <2>1, <3>1, LastAppend, HasAppend
    <3>3. QED
      BY <2>1, <3>2 DEF SettleInv
  <2>2. CASE ~worker /\ DecodeSync(v, colormap') /\ UNCHANGED binFetch
    <3>1. vol3'.src = v /\ UNCHANGED toWorker
      BY <1>0, <2>2 DEF DecodeSync, ShowMesh, Decoded
    <3>2. QED
      BY <2>2, <3>1, LastEmpty DEF SettleInv
  <2>3. QED
    BY <1>0, <1>4, <2>1, <2>2 DEF StartDecode
<1>5. QED
  BY <1>1, <1>2, <1>3, <1>4 DEF RenderVolume

LEMMA RenderActiveSettle ==
  ASSUME OnlyInline, TypeOK, SettleInv, UNCHANGED <<payload, worker, toPage, errors>>,
         colormap' \in Colormaps, RenderActive
  PROVE  SettleInv'
<1>1. CASE RenderMap
  BY <1>1, KeptSettle DEF RenderMap
<1>2. CASE RenderVolume(payload, vol3)
  BY <1>2, RenderVolumeSettle DEF TypeOK
<1>3. QED
  BY <1>1, <1>2 DEF RenderActive

LEMMA WorkerStepSettle ==
  ASSUME OnlyInline, TypeOK, ColourInv, SettleInv, WorkerStep
  PROVE  SettleInv'
<1> DEFINE msg == Head(toWorker)
           last == ~Has(Tail(toWorker), "decode")
<1>0. /\ toWorker \in Seq(WorkerMessage) /\ toPage \in Seq(PageMessage) /\ keep \in Env \cup {NoEnv}
      /\ mapFate = "ok" /\ MeshHeld /\ NoEnv \notin Env
  BY FateOk, Constants DEF TypeOK, ConstantsOK, ColourInv
<1>1. /\ toWorker # <<>> /\ toWorker' = Tail(toWorker)
      /\ UNCHANGED <<payload, worker, binFetch, vol3>>
  BY DEF WorkerStep, page
<1>2. msg \in WorkerMessage /\ Has(toWorker, msg.cmd) /\ Tail(toWorker) \in Seq(WorkerMessage)
  BY <1>0, <1>1, HasTail, TailOf
<1>3. /\ LastIs(toWorker', "decode", payload)
      /\ last /\ msg.cmd = "decode" => msg.env = payload
      /\ last /\ msg.cmd # "decode" => ~Has(toWorker, "decode")
  <2>1. LastIs(toWorker, "decode", payload)
    BY DEF SettleInv
  <2>2. NoneIn(Tail(toWorker), "decode", 0, Len(Tail(toWorker)) + 1) <=> last
    BY <1>2, NoneIsNotHas
  <2>3. NoneIn(toWorker, "decode", 0, Len(toWorker) + 1) <=> ~Has(toWorker, "decode")
    BY <1>0, NoneIsNotHas
  <2>4. QED
    BY <1>0, <1>1, <2>1, <2>2, <2>3, LastTail
<1>4. ASSUME NEW r \in PageMessage, Reply(r), r.cmd = "decoded" <=> msg.cmd = "decode",
             r.cmd = "decoded" => r.env = msg.env
      PROVE  SettleInv'
  <2>1. toPage' = Append(toPage, r) /\ errors' = 0
    BY <1>4 DEF Reply, SettleInv
  <2>2. Has(toPage, "decoded")' <=> Has(toPage, "decoded") \/ r.cmd = "decoded"
    BY <1>0, <2>1, HasAppend
  <2>3. last => LastIs(toPage', "decoded", payload)
    BY <1>0, <1>3, <1>4, <2>1, LastAppend DEF SettleInv
  <2>4. last /\ ~Has(toPage, "decoded")' => vol3'.src \in {NoEnv, payload}
    BY <1>1, <1>3, <1>4, <2>2 DEF SettleInv
  <2>5. worker
    BY <1>1 DEF SettleInv
  <2>6. QED
    BY <1>1, <1>3, <2>1, <2>3, <2>4, <2>5 DEF SettleInv
<1>5. CASE WorkerDecodes(msg)
  <2>1. msg.cmd = "decode" /\ msg.env \in Env /\ msg.colours \in Colormaps
    BY <1>2, <1>5 DEF WorkerDecodes, WorkerMessage
  <2> DEFINE r == Message("decoded", msg.env, msg.colours)
  <2>2. r \in PageMessage /\ r.cmd = "decoded" /\ r.env = msg.env
    BY <2>1, MessageTypes DEF Message
  <2>3. Reply(r)
    BY <1>5, <2>1, FateOk DEF WorkerDecodes
  <2>4. QED
    BY <1>4, <2>1, <2>2, <2>3
<1>6. CASE WorkerRecolours(msg)
  <2>1. msg.cmd = "recolor" /\ keep # NoEnv /\ keep \in Env /\ msg.colours \in Colormaps
    BY <1>0, <1>2, <1>6 DEF WorkerRecolours, WorkerMessage, MeshHeld
  <2> DEFINE r == Message("recolored", keep, msg.colours)
  <2>2. r \in PageMessage /\ r.cmd = "recolored"
    BY <2>1, MessageTypes DEF Message
  <2>3. Reply(r)
    BY <1>6, <2>1 DEF WorkerRecolours
  <2>4. QED
    BY <1>4, <2>1, <2>2, <2>3
<1>7. CASE WorkerDecodesMap(msg)
  <2> DEFINE r == Message("decoded2d", NoEnv, NoMap)
  <2>1. r \in PageMessage /\ r.cmd = "decoded2d"
    BY DEF Message, PageMessage
  <2>2. msg.cmd = "decode2d" /\ Reply(r)
    BY <1>0, <1>7 DEF WorkerDecodesMap
  <2>3. QED
    BY <1>4, <2>1, <2>2
<1>8. QED
  BY <1>5, <1>6, <1>7 DEF WorkerStep

LEMMA OnMessageSettle ==
  ASSUME OnlyInline, TypeOK, SettleInv, OnMessage
  PROVE  SettleInv'
<1> DEFINE msg == Head(toPage)
           last == ~Has(Tail(toPage), "decoded")
<1>0. toPage \in Seq(PageMessage)
  BY DEF TypeOK
<1>1. /\ toPage # <<>> /\ toPage' = Tail(toPage)
      /\ UNCHANGED <<payload, worker, errors>>
  BY DEF OnMessage, workerSide
<1>2. msg \in PageMessage /\ Has(toPage, msg.cmd) /\ Tail(toPage) \in Seq(PageMessage)
  BY <1>0, <1>1, HasTail, TailOf
<1>3. UNCHANGED <<toWorker, binFetch>>
  BY DEF OnMessage, OnDecoded, OnRecolored, OnMap2dDecoded, RenderMap
<1>4. ASSUME ~Has(toWorker, "decode")
      PROVE  /\ LastIs(toPage', "decoded", payload)
             /\ last /\ msg.cmd = "decoded" => msg.env = payload
             /\ last /\ msg.cmd # "decoded" => ~Has(toPage, "decoded")
  <2>1. LastIs(toPage, "decoded", payload)
    BY <1>4 DEF SettleInv
  <2>2. NoneIn(Tail(toPage), "decoded", 0, Len(Tail(toPage)) + 1) <=> last
    BY <1>2, NoneIsNotHas
  <2>3. NoneIn(toPage, "decoded", 0, Len(toPage) + 1) <=> ~Has(toPage, "decoded")
    BY <1>0, NoneIsNotHas
  <2>4. QED
    BY <1>0, <1>1, <2>1, <2>2, <2>3, LastTail
<1>5. ASSUME ~Has(toWorker, "decode"), last
      PROVE  vol3'.src \in {NoEnv, payload}
  <2>1. CASE OnDecoded(msg)
    <3>1. msg.cmd = "decoded" /\ msg.env \in Env
      BY <1>2, <2>1 DEF OnDecoded, PageMessage
    <3>2. fate[msg.env] = "ok"
      BY <3>1, FateOk
    <3>3. ShowMesh(payload, msg.env, msg.colours)
      BY <2>1, <3>2 DEF OnDecoded
    <3>4. vol3'.src = msg.env
      BY <3>3 DEF ShowMesh, Decoded
    <3>5. QED
      BY <1>4, <1>5, <3>1, <3>4
  <2>2. CASE msg.cmd # "decoded" /\ UNCHANGED vol3
    BY <1>4, <1>5, <2>2 DEF SettleInv
  <2>3. QED
    BY <2>1, <2>2 DEF OnMessage, OnRecolored, OnMap2dDecoded, RenderMap
<1>6. worker
  BY <1>1 DEF SettleInv
<1>7. QED
  BY <1>1, <1>3, <1>4, <1>5, <1>6 DEF SettleInv

LEMMA SettleStep ==
  ASSUME OnlyInline, TypeOK, TypeOK', ColourInv, SettleInv, [Next]_vars
  PROVE  SettleInv'
<1>0. /\ payload' \in Env /\ colormap' \in Colormaps
      /\ \A v \in Env, c \in Colormaps : <<v, c>> \in DOMAIN binFetch
      /\ errors = 0 /\ \A f \in DOMAIN binFetch : binFetch[f] = 0
  BY DEF TypeOK, SettleInv
<1> USE DEF workerSide
<1>1. ASSUME NEW t \in {"map", "volume"}, SelectTab(t)
      PROVE  SettleInv'
  BY <1>0, <1>1, RenderActiveSettle DEF SelectTab
<1>2. ASSUME NEW c \in Colormaps, FlipColormap(c)
      PROVE  SettleInv'
  BY <1>0, <1>2, RenderActiveSettle DEF FlipColormap
<1>3. CASE ToggleZone \/ GestureOnMap \/ AskRecut \/ MapFrame \/ UNCHANGED vars
  BY <1>3, KeptSettle DEF ToggleZone, GestureOnMap, AskRecut, MapFrame, RenderMap, vars
<1>4. ASSUME NEW n \in 1..MaxCuts, RecutAnswered(n)
      PROVE  SettleInv'
  BY <1>0, <1>4, RenderVolumeSettle DEF RecutAnswered
<1>5. ASSUME NEW n \in 1..MaxCuts, RecutFailed(n)
      PROVE  SettleInv'
  BY <1>5, KeptSettle DEF RecutFailed
<1>6. ASSUME NEW v \in Env, NEW c \in Colormaps, BinArrived(v, c) \/ BinFailed(v, c)
      PROVE  FALSE
  BY <1>0, <1>6 DEF BinArrived, BinFailed
<1>7. CASE WorkerStep
  BY <1>7, WorkerStepSettle
<1>8. CASE OnMessage
  BY <1>8, OnMessageSettle
<1>9. ASSUME OnError PROVE FALSE
  BY <1>0, <1>9 DEF OnError
<1>10. CASE WatchdogFires
  <2>1. vol3'.src \in {vol3.src, NoEnv}
    BY <1>10 DEF WatchdogFires, NullMesh
  <2>2. QED
    BY <1>10, <2>1, KeptSettle DEF WatchdogFires
<1>11. QED
  BY <1>1, <1>2, <1>3, <1>4, <1>5, <1>6, <1>7, <1>8, <1>9, <1>10 DEF Next, User, Server

(* However many decodes a burst of re-cuts leaves in the queues, the tab   *)
(* settles on the mesh of the last re-cut that the page adopted.           *)
THEOREM SettlesOnLatest == ASSUME OnlyInline PROVE Spec => []SettlesOnPayload
<1>1. TypeOK /\ TypeOK' /\ ColourInv /\ SettleInv /\ [Next]_vars => SettleInv'
  BY SettleStep
<1>2. TypeOK /\ ColourInv /\ SettleInv => SettlesOnPayload
  <2> SUFFICES ASSUME TypeOK, ColourInv, SettleInv, Settled, vol3 # NullMesh
               PROVE  vol3.src = payload /\ drawn.src = payload
    BY DEF SettlesOnPayload
  <2>1. ~Has(toWorker, "decode") /\ ~Has(toPage, "decoded")
    BY DEF Settled, Has
  <2>2. vol3.src # NoEnv /\ drawn.src = vol3.src
    BY DEF Settled, ColourInv, ShellOK
  <2>3. QED
    BY <2>1, <2>2 DEF SettleInv
<1>3. QED
  BY InitSettle, TypeCorrect, ColourSafe, <1>1, <1>2, PTL DEF Spec
=============================================================================
