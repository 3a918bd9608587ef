--------------------------- MODULE GiAccumProofs ---------------------------
(***************************************************************************)
(* Proofs about GiAccum, for every set of looks, cameras and filters and   *)
(* every cap: a history buffer holds samples of one image, a kept history  *)
(* is the aligned one of the frame before, and motion cuts it.             *)
(*                                                                         *)
(* OneImage is not inductive: that a frame may keep the history depends on *)
(* what the keys of the last frame say of the buffer it left.  KeyInv says *)
(* it: unless an edit dropped the key, the buffer the next frame reads     *)
(* holds the one image the keys and the renderer's switches describe, and  *)
(* was shot from the camera of the last frame.                             *)
(***************************************************************************)
EXTENDS GiAccum, FiniteSetTheorems, TLAPS

\* The image the last frame's keys describe.
KeyMultipass ==
    DenoiseReady /\ accKey.scene[3] # "NONE" /\ accKey.scene[2] = "QUALITY"

KeyQuantity ==
    IF KeyMultipass THEN "indirect" ELSE IF flags["giDebug"] THEN "bounce" ELSE "full"

KeyImage == [look |-> accKey.scene[1], quantity |-> KeyQuantity, geometry |-> geometry]

History == accum[Other(accumPair)]

\* The keys are those of the last frame, whose camera prevVP is.
KeyInv ==
    accHave => /\ accKey.cam = prevVP
               /\ accKey.scene[2] = "QUALITY"
                     => /\ History.of = {KeyImage}
                        /\ History.view[1] = prevVP

Single == \A b \in {0, 1} : \E image : accum[b].of = {image}

IInv == TypeOK /\ DOMAIN accum = {0, 1} /\ Single /\ KeyInv

-----------------------------------------------------------------------------
\* The buffer a frame reads is not the one it writes.
LEMMA OtherBuffer ==
    ASSUME NEW b \in {0, 1}
    PROVE  Other(b) \in {0, 1} /\ Other(b) # b /\ Other(Other(b)) = b
  BY DEF Other

\* The key is a sequence of the scene's three parts.
LEMMA KeyParts ==
    /\ SceneKey(Scene)[1] = Scene.look
    /\ SceneKey(Scene)[2] = Scene.mode
    /\ SceneKey(Scene)[3] = Scene.denoiser
  BY DEF SceneKey

\* No switch toggled: the renderer's copies are the settings.
LEMMA SameFlags ==
    ASSUME TypeOK, Toggled = {}
    PROVE  settings.flags["giDebug"] = flags["giDebug"]
  BY DEF TypeOK, Toggled, Flags

\* A frame that keeps history accumulates the image its keys describe, in QUALITY.
LEMMA KeptImage ==
    ASSUME IInv, NextAccumFrame # 0
    PROVE  /\ Scene.mode = "QUALITY"
           /\ History.of = {Image}
           /\ History.view[1] = prevVP
           /\ accKey.cam = prevVP
  <1>1. Keeps
    BY DEF NextAccumFrame
  <1>2. /\ Scene.mode = "QUALITY"
        /\ accHave
        /\ Toggled = {}
        /\ SceneKey(Scene) = accKey.scene
    BY <1>1 DEF Keeps, SceneSame
  <1>3. accKey.scene[2] = "QUALITY"
    BY <1>2, KeyParts
  <1>4. /\ History.of = {KeyImage}
        /\ History.view[1] = prevVP
        /\ accKey.cam = prevVP
    BY <1>2, <1>3 DEF IInv, KeyInv
  <1>5. settings.flags["giDebug"] = flags["giDebug"]
    BY <1>2, SameFlags DEF IInv
  <1>6. KeyMultipass = Multipass
    BY <1>2, KeyParts DEF KeyMultipass, Multipass
  <1>7. KeyQuantity = Quantity
    BY <1>5, <1>6 DEF KeyQuantity, Quantity
  <1>8. KeyImage = Image
    BY <1>2, <1>7, KeyParts DEF KeyImage, Image
  <1> QED
    BY <1>2, <1>4, <1>8

\* What a frame leaves in the buffer it wrote, in QUALITY.
LEMMA BlendImage ==
    ASSUME IInv, NEW histMax, NEW valid
    PROVE  Blend(Kept(histMax, valid)).of = {Image}
  <1>1. CASE Kept(histMax, valid) = 0
    BY <1>1 DEF Blend
  <1>2. CASE Kept(histMax, valid) # 0
    <2>1. NextAccumFrame # 0
      BY <1>2 DEF Kept
    <2>2. accum[Other(accumPair)].of = {Image}
      BY <2>1, KeptImage DEF History
    <2> QED
      BY <1>2, <2>2 DEF Blend
  <1> QED
    BY <1>1, <1>2

\* A frame keeps at most the cap's number of samples, and none from nothing.
LEMMA KeptRange ==
    ASSUME TypeOK, NEW histMax \in HistMaxes, NEW valid
    PROVE  /\ Kept(histMax, valid) \in 0..StillCap
           /\ settings.flags["giDenoise"] => Kept(histMax, valid) <= histMax
  <1>1. histMax \in 1..StillCap
    BY GiAssumption DEF HistMaxes
  <1>2. Cap(histMax) \in 1..StillCap /\ (settings.flags["giDenoise"] => Cap(histMax) = histMax)
    BY <1>1, GiAssumption DEF Cap
  <1>3. accum[Other(accumPair)].n \in 1..(StillCap + 1)
    BY OtherBuffer DEF TypeOK
  <1> DEFINE n == accum[Other(accumPair)].n
             c == Cap(histMax)
  <1>4. Lesser(n, c) \in 0..StillCap /\ Lesser(n, c) <= c
    <2> HIDE DEF n, c
    <2>1. n \in 1..(StillCap + 1) /\ c \in 1..StillCap
      BY <1>2, <1>3 DEF n, c
    <2> QED
      BY <2>1, GiAssumption DEF Lesser
  <1>5. Kept(histMax, valid) = 0 \/ Kept(histMax, valid) = Lesser(n, c)
    BY DEF Kept
  <1> QED
    BY <1>1, <1>2, <1>4, <1>5, GiAssumption

-----------------------------------------------------------------------------
(* The invariant holds at the start and every step keeps it. *)

LEMMA InitIInv == Init => IInv
  <1> SUFFICES ASSUME Init PROVE IInv
    OBVIOUS
  <1>1. settings \in Settings
    BY GiAssumption DEF Init
  <1>2. TypeOK
    <2>1. flags \in [Flags -> BOOLEAN]
      BY DEF Init
    <2>2. prevVP \in Cameras
      BY <1>1 DEF Init, Settings
    <2>3. \A b \in {0, 1} : accum[b].n \in 1..(StillCap + 1)
      BY GiAssumption DEF Init
    <2>4. /\ geometry \in Geometry
          /\ accumFrame \in 0..(FrameModulus - 1)
          /\ accumPair \in {0, 1}
          /\ tunes \in 0..MaxTunes
      BY GiAssumption DEF Init, Geometry
    <2>5. accHave \in BOOLEAN
      BY Zenon DEF Init
    <2> QED
      BY <1>1, <2>1, <2>2, <2>3, <2>4, <2>5 DEF TypeOK
  <1>3. DOMAIN accum = {0, 1} /\ Single
    BY DEF Init, Single
  <1>4. KeyInv
    BY DEF Init, KeyInv
  <1> QED
    BY <1>2, <1>3, <1>4 DEF IInv

\* A frame writes at most the one buffer that the next frame reads.
LEMMA FrameAccum ==
    ASSUME IInv, Frame
    PROVE  \E histMax \in HistMaxes, valid \in HistValid :
              /\ accum' = Shaded(histMax, valid)
              /\ Scene.mode = "QUALITY"
                   => accum'[accumPair] = Blend(Kept(histMax, valid))
              /\ accum'[Other(accumPair)] = accum[Other(accumPair)]
              /\ Scene.mode # "QUALITY" => accum' = accum
              /\ DOMAIN accum' = {0, 1}
  <1>1. PICK histMax \in HistMaxes, valid \in HistValid : accum' = Shaded(histMax, valid)
    BY DEF Frame
  <1>2. accumPair \in {0, 1} /\ DOMAIN accum = {0, 1}
    BY DEF IInv, TypeOK
  <1> DEFINE new == Blend(Kept(histMax, valid))
  <1>3. accum' = IF Scene.mode = "QUALITY" THEN [accum EXCEPT ![accumPair] = new] ELSE accum
    BY <1>1 DEF Shaded
  <1>4. Other(accumPair) \in {0, 1} /\ Other(accumPair) # accumPair
    BY <1>2, OtherBuffer
  <1>5. /\ Scene.mode = "QUALITY" => accum'[accumPair] = new
        /\ accum'[Other(accumPair)] = accum[Other(accumPair)]
        /\ Scene.mode # "QUALITY" => accum' = accum
        /\ DOMAIN accum' = {0, 1}
    <2> HIDE DEF new
    <2> QED
      BY <1>2, <1>3, <1>4
  <1> QED
    BY <1>1, <1>5

LEMMA FrameIInv ==
    ASSUME IInv, Frame
    PROVE  IInv'
  <1>1. PICK histMax \in HistMaxes, valid \in HistValid :
              /\ accum' = Shaded(histMax, valid)
              /\ Scene.mode = "QUALITY"
                   => accum'[accumPair] = Blend(Kept(histMax, valid))
              /\ accum'[Other(accumPair)] = accum[Other(accumPair)]
              /\ Scene.mode # "QUALITY" => accum' = accum
              /\ DOMAIN accum' = {0, 1}
    BY FrameAccum
  <1>2. /\ accumPair \in {0, 1}
        /\ accumPair' = Other(accumPair)
        /\ Other(accumPair') = accumPair
        /\ {0, 1} = {accumPair, Other(accumPair)}
    BY OtherBuffer DEF IInv, TypeOK, Frame, NextPair, Other
  <1>3. Blend(Kept(histMax, valid)).of = {Image}
    BY BlendImage
  <1>4. TypeOK'
    <2>1. settings' \in Settings /\ flags' \in [Flags -> BOOLEAN] /\ prevVP' \in Cameras
      BY DEF IInv, TypeOK, Frame, Settings
    <2>2. \A b \in {0, 1} : accum'[b].n \in 1..(StillCap + 1)
      <3>1. Kept(histMax, valid) \in 0..StillCap
        BY KeptRange DEF IInv
      <3>2. Blend(Kept(histMax, valid)).n = Kept(histMax, valid) + 1
        BY DEF Blend
      <3>3. accum'[accumPair].n \in 1..(StillCap + 1)
        <4>1. CASE Scene.mode = "QUALITY"
          BY <1>1, <3>1, <3>2, <4>1, GiAssumption
        <4>2. CASE Scene.mode # "QUALITY"
          BY <1>1, <1>2, <4>2 DEF IInv, TypeOK
        <4> QED
          BY <4>1, <4>2
      <3>4. accum'[Other(accumPair)].n \in 1..(StillCap + 1)
        BY <1>1, <1>2 DEF IInv, TypeOK
      <3> QED
        BY <1>2, <3>3, <3>4
    <2>3. accumFrame' \in 0..(FrameModulus - 1)
      BY GiAssumption DEF IInv, TypeOK, Frame, NextAccumFrame
    <2>4. /\ geometry' \in Geometry
          /\ accHave' \in BOOLEAN
          /\ accumPair' \in {0, 1}
          /\ tunes' \in 0..MaxTunes
      BY <1>2, OtherBuffer DEF IInv, TypeOK, Frame
    <2> QED
      BY <2>1, <2>2, <2>3, <2>4 DEF TypeOK
  <1>5. Single'
    <2>1. \E image : accum'[accumPair].of = {image}
      BY <1>1, <1>2, <1>3 DEF IInv, Single
    <2>2. \E image : accum'[Other(accumPair)].of = {image}
      BY <1>1, <1>2 DEF IInv, Single
    <2> QED
      BY <1>2, <2>1, <2>2 DEF Single
  <1>6. KeyInv'
    <2>1. /\ accKey'.cam = prevVP'
          /\ accKey'.scene = SceneKey(Scene)
          /\ prevVP' = settings.cam
          /\ flags' = settings.flags
          /\ geometry' = geometry
      BY DEF Frame
    <2>2. SUFFICES ASSUME accKey'.scene[2] = "QUALITY"
                   PROVE  History'.of = {KeyImage'} /\ History'.view[1] = prevVP'
      BY <2>1 DEF KeyInv
    <2>3. Scene.mode = "QUALITY"
      BY <2>1, <2>2, KeyParts
    <2>4. History' = Blend(Kept(histMax, valid))
      BY <1>1, <1>2, <2>3 DEF History
    <2>5. KeyMultipass' = Multipass
      BY <2>1, KeyParts DEF KeyMultipass, Multipass
    <2>6. KeyQuantity' = Quantity
      BY <2>1, <2>5 DEF KeyQuantity, Quantity
    <2>7. KeyImage' = Image
      BY <2>1, <2>6, KeyParts DEF KeyImage, Image
    <2>8. Blend(Kept(histMax, valid)).view[1] = settings.cam
      BY DEF Blend, View
    <2> QED
      BY <1>3, <2>1, <2>4, <2>7, <2>8
  <1> QED
    BY <1>1, <1>4, <1>5, <1>6 DEF IInv

LEMMA EditVoxelsIInv ==
    ASSUME IInv, EditVoxels
    PROVE  IInv'
  <1>1. geometry' \in Geometry
    BY GiAssumption DEF IInv, TypeOK, EditVoxels, Geometry
  <1>2. accumFrame' \in 0..(FrameModulus - 1)
    BY GiAssumption DEF EditVoxels
  <1>3. accHave' = FALSE
    BY DEF EditVoxels
  <1>4. UNCHANGED <<settings, flags, accKey, prevVP, accumPair, accum, tunes>>
    BY DEF EditVoxels
  <1>5. TypeOK'
    BY <1>1, <1>2, <1>3, <1>4, Zenon DEF IInv, TypeOK
  <1>6. DOMAIN accum' = {0, 1} /\ Single'
    BY <1>4 DEF IInv, Single
  <1>7. KeyInv'
    BY <1>3 DEF KeyInv
  <1> QED
    BY <1>5, <1>6, <1>7 DEF IInv

\* The settings may become anything of their type: the invariant speaks of the keys.
LEMMA ChangeIInv ==
    ASSUME IInv, NEW new \in Settings, Change(new)
    PROVE  IInv'
  <1>1. settings' \in Settings
    BY DEF Change
  <1>2. tunes' \in 0..MaxTunes
    BY GiAssumption DEF IInv, TypeOK, Change
  <1>3. UNCHANGED <<geometry, flags, accumFrame, accHave, accKey, prevVP, accumPair, accum>>
    BY DEF Change
  <1>4. TypeOK'
    BY <1>1, <1>2, <1>3, Zenon DEF IInv, TypeOK
  <1>5. DOMAIN accum' = {0, 1} /\ Single'
    BY <1>3 DEF IInv, Single
  <1>6. KeyInv'
    BY <1>3 DEF IInv, KeyInv, History, KeyImage, KeyQuantity, KeyMultipass
  <1> QED
    BY <1>4, <1>5, <1>6 DEF IInv

\* Whatever a command changes, the settings keep their type.
LEMMA TuningChanges ==
    ASSUME TypeOK, Tune \/ TunePhi \/ Toggle \/ MoveCamera
    PROVE  \E new \in Settings : Change(new)
  <1>1. settings \in Settings
    BY DEF TypeOK
  <1>2. CASE Tune
    <2>1. PICK scene \in Scenes : Change([settings EXCEPT !.scene = scene])
      BY <1>2 DEF Tune
    <2>2. [settings EXCEPT !.scene = scene] \in Settings
      BY <1>1 DEF Settings
    <2> QED
      BY <2>1, <2>2
  <1>3. CASE TunePhi
    <2>1. PICK phi \in Phis : Change([settings EXCEPT !.phi = phi])
      BY <1>3 DEF TunePhi
    <2>2. [settings EXCEPT !.phi = phi] \in Settings
      BY <1>1 DEF Settings
    <2> QED
      BY <2>1, <2>2
  <1>4. CASE MoveCamera
    <2>1. PICK cam \in Cameras : Change([settings EXCEPT !.cam = cam])
      BY <1>4 DEF MoveCamera
    <2>2. [settings EXCEPT !.cam = cam] \in Settings
      BY <1>1 DEF Settings
    <2> QED
      BY <2>1, <2>2
  <1>5. CASE Toggle
    <2>1. PICK f \in Flags : Change([settings EXCEPT !.flags[f] = ~@])
      BY <1>5 DEF Toggle
    <2> DEFINE turned == [settings.flags EXCEPT ![f] = ~@]
    <2>2. turned \in [Flags -> BOOLEAN]
      BY <1>1 DEF Settings
    <2>3. [settings EXCEPT !.flags[f] = ~@] = [settings EXCEPT !.flags = turned]
      BY <1>1, Zenon DEF Settings
    <2>4. [settings EXCEPT !.flags = turned] \in Settings
      <3> HIDE DEF turned
      <3> QED
        BY <1>1, <2>2 DEF Settings
    <2> QED
      BY <2>1, <2>3, <2>4
  <1> QED
    BY <1>2, <1>3, <1>4, <1>5

LEMMA StutterIInv ==
    ASSUME IInv, UNCHANGED vars
    PROVE  IInv'
  <1>1. TypeOK'
    BY Zenon DEF IInv, TypeOK, vars
  <1>2. DOMAIN accum' = {0, 1} /\ Single'
    BY DEF IInv, Single, vars
  <1>3. KeyInv'
    BY DEF IInv, KeyInv, History, KeyImage, KeyQuantity, KeyMultipass, vars
  <1> QED
    BY <1>1, <1>2, <1>3 DEF IInv

LEMMA NextIInv == IInv /\ [Next]_vars => IInv'
  <1> SUFFICES ASSUME IInv, [Next]_vars PROVE IInv'
    OBVIOUS
  <1>1. CASE Frame
    BY <1>1, FrameIInv
  <1>2. CASE EditVoxels
    BY <1>2, EditVoxelsIInv
  <1>3. CASE Tune \/ TunePhi \/ Toggle \/ MoveCamera
    BY <1>3, TuningChanges, ChangeIInv DEF IInv
  <1>4. CASE UNCHANGED vars
    BY <1>4, StutterIInv
  <1> QED
    BY <1>1, <1>2, <1>3, <1>4 DEF Next

LEMMA Inductive == Spec => []IInv
  <1> QED
    BY InitIInv, NextIInv, PTL DEF Spec

-----------------------------------------------------------------------------
\* TypeOK for every instance: accumFrame wraps in its range, and no average counts
\* more samples than the still cap and the new one.
THEOREM TypeCorrect == Spec => []TypeOK
  <1>1. IInv => TypeOK
    BY DEF IInv
  <1> QED
    BY <1>1, Inductive, PTL

\* RenderFrame and the setters drop the history whenever what is accumulated
\* changes: no buffer ever mixes the samples of two images.
THEOREM OneImageCorrect == Spec => []OneImage
  <1>1. IInv => OneImage
    <2> SUFFICES ASSUME IInv, NEW b \in {0, 1} PROVE Cardinality(accum[b].of) = 1
      BY DEF OneImage
    <2>1. PICK image : accum[b].of = {image}
      BY DEF IInv, Single
    <2> QED
      BY <2>1, FS_Singleton
  <1> QED
    BY <1>1, Inductive, PTL

\* Only a frame swaps the buffers.
LEMMA SwapIsFrame ==
    ASSUME [Next]_vars, accumPair' # accumPair
    PROVE  Frame
  BY DEF Next, EditVoxels, Tune, TunePhi, Toggle, MoveCamera, Change, vars

\* A frame that keeps history (accumFrame > 0) realigns the buffer of the frame
\* just before it with the camera that buffer was rendered from.
THEOREM HistoryCorrect == Spec => HistoryAligned
  <1>1. IInv /\ [Next]_vars
          => (accumPair' # accumPair /\ accumFrame' # 0
                => accum[Other(accumPair)].view[1] = prevVP)
    <2> SUFFICES ASSUME IInv, [Next]_vars, accumPair' # accumPair, accumFrame' # 0
                 PROVE  accum[Other(accumPair)].view[1] = prevVP
      OBVIOUS
    <2>1. NextAccumFrame # 0
      BY SwapIsFrame DEF Frame
    <2> QED
      BY <2>1, KeptImage DEF History
  <1> QED
    BY <1>1, Inductive, PTL DEF HistoryAligned, Spec

\* A frame from a new camera position cuts the kept history to the moving cap, while
\* the denoise switch is on.
THEOREM MotionCorrect == Spec => MotionForgets
  <1>1. IInv /\ [Next]_vars
          => (accumPair' # accumPair /\ accumFrame' # 0 /\ settings.cam # prevVP
                /\ flags'["giDenoise"]
                  => accum'[accumPair].n <= StillCap)
    <2> SUFFICES ASSUME IInv, [Next]_vars, accumPair' # accumPair, accumFrame' # 0,
                        settings.cam # prevVP, flags'["giDenoise"]
                 PROVE  accum'[accumPair].n <= StillCap
      OBVIOUS
    <2>1. Frame
      BY SwapIsFrame
    <2>2. NextAccumFrame # 0 /\ settings.flags["giDenoise"]
      BY <2>1 DEF Frame
    <2>3. Scene.mode = "QUALITY" /\ accKey.cam = prevVP
      BY <2>2, KeptImage
    <2>4. PICK histMax \in HistMaxes, valid \in HistValid :
                 accum'[accumPair] = Blend(Kept(histMax, valid))
      BY <2>1, <2>3, FrameAccum
    <2>5. histMax \in 1..(StillCap - 1)
      BY <2>3, GiAssumption DEF HistMaxes, CamSame
    <2>6. Kept(histMax, valid) \in 0..StillCap /\ Kept(histMax, valid) <= histMax
      BY <2>2, KeptRange DEF IInv
    <2>7. accum'[accumPair].n = Kept(histMax, valid) + 1
      BY <2>4 DEF Blend
    <2> QED
      BY <2>5, <2>6, <2>7, GiAssumption
  <1> QED
    BY <1>1, Inductive, PTL DEF MotionForgets, Spec
=============================================================================
