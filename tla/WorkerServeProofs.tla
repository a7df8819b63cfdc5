------------------------- MODULE WorkerServeProofs -------------------------
(***************************************************************************)
(* Proofs about WorkerServe for any configs, scenes and frame sizes.       *)
(***************************************************************************)
EXTENDS WorkerServe, TLAPS

(* Labels and runtime agree also while there is no session or a torn one:  *)
(* otherwise a load into an adapter that was kept would be labelled with   *)
(* another one.                                                            *)
AdapterOK ==
  adapter # None =>
    /\ adapter.rt = labels.rt
    /\ adapter.rt \in AdapterTable
    /\ adapter.session # None /\ ~Torn(adapter) =>
         /\ adapter.session = Session(labels.model, labels.device)
         /\ ReadAsLoaded(adapter)

(* Without a tracker no frame has been counted, so that a new one's ticks  *)
(* start with the count.                                                   *)
TicksOK ==
  /\ tracker = None => frames = 0
  /\ tracker # None => tracker.ticks = frames

(* Cached polygons are those of the regions in force.                      *)
CacheOK ==
  \A s \in Scales :
    \/ cache[s] = None
    \/ cache[s] = [incl |-> ToPixels(regions.incl, s),
                   excl |-> ToPixels(regions.excl, s)]

IInv ==
  TypeOK /\ AdapterOK /\ ConfigTakesEffect /\ TicksOK /\ CacheOK
  /\ ReportsWhatIsAllowed /\ UntickedNeverReported

-----------------------------------------------------------------------------
LabelStates == [rt : Runtimes, model : Models \cup {None},
                device : Devices \cup {None}]

(* AdapterOK of an adapter and labels on their own.                        *)
Agree(a, l) ==
  /\ a.rt = l.rt
  /\ a.rt \in AdapterTable
  /\ a.session # None /\ ~Torn(a) =>
       /\ a.session = Session(l.model, l.device)
       /\ ReadAsLoaded(a)

(* AdapterOK, before and after a step, in terms of adapter and labels.     *)
LEMMA AgreeMeansOK ==
  /\ AdapterOK <=> (adapter # None => Agree(adapter, labels))
  /\ AdapterOK' <=> (adapter' # None => Agree(adapter', labels'))
  BY DEF AdapterOK, Agree

(* What a config leaves of the adapter and the labels before it loads.     *)
LEMMA SwapKeepsTypes ==
  ASSUME TypeOK, AdapterOK, NEW c \in Configs, CanMake(c)
  PROVE  /\ AdapterFor(c) \in AdapterStates /\ AdapterFor(c) # None
         /\ AdapterFor(c).rt = c.rt /\ LabelsFor(c).rt = c.rt
         /\ LabelsFor(c) \in LabelStates
         /\ Agree(AdapterFor(c), LabelsFor(c))
  <1>1. c.rt \in Runtimes
    BY DEF Runtimes
  <1>2. CASE Swaps(c)
    <2>1. AdapterFor(c) = MakeAdapter(c.rt) /\ c.rt \in AdapterTable
      BY <1>2 DEF AdapterFor, CanMake
    <2>2. MakeAdapter(c.rt) \in AdapterStates
      BY <1>1 DEF MakeAdapter, AdapterStates, RawLayouts
    <2>3. MakeAdapter(c.rt) # None
      BY <2>2, NoneAssumption
    <2>4. LabelsFor(c) = [rt |-> c.rt, model |-> None, device |-> None]
      BY <1>2 DEF LabelsFor, Relabelled, NoLabels
    <2>5. Agree(AdapterFor(c), LabelsFor(c))
      BY <2>1, <2>4 DEF Agree, MakeAdapter
    <2>. QED BY <1>1, <2>1, <2>2, <2>3, <2>4, <2>5 DEF LabelStates, MakeAdapter
  <1>3. CASE ~Swaps(c)
    <2>1. adapter # None /\ c.rt = labels.rt
      BY <1>3 DEF Swaps
    <2>2. AdapterFor(c) = adapter /\ LabelsFor(c) = labels
      BY <1>3 DEF AdapterFor, LabelsFor
    <2>3. Agree(adapter, labels)
      BY <2>1, AgreeMeansOK
    <2>. QED BY <2>1, <2>2, <2>3 DEF TypeOK, LabelStates, Agree
  <1>. QED BY <1>2, <1>3

(* What a load leaves behind: an adapter of the same runtime, which agrees *)
(* with the old labels if load() raised and with the new ones if not.      *)
LEMMA LoadOutcomeOK ==
  ASSUME NEW a \in AdapterStates, NEW l \in LabelStates, Agree(a, l),
         NEW c \in Configs, c.model # None,
         NEW o \in LoadOutcomes(a, c.model, c.device)
  PROVE  /\ o.adapter \in AdapterStates
         /\ o.raised => Agree(o.adapter, l)
         /\ ~o.raised =>
              LET new == [l EXCEPT !.model = c.model, !.device = c.device]
              IN  /\ new \in LabelStates
                  /\ Agree(o.adapter, new)
                  /\ ~Torn(o.adapter)
                  /\ o.adapter.session = Session(c.model, c.device)
                  /\ ReadAsLoaded(o.adapter)
  <1> DEFINE ses == Session(c.model, c.device)
             new == [l EXCEPT !.model = c.model, !.device = c.device]
             taken == [a EXCEPT !.session = ses]
             full == [taken EXCEPT !.layout = LayoutOf[c.model]]
  <1>1. ses \in Sessions /\ c.model \in Models /\ c.device \in Devices
    BY DEF Session, Sessions, Models, Devices
  <1>2. LayoutOf[c.model] \in RawLayouts
    BY ConfigAssumption, LayoutAssumption
  <1>3. /\ taken \in AdapterStates /\ taken.rt = a.rt
        /\ taken.session = ses /\ taken.layout = a.layout
    BY <1>1 DEF AdapterStates
  <1>4. /\ full \in AdapterStates /\ full.rt = a.rt
        /\ full.session = ses /\ full.layout = LayoutOf[c.model]
    BY <1>1, <1>2, <1>3 DEF AdapterStates
  <1>5. new \in LabelStates /\ new.rt = l.rt /\ new.model = c.model
        /\ new.device = c.device
    BY <1>1 DEF LabelStates
  <1>6. ses # None /\ ses.model = c.model
    BY <1>1, NoneAssumption DEF Session
  <1>7. \/ o = [adapter |-> a, raised |-> TRUE]
        \/ /\ a.rt = "onnx"
           /\ o = [adapter |-> full, raised |-> FALSE]
        \/ /\ a.rt = "openvino" /\ c.model \in Unranked
           /\ o = [adapter |-> taken, raised |-> TRUE]
        \/ /\ a.rt = "openvino" /\ c.model \notin Unranked
           /\ o = [adapter |-> full, raised |-> FALSE]
        \/ /\ a.rt \in Ultralytics
           /\ o = [adapter |-> taken, raised |-> FALSE]
    <2>1. a.rt \in AdapterTable
      BY DEF Agree
    <2>2. [a EXCEPT !.session = ses, !.layout = LayoutOf[c.model]] = full
      BY DEF AdapterStates
    <2>3. CASE a.rt = "onnx"
      BY <2>2, <2>3 DEF LoadOutcomes, OnnxLoad, Done, Raised
    <2>4. CASE a.rt = "openvino"
      BY <2>4 DEF LoadOutcomes, OpenvinoLoad, Done, Raised
    <2>5. CASE a.rt = "tensorrt"
      BY <2>5 DEF Ultralytics, LoadOutcomes, TensorrtLoad, Done, Raised
    <2>6. CASE a.rt = "pytorch"
      BY <2>6 DEF Ultralytics, LoadOutcomes, PytorchLoad, Done, Raised
    <2>. QED BY <2>1, <2>3, <2>4, <2>5, <2>6 DEF AdapterTable
  <1>8. CASE o = [adapter |-> a, raised |-> TRUE]
    BY <1>8
  <1>9. CASE a.rt = "onnx" /\ o = [adapter |-> full, raised |-> FALSE]
    BY <1>9, <1>4, <1>5, <1>6 DEF Agree, Torn, ReadAsLoaded, Session, AdapterTable
  <1>10. CASE /\ a.rt = "openvino" /\ c.model \in Unranked
              /\ o = [adapter |-> taken, raised |-> TRUE]
    <2>1. Torn(taken)
      BY <1>10, <1>3, <1>6, NoneAssumption DEF Torn
    <2>. QED BY <1>10, <1>3, <2>1 DEF Agree
  <1>11. CASE /\ a.rt = "openvino" /\ c.model \notin Unranked
              /\ o = [adapter |-> full, raised |-> FALSE]
    BY <1>11, <1>4, <1>5, <1>6 DEF Agree, Torn, ReadAsLoaded, Session, AdapterTable
  <1>12. CASE /\ a.rt \in Ultralytics
              /\ o = [adapter |-> taken, raised |-> FALSE]
    BY <1>12, <1>3, <1>5, <1>6 DEF Ultralytics, Agree, Torn, ReadAsLoaded, Session, AdapterTable
  <1>. QED BY <1>7, <1>8, <1>9, <1>10, <1>11, <1>12

(* The parameters a config sets are of their types.                        *)
LEMMA ParamsKeepTypes ==
  ASSUME TypeOK, TicksOK, NEW c \in Configs, Params(c)
  PROVE  /\ filter' = None \/ filter' \subseteq Cls
         /\ regions'.roi \in Crops \cup {None}
         /\ regions'.incl = None \/ regions'.incl \subseteq Cols
         /\ regions'.excl = None \/ regions'.excl \subseteq Cols
         /\ DOMAIN cache' = Scales
         /\ tracker' \in Trackers /\ ticked' \in BOOLEAN
         /\ frames' \in 0..MaxTicks
         /\ reply' = None
         /\ TicksOK' /\ CacheOK'
  <1>1. /\ filter' = None \/ filter' \subseteq Cls
        /\ regions'.roi \in Crops \cup {None}
        /\ regions'.incl = None \/ regions'.incl \subseteq Cols
        /\ regions'.excl = None \/ regions'.excl \subseteq Cols
    BY ConfigAssumption DEF Params, NamesToIds
  <1>2. c.maxAge \in Nat
    BY ConfigAssumption
  <1>3. tracker' \in Trackers /\ tracker'.ticks = frames'
    <2>1. frames' = frames /\ tracker' = WithParams(c)
      BY DEF Params
    <2>2. CASE tracker = None
      BY <1>2, <2>1, <2>2 DEF WithParams, Trackers, TicksOK
    <2>3. CASE tracker # None
      <3>1. tracker \in [maxAge : Nat, ticks : Nat] /\ tracker.ticks = frames
        BY <2>3 DEF TypeOK, TicksOK, Trackers
      <3>. QED BY <1>2, <2>1, <2>3, <3>1 DEF WithParams, Trackers
    <2>. QED BY <2>2, <2>3
  <1>4. tracker' # None
    BY <1>3, NoneAssumption
  <1>5. DOMAIN cache' = Scales /\ CacheOK'
    BY DEF Params, CacheOK
  <1>6. frames' \in 0..MaxTicks /\ ticked' \in BOOLEAN /\ reply' = None
    BY DEF Params, TypeOK
  <1>. QED BY <1>1, <1>3, <1>4, <1>5, <1>6 DEF TicksOK

(* A config step, whatever its outcome.                                    *)
ConfigActions(c) ==
  \/ ConfigKeeps(c) \/ AdapterFails(c)
  \/ \E o \in LoadOutcomes(AdapterFor(c), c.model, c.device) :
       LoadWorks(c, o) \/ LoadFails(c, o)

(* A config, whatever becomes of its adapter and its model.                *)
LEMMA ConfigStep ==
  ASSUME IInv, NEW c \in Configs, ConfigActions(c)
  PROVE  IInv'
  <1>1. Params(c)
    BY DEF ConfigActions, ConfigKeeps, AdapterFails, LoadWorks, LoadFails, Loads
  <1>2. CanMake(c) =>
          /\ AdapterFor(c) \in AdapterStates /\ AdapterFor(c) # None
          /\ AdapterFor(c).rt = c.rt /\ LabelsFor(c).rt = c.rt
          /\ LabelsFor(c) \in LabelStates
          /\ Agree(AdapterFor(c), LabelsFor(c))
    BY SwapKeepsTypes DEF IInv
  <1>4. /\ adapter' \in AdapterStates \cup {None}
        /\ labels' \in LabelStates
        /\ asked' \in Configs \cup {None}
        /\ AdapterOK' /\ ConfigTakesEffect'
    <2>1. ASSUME NEW o \in LoadOutcomes(AdapterFor(c), c.model, c.device),
                 LoadWorks(c, o) \/ LoadFails(c, o)
          PROVE  /\ adapter' \in AdapterStates \cup {None}
                 /\ labels' \in LabelStates
                 /\ asked' \in Configs \cup {None}
                 /\ AdapterOK' /\ ConfigTakesEffect'
      <3>1. CanMake(c) /\ c.model # None /\ adapter' = o.adapter
        BY <2>1 DEF LoadWorks, LoadFails, Loads, NeedLoad
      <3>2. /\ o.adapter \in AdapterStates
            /\ o.raised => Agree(o.adapter, LabelsFor(c))
            /\ ~o.raised =>
                 LET new == [LabelsFor(c) EXCEPT !.model = c.model, !.device = c.device]
                 IN  /\ new \in LabelStates
                     /\ Agree(o.adapter, new)
                     /\ ~Torn(o.adapter)
                     /\ o.adapter.session = Session(c.model, c.device)
                     /\ ReadAsLoaded(o.adapter)
        BY <1>2, <3>1, LoadOutcomeOK
      <3>3. CASE LoadWorks(c, o)
        <4> DEFINE new == [LabelsFor(c) EXCEPT !.model = c.model, !.device = c.device]
        <4>1. ~o.raised /\ labels' = new /\ asked' = c
          BY <3>3 DEF LoadWorks
        <4>2. AdapterOK'
          BY <3>1, <3>2, <4>1, AgreeMeansOK
        <4>3. o.adapter.rt = c.rt
          BY <1>2, <3>1, <3>2, <4>1 DEF Agree, LabelStates
        <4>4. o.adapter # None
          BY <3>2, NoneAssumption
        <4>5. ConfigTakesEffect'
          BY <3>1, <3>2, <4>1, <4>3, <4>4 DEF ConfigTakesEffect, ReadAsLoaded
        <4>. QED BY <3>1, <3>2, <4>1, <4>2, <4>5
      <3>4. CASE LoadFails(c, o)
        <4>1. o.raised /\ labels' = LabelsFor(c) /\ asked' = None
          BY <3>4 DEF LoadFails
        <4>2. AdapterOK'
          BY <3>1, <3>2, <4>1, AgreeMeansOK
        <4>. QED BY <1>2, <3>1, <3>2, <4>1, <4>2 DEF ConfigTakesEffect
      <3>. QED BY <2>1, <3>3, <3>4
    <2>2. CASE ConfigKeeps(c)
      <3>1. /\ CanMake(c) /\ adapter' = AdapterFor(c) /\ labels' = LabelsFor(c)
            /\ asked' = c /\ ~NeedLoad(c)
        BY <2>2 DEF ConfigKeeps
      <3>2. c.model # None =>
              /\ AdapterFor(c).session # None
              /\ c.model = LabelsFor(c).model /\ c.device = LabelsFor(c).device
        BY <3>1 DEF NeedLoad
      <3>3. AdapterOK'
        BY <1>2, <3>1, AgreeMeansOK
      <3>4. ConfigTakesEffect'
        BY <1>2, <3>1, <3>2 DEF ConfigTakesEffect, Agree, ReadAsLoaded
      <3>. QED BY <1>2, <3>1, <3>3, <3>4
    <2>3. CASE AdapterFails(c)
      <3>1. adapter' = None /\ labels' = [labels EXCEPT !.rt = None] /\ asked' = None
        BY <2>3 DEF AdapterFails
      <3>2. None \in Runtimes
        BY DEF Runtimes
      <3>. QED BY <3>1, <3>2 DEF IInv, TypeOK, AdapterOK, ConfigTakesEffect, LabelStates
    <2>. QED BY <2>1, <2>2, <2>3 DEF ConfigActions
  <1>5. /\ filter' = None \/ filter' \subseteq Cls
        /\ regions'.roi \in Crops \cup {None}
        /\ regions'.incl = None \/ regions'.incl \subseteq Cols
        /\ regions'.excl = None \/ regions'.excl \subseteq Cols
        /\ DOMAIN cache' = Scales
        /\ tracker' \in Trackers /\ ticked' \in BOOLEAN
        /\ frames' \in 0..MaxTicks
        /\ reply' = None
        /\ TicksOK' /\ CacheOK'
    BY <1>1, ParamsKeepTypes DEF IInv
  <1>6. TypeOK'
    BY <1>4, <1>5 DEF TypeOK, LabelStates
  <1>7. ReportsWhatIsAllowed' /\ UntickedNeverReported'
    BY <1>5 DEF ReportsWhatIsAllowed, UntickedNeverReported
  <1>. QED BY <1>4, <1>5, <1>6, <1>7 DEF IInv

-----------------------------------------------------------------------------
(* A mask tells the same columns apart in pixels as it did before, and is  *)
(* there in pixels exactly if it was given.                                *)
LEMMA ProductsDiffer ==
  ASSUME NEW p \in Nat, NEW q \in Nat, NEW s \in Nat \ {0}, p * s = q * s
  PROVE  p = q
  BY SMT

(* A mask in pixels tells the same columns apart.                          *)
LEMMA PixelsFaithful ==
  ASSUME NEW mask, mask = None \/ mask \subseteq Cols,
         NEW s \in Scales, NEW col \in Cols
  PROVE  /\ ToPixels(mask, s) = None <=> mask = None
         /\ mask # None => (col * s \in ToPixels(mask, s) <=> col \in mask)
  <1>1. CASE mask = None
    BY <1>1 DEF ToPixels
  <1>2. CASE mask # None
    <2>1. mask \in SUBSET Cols /\ ToPixels(mask, s) = {p * s : p \in mask}
      BY <1>2 DEF ToPixels
    <2>2. ToPixels(mask, s) # None
      BY <2>1, NoneAssumption
    <2>3. s \in Nat \ {0} /\ col \in Nat /\ \A p \in mask : p \in Nat
      BY <2>1, GeometryAssumption DEF Cols
    <2>4. col * s \in ToPixels(mask, s) => col \in mask
      <3>1. SUFFICES ASSUME NEW p \in mask, col * s = p * s PROVE col \in mask
        BY <2>1
      <3>. QED BY <2>3, <3>1, ProductsDiffer
    <2>. QED BY <1>2, <2>1, <2>2, <2>4
  <1>. QED BY <1>1, <1>2

(* The polygons used for a frame are those of the regions in force, cached *)
(* or not.                                                                 *)
LEMMA PolygonsFresh ==
  ASSUME CacheOK, NEW s \in Scales
  PROVE  Polygons(s) = [incl |-> ToPixels(regions.incl, s),
                        excl |-> ToPixels(regions.excl, s)]
  BY DEF CacheOK, Polygons

(* The columns the model is given lie in the frame.                        *)
LEMMA CropType ==
  ASSUME TypeOK, NEW s \in Scales
  PROVE  /\ Crop(s).lo \in Nat /\ Crop(s).hi \in 0..Columns
         /\ Columns \in Nat
         /\ Crop(s) = Full => Crop(s).lo = 0 /\ Crop(s).hi = Columns
  <1>1. Full.lo = 0 /\ Full.hi = Columns /\ Columns \in Nat
    BY GeometryAssumption DEF Full
  <1>2. CASE Crop(s) = Full
    BY <1>1, <1>2
  <1>3. CASE Crop(s) # Full
    <2>1. regions.roi # None /\ Crop(s) = regions.roi
      BY <1>3 DEF Crop
    <2>2. regions.roi \in [lo : Cols, hi : 0..Columns]
      BY <2>1 DEF TypeOK, Crops
    <2>. QED BY <1>3, <2>1, <2>2, GeometryAssumption DEF Cols
  <1>. QED BY <1>2, <1>3

(* What an adapter that is not torn makes of an image, and what a torn one *)
(* may make of it at worst.                                                *)
LEMMA InferOutcomeOK ==
  ASSUME TypeOK, AdapterOK, Running # None,
         NEW seen, NEW places, seen \subseteq places,
         NEW found \in InferOutcomes(adapter, seen, places, filter)
  PROVE  /\ ~Torn(adapter) => found = Wanted(seen, filter)
         /\ found \subseteq Wanted(places, filter)
  <1>1. adapter # None /\ adapter.session # None /\ adapter.rt \in AdapterTable
    BY DEF Running, AdapterOK
  <1>2. Wanted(seen, filter) \subseteq Wanted(places, filter)
    BY DEF Wanted
  <1>3. CASE adapter.rt \in Ultralytics
    BY <1>2, <1>3 DEF Ultralytics, InferOutcomes, PytorchInfer, TensorrtInfer
  <1>4. CASE adapter.rt \in {"onnx", "openvino"}
    <2>1. found \in DecodeBoxes(adapter, seen, places, filter)
      BY <1>4 DEF InferOutcomes, OnnxInfer, OpenvinoInfer
    <2>2. found \subseteq Wanted(places, filter)
      BY <1>2, <2>1 DEF DecodeBoxes
    <2>3. ~Torn(adapter) => adapter.layout = LayoutOf[adapter.session.model]
      BY <1>1, <1>4 DEF AdapterOK, ReadAsLoaded, Ultralytics
    <2>. QED BY <2>1, <2>2, <2>3 DEF DecodeBoxes
  <1>. QED BY <1>1, <1>3, <1>4 DEF Ultralytics, AdapterTable

(* What is seen in a crop comes back at its place in the frame.            *)
LEMMA RemappedIsVisible ==
  ASSUME TypeOK, NEW scene \in Scenes, NEW s \in Scales
  PROVE  /\ Visible(scene, Crop(s)) \subseteq Places(Crop(s))
         /\ Remapped(Wanted(Visible(scene, Crop(s)), filter), Crop(s)) =
              {b \in scene : /\ Within(Crop(s), b.col)
                             /\ filter \in {None, {}} \/ b.cls \in filter}
  <1> DEFINE crop == Crop(s)
             sees == {b \in scene : /\ Within(crop, b.col)
                                    /\ filter \in {None, {}} \/ b.cls \in filter}
             moved(b) == [col |-> b.col - crop.lo, cls |-> b.cls]
  <1>1. \A b \in scene : b \in [col : Cols, cls : Cls] /\ b.col \in Int
    BY SceneAssumption DEF Cols
  <1>2. crop.lo \in Int
    BY CropType
  <1>0. Visible(scene, crop) \subseteq Places(crop)
    BY <1>1, <1>2, CropType DEF Visible, Places
  <1>3. Wanted(Visible(scene, crop), filter) = {moved(b) : b \in sees}
    BY DEF Wanted, Visible, Within
  <1>4. \A b \in scene : [moved(b) EXCEPT !.col = @ + crop.lo] = b
    <2>1. SUFFICES ASSUME NEW b \in scene
                   PROVE  [moved(b) EXCEPT !.col = @ + crop.lo] = b
      OBVIOUS
    <2>2. [moved(b) EXCEPT !.col = @ + crop.lo]
            = [col |-> (b.col - crop.lo) + crop.lo, cls |-> b.cls]
      OBVIOUS
    <2>3. (b.col - crop.lo) + crop.lo = b.col
      BY <1>1, <1>2
    <2>4. b = [col |-> b.col, cls |-> b.cls]
      BY <1>1
    <2>. QED BY <2>2, <2>3, <2>4
  <1>5. CASE crop = Full
    <2>1. \A b \in scene : moved(b) = b
      BY <1>1, <1>5 DEF Full
    <2>. QED BY <1>0, <1>3, <1>5, <2>1 DEF Remapped
  <1>6. CASE crop # Full
    <2>1. Remapped(Wanted(Visible(scene, crop), filter), crop)
            = {[b EXCEPT !.col = @ + crop.lo] : b \in {moved(o) : o \in sees}}
      BY <1>3, <1>6 DEF Remapped
    <2>2. Remapped(Wanted(Visible(scene, crop), filter), crop)
            = {[moved(o) EXCEPT !.col = @ + crop.lo] : o \in sees}
      BY <2>1
    <2>3. {[moved(o) EXCEPT !.col = @ + crop.lo] : o \in sees} = sees
      BY <1>4
    <2>. QED BY <1>0, <2>2, <2>3
  <1>. QED BY <1>0, <1>5, <1>6

(* Whatever an adapter puts out, serve() answers with boxes in the frame   *)
(* of classes that pass the filter.                                        *)
LEMMA RemappedInFrame ==
  ASSUME TypeOK, NEW s \in Scales,
         NEW found, found \subseteq Wanted(Places(Crop(s)), filter)
  PROVE  \A b \in Remapped(found, Crop(s)) :
           b \in Boxes /\ (filter \in {None, {}} \/ b.cls \in filter)
  <1> DEFINE crop == Crop(s)
  <1>1. /\ crop.lo \in Nat /\ crop.hi \in 0..Columns /\ Columns \in Nat
        /\ crop = Full => crop.lo = 0 /\ crop.hi = Columns
    BY CropType
  <1>2. ASSUME NEW b \in found
        PROVE  /\ b = [col |-> b.col, cls |-> b.cls] /\ b.col \in Int
               /\ 0 <= b.col /\ b.col + crop.lo < crop.hi /\ b.cls \in Cls
               /\ filter \in {None, {}} \/ b.cls \in filter
    <2>1. b \in Places(crop) /\ (filter \in {None, {}} \/ b.cls \in filter)
      BY DEF Wanted
    <2>2. b \in [col : 0..(crop.hi - crop.lo - 1), cls : Cls]
      BY <2>1 DEF Places
    <2>3. b.col \in 0..(crop.hi - crop.lo - 1)
      BY <2>2
    <2>. QED BY <1>1, <2>1, <2>2, <2>3
  <1>3. CASE crop = Full
    BY <1>1, <1>2, <1>3 DEF Remapped, Boxes, Cols
  <1>4. CASE crop # Full
    <2>1. SUFFICES ASSUME NEW o \in found
                   PROVE  LET b == [o EXCEPT !.col = @ + crop.lo]
                          IN  /\ b \in Boxes
                              /\ filter \in {None, {}} \/ b.cls \in filter
      BY <1>4 DEF Remapped
    <2>2. [o EXCEPT !.col = @ + crop.lo] = [col |-> o.col + crop.lo, cls |-> o.cls]
      BY <1>2
    <2>3. o.col + crop.lo \in Cols
      BY <1>1, <1>2 DEF Cols
    <2>. QED BY <1>2, <2>2, <2>3 DEF Boxes
  <1>. QED BY <1>3, <1>4

(* The two updates of a frame are one: whichever site it reaches first,    *)
(* the flag keeps it from the other.                                       *)
LEMMA OneOfTheTwo ==
  ASSUME tracker \in Trackers \cup {None}, NEW now \in {FrameStart, InTry(FrameStart)}
  PROVE  /\ PostBlock(now).ticked \in BOOLEAN
         /\ tracker = None => PostBlock(now).tracker = None
         /\ tracker # None => PostBlock(now).tracker = Aged(tracker)
  <1>1. tracker # None => Aged(tracker) # None
    BY NoneAssumption DEF Aged, Trackers
  <1>2. CASE now = FrameStart
    BY <1>2 DEF FrameStart, PostBlock
  <1>3. CASE now = InTry(FrameStart)
    BY <1>1, <1>3 DEF FrameStart, InTry, PostBlock
  <1>. QED BY <1>2, <1>3

(* What an answer leaves alone, and that it ticks the tracker once.        *)
LEMMA AnswerKeeps ==
  ASSUME IInv, NEW scene, NEW s, NEW boxes, NEW ran \in BOOLEAN,
         NEW now \in {FrameStart, InTry(FrameStart)},
         boxes \subseteq Boxes, Answer(scene, s, boxes, ran, now)
  PROVE  /\ adapter' = adapter /\ labels' = labels /\ filter' = filter
         /\ regions' = regions /\ asked' = asked
         /\ tracker' \in Trackers \cup {None} /\ ticked' \in BOOLEAN
         /\ frames' \in 0..MaxTicks
         /\ TicksOK'
         /\ AdapterOK' /\ ConfigTakesEffect'
         /\ reply' = [scene |-> scene, scale |-> s, boxes |-> boxes, ran |-> ran]
  <1>1. /\ adapter' = adapter /\ labels' = labels /\ filter' = filter
        /\ regions' = regions /\ asked' = asked
        /\ reply' = [scene |-> scene, scale |-> s, boxes |-> boxes, ran |-> ran]
    BY DEF Answer
  <1>4. /\ ticked' \in BOOLEAN
        /\ tracker = None => tracker' = None
        /\ tracker # None => tracker' = Aged(tracker)
    BY OneOfTheTwo DEF Answer, IInv, TypeOK
  <1>2. tracker' \in Trackers \cup {None} /\ frames' \in 0..MaxTicks /\ TicksOK'
    <2>1. CASE tracker = None
      BY <1>4, <2>1 DEF Answer, IInv, TypeOK, TicksOK
    <2>2. CASE tracker # None
      <3>1. /\ tracker \in [maxAge : Nat, ticks : Nat] /\ tracker.ticks = frames
            /\ frames \in Nat /\ frames < MaxTicks
        BY <2>2 DEF IInv, TypeOK, TicksOK, Trackers, Answer
      <3>2. /\ tracker' = [tracker EXCEPT !.ticks = @ + 1]
            /\ frames' = frames + 1
        BY <1>4, <2>2 DEF Answer, Aged
      <3>3. tracker' \in Trackers /\ tracker'.ticks = frames'
        BY <3>1, <3>2 DEF Trackers
      <3>4. tracker' # None
        BY <3>3, NoneAssumption
      <3>5. frames' \in 0..MaxTicks
        BY <3>1, <3>2, BoundAssumption
      <3>. QED BY <3>3, <3>4, <3>5 DEF TicksOK
    <2>. QED BY <2>1, <2>2
  <1>3. AdapterOK' /\ ConfigTakesEffect'
    BY <1>1 DEF IInv, AdapterOK, ConfigTakesEffect
  <1>. QED BY <1>1, <1>2, <1>3, <1>4

(* A frame that is skipped or raises.                                      *)
LEMMA FrameNotInferred ==
  ASSUME IInv, NEW scene \in Scenes, NEW s \in Scales,
         FrameSkipped(scene, s) \/ FrameRaises(scene, s)
  PROVE  IInv'
  <1>1. Answer(scene, s, {}, FALSE, FrameStart) /\ cache' = cache
    BY DEF FrameSkipped, FrameRaises
  <1>2. /\ adapter' = adapter /\ labels' = labels /\ filter' = filter
        /\ regions' = regions /\ asked' = asked
        /\ tracker' \in Trackers \cup {None} /\ ticked' \in BOOLEAN
        /\ frames' \in 0..MaxTicks
        /\ TicksOK'
        /\ AdapterOK' /\ ConfigTakesEffect'
        /\ reply' = [scene |-> scene, scale |-> s, boxes |-> {}, ran |-> FALSE]
    BY <1>1, AnswerKeeps
  <1>3. TypeOK'
    BY <1>1, <1>2 DEF IInv, TypeOK
  <1>4. CacheOK'
    BY <1>1, <1>2 DEF IInv, CacheOK, ToPixels
  <1>5. ReportsWhatIsAllowed' /\ UntickedNeverReported'
    BY <1>2 DEF ReportsWhatIsAllowed, UntickedNeverReported
  <1>. QED BY <1>2, <1>3, <1>4, <1>5 DEF IInv

(* A frame that is inferred.                                               *)
LEMMA FrameInferredStep ==
  ASSUME IInv, NEW scene \in Scenes, NEW s \in Scales,
         NEW raw, FrameInferred(scene, s, raw)
  PROVE  IInv'
  <1> DEFINE crop == Crop(s)
             found == Remapped(raw, crop)
             boxes == IF Masked THEN Kept(found, Polygons(s), s) ELSE found
             allowed == {b \in scene :
                           /\ Ticks(b.cls) /\ Within(crop, b.col)
                           /\ In(regions.incl, b.col)
                           /\ regions.excl = None \/ b.col \notin regions.excl}
  <1>1. Answer(scene, s, boxes, TRUE, InTry(FrameStart))
    BY DEF FrameInferred
  <1>2. scene \subseteq [col : Cols, cls : Cls]
    BY SceneAssumption
  <1>a. filter # {} /\ Running # None
    BY DEF FrameInferred, CanInfer, ShortCircuit
  <1>b. /\ ~Torn(adapter) => raw = Wanted(Visible(scene, crop), filter)
        /\ raw \subseteq Wanted(Places(crop), filter)
    <2>1. raw \in InferOutcomes(adapter, Visible(scene, crop), Places(crop), filter)
      BY DEF FrameInferred, Inferred
    <2>2. Visible(scene, crop) \subseteq Places(crop)
      BY RemappedIsVisible DEF IInv
    <2>. QED BY <1>a, <2>1, <2>2, InferOutcomeOK DEF IInv
  <1>c. \A b \in found : b \in Boxes /\ Ticks(b.cls)
    BY <1>a, <1>b, RemappedInFrame DEF IInv, Ticks
  <1>3. ~Torn(adapter) => found = {b \in scene : Ticks(b.cls) /\ Within(crop, b.col)}
    <2>1. ASSUME ~Torn(adapter)
          PROVE  found = {b \in scene : /\ Within(crop, b.col)
                                        /\ filter \in {None, {}} \/ b.cls \in filter}
      BY <2>1, <1>b, RemappedIsVisible DEF IInv
    <2>. QED BY <1>a, <2>1 DEF Ticks
  <1>4. ~Torn(adapter) => boxes = allowed
    <2>0. SUFFICES ASSUME ~Torn(adapter) PROVE boxes = allowed
      OBVIOUS
    <2>1. CASE ~Masked
      BY <1>3, <2>0, <2>1 DEF Masked, In
    <2>2. CASE Masked
      <3>1. Polygons(s) = [incl |-> ToPixels(regions.incl, s),
                           excl |-> ToPixels(regions.excl, s)]
        BY PolygonsFresh DEF IInv
      <3>2. ASSUME NEW b \in found
            PROVE  /\ (Polygons(s).incl = None \/ b.col * s \in Polygons(s).incl)
                        <=> In(regions.incl, b.col)
                   /\ (Polygons(s).excl = None \/ b.col * s \notin Polygons(s).excl)
                        <=> (regions.excl = None \/ b.col \notin regions.excl)
        <4>1. b.col \in Cols
          BY <1>c DEF Boxes
        <4>2. /\ regions.incl = None \/ regions.incl \subseteq Cols
              /\ regions.excl = None \/ regions.excl \subseteq Cols
          BY DEF IInv, TypeOK
        <4>3. /\ ToPixels(regions.incl, s) = None <=> regions.incl = None
              /\ regions.incl # None =>
                   (b.col * s \in ToPixels(regions.incl, s)
                      <=> b.col \in regions.incl)
          BY <4>1, <4>2, PixelsFaithful
        <4>4. /\ ToPixels(regions.excl, s) = None <=> regions.excl = None
              /\ regions.excl # None =>
                   (b.col * s \in ToPixels(regions.excl, s)
                      <=> b.col \in regions.excl)
          BY <4>1, <4>2, PixelsFaithful
        <4>. QED BY <3>1, <4>3, <4>4 DEF In
      <3>3. Kept(found, Polygons(s), s) = allowed
        BY <1>3, <2>0, <3>2 DEF Kept
      <3>. QED BY <2>2, <3>3
    <2>. QED BY <2>1, <2>2
  <1>5. boxes \subseteq Boxes /\ \A b \in boxes : Ticks(b.cls)
    BY <1>c DEF Kept
  <1>6. /\ adapter' = adapter /\ labels' = labels /\ filter' = filter
        /\ regions' = regions /\ asked' = asked
        /\ tracker' \in Trackers \cup {None} /\ ticked' \in BOOLEAN
        /\ frames' \in 0..MaxTicks
        /\ TicksOK'
        /\ AdapterOK' /\ ConfigTakesEffect'
        /\ reply' = [scene |-> scene, scale |-> s, boxes |-> boxes, ran |-> TRUE]
    BY <1>1, <1>5, AnswerKeeps
  <1>7. DOMAIN cache' = Scales /\ CacheOK'
    <2>1. cache' = IF Masked THEN [cache EXCEPT ![s] = Polygons(s)] ELSE cache
      BY DEF FrameInferred
    <2>2. Polygons(s) = [incl |-> ToPixels(regions.incl, s),
                         excl |-> ToPixels(regions.excl, s)]
      BY PolygonsFresh DEF IInv
    <2>3. DOMAIN cache = Scales /\ CacheOK
      BY DEF IInv, TypeOK
    <2>4. DOMAIN cache' = Scales
      BY <2>1, <2>3
    <2>5. \A r \in Scales :
            \/ cache'[r] = None
            \/ cache'[r] = [incl |-> ToPixels(regions.incl, r),
                            excl |-> ToPixels(regions.excl, r)]
      BY <2>1, <2>2, <2>3 DEF CacheOK
    <2>. QED BY <1>6, <2>4, <2>5 DEF CacheOK, ToPixels
  <1>8. TypeOK'
    BY <1>5, <1>6, <1>7 DEF IInv, TypeOK
  <1>9. ReportsWhatIsAllowed' /\ UntickedNeverReported'
    <2>1. Crop(s)' = Crop(s) /\ \A k : Ticks(k)' = Ticks(k)
      BY <1>6 DEF Crop, Full, Ticks
    <2>. QED BY <1>4, <1>5, <1>6, <2>1
             DEF ReportsWhatIsAllowed, UntickedNeverReported, Ticks, Within, In
  <1>. QED BY <1>6, <1>7, <1>8, <1>9 DEF IInv

-----------------------------------------------------------------------------
(* A connection starts without adapter, labels and tracker.                *)
LEMMA InitIInv == Init => IInv
  <1> SUFFICES ASSUME Init PROVE IInv
    OBVIOUS
  <1>1. None \in Runtimes /\ 0 \in 0..MaxTicks
    BY BoundAssumption DEF Runtimes
  <1>2. TypeOK
    BY <1>1 DEF Init, TypeOK, NoLabels, NoRegions
  <1>. QED BY <1>2 DEF Init, IInv, AdapterOK, ConfigTakesEffect, TicksOK,
                       CacheOK, ReportsWhatIsAllowed, UntickedNeverReported

(* The next connection starts afresh.                                      *)
LEMMA LeaveStep ==
  ASSUME Leave PROVE IInv'
  <1>1. None \in Runtimes /\ 0 \in 0..MaxTicks
    BY BoundAssumption DEF Runtimes
  <1>2. TypeOK'
    BY <1>1 DEF Leave, TypeOK, NoLabels, NoRegions
  <1>. QED BY <1>2 DEF Leave, IInv, AdapterOK, ConfigTakesEffect, TicksOK,
                       CacheOK, ReportsWhatIsAllowed, UntickedNeverReported

(* Nothing happens.                                                        *)
LEMMA StutterStep ==
  ASSUME IInv, UNCHANGED vars PROVE IInv'
  BY DEF vars, IInv, TypeOK, AdapterOK, ConfigTakesEffect, TicksOK, CacheOK,
         ReportsWhatIsAllowed, UntickedNeverReported, Crop, Full, Ticks, Within, In, ToPixels

(* One step for each outcome of a config and of a frame.                   *)
LEMMA StepIInv == IInv /\ [Next]_vars => IInv'
  <1> SUFFICES ASSUME IInv, [Next]_vars PROVE IInv'
    OBVIOUS
  <1>1. ASSUME NEW c \in Configs, ConfigActions(c)
        PROVE  IInv'
    BY <1>1, ConfigStep
  <1>2. ASSUME NEW scene \in Scenes, NEW s \in Scales,
               FrameSkipped(scene, s) \/ FrameRaises(scene, s)
        PROVE  IInv'
    BY <1>2, FrameNotInferred
  <1>3. ASSUME NEW scene \in Scenes, NEW s \in Scales, NEW raw,
               FrameInferred(scene, s, raw)
        PROVE  IInv'
    BY <1>3, FrameInferredStep
  <1>4. CASE Leave
    BY <1>4, LeaveStep
  <1>5. CASE UNCHANGED vars
    BY <1>5, StutterStep
  <1>. QED BY <1>1, <1>2, <1>3, <1>4, <1>5 DEF Next, ConfigActions

(* What serve() has is what it says it has, in every state.                *)
LEMMA SpecIInv == Spec => []IInv
  BY InitIInv, StepIInv, PTL DEF Spec

(* The state of serve() keeps its types.                                   *)
THEOREM WorkerTypeOK == Spec => []TypeOK
  <1>1. IInv => TypeOK
    BY DEF IInv
  <1>. QED BY <1>1, SpecIInv, PTL

(* What replies and reload decisions call the session is the session.      *)
THEOREM LabelsAreRight == Spec => []LabelsNameTheSession
  <1>1. IInv => LabelsNameTheSession
    BY DEF IInv, AdapterOK, LabelsNameTheSession, Running
  <1>. QED BY <1>1, SpecIInv, PTL

(* A config that was handled without an error is what runs.                *)
THEOREM ConfigsTakeEffect == Spec => []ConfigTakesEffect
  <1>1. IInv => ConfigTakesEffect
    BY DEF IInv
  <1>. QED BY <1>1, SpecIInv, PTL

(* Answers hold what the last config allows, whatever is cached.           *)
THEOREM AnswersAreAllowed == Spec => []ReportsWhatIsAllowed
  <1>1. IInv => ReportsWhatIsAllowed
    BY DEF IInv
  <1>. QED BY <1>1, SpecIInv, PTL

(* An unticked class is in no answer.                                      *)
THEOREM UntickedStayOut == Spec => []UntickedNeverReported
  <1>1. IInv => UntickedNeverReported
    BY DEF IInv
  <1>. QED BY <1>1, SpecIInv, PTL

(* The tracker is ticked once per answered frame.                          *)
THEOREM TicksCountFrames == Spec => []OneTickPerFrame
  <1>1. IInv => OneTickPerFrame
    BY DEF IInv, TicksOK, OneTickPerFrame
  <1>. QED BY <1>1, SpecIInv, PTL
-----------------------------------------------------------------------------
(* docs/nx-plugin-plan.md promises that a model that does not load leaves  *)
(* the old session untouched; a run refutes it.  What remains true of it:  *)
FailedLoad(c) ==
  /\ CanMake(c) /\ NeedLoad(c)
  /\ \E o \in LoadOutcomes(AdapterFor(c), c.model, c.device) : LoadFails(c, o)

TornBy(c) == c.rt = "openvino" /\ c.model \in Unranked

(* The session is lost only with its runtime, and replaced only by one     *)
(* that tears; otherwise neither the adapter nor what replies say of it    *)
(* has changed.                                                            *)
OldSessionSurvives ==
  \A c \in Configs : FailedLoad(c) =>
    /\ ~Swaps(c) /\ ~TornBy(c) => UNCHANGED <<adapter, labels>>
    /\ \/ Running' = IF Swaps(c) THEN None ELSE Running
       \/ TornBy(c) /\ Running' = Session(c.model, c.device)

(* A config that failed is tried again when it is sent again, in the same  *)
(* adapter: neither the labels nor a torn session pass for a model loaded. *)
FailedLoadIsRetried ==
  \A c \in Configs : FailedLoad(c) => CanMake(c)' /\ NeedLoad(c)' /\ ~Swaps(c)'

(* Labels never name a model where there is no session.                    *)
UnloadedIsUnlabelled ==
  adapter # None /\ adapter.session = None => labels.model = None

(* What a load that raises leaves: the adapter as it was, or a torn one.   *)
LEMMA RaisedOutcome ==
  ASSUME NEW a \in AdapterStates, NEW c \in Configs,
         NEW o \in LoadOutcomes(a, c.model, c.device), o.raised
  PROVE  \/ o.adapter = a
         \/ /\ a.rt = "openvino" /\ c.model \in Unranked
            /\ o.adapter = [a EXCEPT !.session = Session(c.model, c.device)]
  <1>1. CASE a.rt = "onnx"
    BY <1>1 DEF LoadOutcomes, OnnxLoad, Done, Raised
  <1>2. CASE a.rt = "openvino"
    BY <1>2 DEF LoadOutcomes, OpenvinoLoad, Done, Raised
  <1>3. CASE a.rt = "tensorrt"
    BY <1>3 DEF LoadOutcomes, TensorrtLoad, Done, Raised
  <1>4. CASE a.rt \notin {"onnx", "openvino", "tensorrt"}
    BY <1>4 DEF LoadOutcomes, PytorchLoad, Done, Raised
  <1>. QED BY <1>1, <1>2, <1>3, <1>4

(* A load that does not raise has put its session in place.                *)
LEMMA DoneOutcome ==
  ASSUME NEW a \in AdapterStates, NEW c \in Configs,
         NEW o \in LoadOutcomes(a, c.model, c.device), ~o.raised
  PROVE  o.adapter.session = Session(c.model, c.device)
  <1> DEFINE ses == Session(c.model, c.device)
             taken == [a EXCEPT !.session = ses]
             full == [a EXCEPT !.session = ses, !.layout = LayoutOf[c.model]]
  <1>1. taken.session = ses /\ full.session = ses
    BY DEF AdapterStates
  <1>2. [taken EXCEPT !.layout = LayoutOf[c.model]] = full
    BY DEF AdapterStates
  <1>3. o.adapter = taken \/ o.adapter = full
    <2>1. CASE a.rt = "onnx"
      BY <2>1 DEF LoadOutcomes, OnnxLoad, Done, Raised
    <2>2. CASE a.rt = "openvino"
      BY <1>2, <2>2 DEF LoadOutcomes, OpenvinoLoad, Done, Raised
    <2>3. CASE a.rt = "tensorrt"
      BY <2>3 DEF LoadOutcomes, TensorrtLoad, Done, Raised
    <2>4. CASE a.rt \notin {"onnx", "openvino", "tensorrt"}
      BY <2>4 DEF LoadOutcomes, PytorchLoad, Done, Raised
    <2>. QED BY <2>1, <2>2, <2>3, <2>4
  <1>. QED BY <1>1, <1>3

(* A failed load, step by step: the adapter the config was to run in, or   *)
(* that adapter with the session it tore, and the labels of before.        *)
LEMMA AfterAFailedLoad ==
  ASSUME IInv, NEW c \in Configs, FailedLoad(c)
  PROVE  /\ AdapterFor(c) \in AdapterStates /\ AdapterFor(c).rt = c.rt
         /\ adapter' \in AdapterStates /\ adapter' # None
         /\ adapter'.rt = c.rt /\ labels' = LabelsFor(c) /\ LabelsFor(c).rt = c.rt
         /\ \/ adapter' = AdapterFor(c)
            \/ TornBy(c) /\ adapter'.session = Session(c.model, c.device)
  <1>1. PICK o \in LoadOutcomes(AdapterFor(c), c.model, c.device) : LoadFails(c, o)
    BY DEF FailedLoad
  <1>2. CanMake(c) /\ o.raised /\ adapter' = o.adapter /\ labels' = LabelsFor(c)
    BY <1>1 DEF LoadFails, Loads
  <1>3. AdapterFor(c) \in AdapterStates /\ AdapterFor(c) # None
        /\ AdapterFor(c).rt = c.rt /\ LabelsFor(c).rt = c.rt
    BY <1>2, SwapKeepsTypes DEF IInv
  <1>4. CASE o.adapter = AdapterFor(c)
    BY <1>2, <1>3, <1>4
  <1>5. CASE /\ AdapterFor(c).rt = "openvino" /\ c.model \in Unranked
             /\ o.adapter = [AdapterFor(c) EXCEPT !.session = Session(c.model, c.device)]
    <2>1. Session(c.model, c.device) \in Sessions
      BY DEF Session, Sessions, Models, Devices
    <2>2. /\ o.adapter \in AdapterStates /\ o.adapter.rt = c.rt
          /\ o.adapter.session = Session(c.model, c.device)
      BY <1>3, <1>5, <2>1 DEF AdapterStates
    <2>. QED BY <1>2, <1>3, <1>5, <2>2, NoneAssumption DEF TornBy
  <1>. QED BY <1>1, <1>2, <1>3, <1>4, <1>5, RaisedOutcome

(* Labels that name a model were set by a load that put a session there.   *)
LEMMA LabelsFollowSessions ==
  ASSUME IInv, UnloadedIsUnlabelled, [Next]_vars
  PROVE  UnloadedIsUnlabelled'
  <1>1. ASSUME NEW c \in Configs, FailedLoad(c) PROVE UnloadedIsUnlabelled'
    <2>1. adapter'.session = None => adapter' = AdapterFor(c)
      <3>1. Session(c.model, c.device) # None
        BY NoneAssumption DEF Session, Sessions, Models, Devices
      <3>. QED BY <1>1, <3>1, AfterAFailedLoad
    <2>2. AdapterFor(c).session = None => LabelsFor(c).model = None
      BY DEF UnloadedIsUnlabelled, AdapterFor, LabelsFor, Relabelled, NoLabels, Swaps
    <2>. QED BY <1>1, <2>1, <2>2, AfterAFailedLoad DEF UnloadedIsUnlabelled
  <1>2. ASSUME NEW c \in Configs, NEW o \in LoadOutcomes(AdapterFor(c), c.model, c.device),
               LoadWorks(c, o)
        PROVE  UnloadedIsUnlabelled'
    <2>1. CanMake(c) /\ c.model # None /\ ~o.raised /\ adapter' = o.adapter
      BY <1>2 DEF LoadWorks, Loads, NeedLoad
    <2>2. o.adapter.session = Session(c.model, c.device)
      <3>1. AdapterFor(c) \in AdapterStates
        BY <2>1, SwapKeepsTypes DEF IInv
      <3>. QED BY <2>1, <3>1, DoneOutcome
    <2>3. Session(c.model, c.device) # None
      BY NoneAssumption DEF Session, Sessions, Models, Devices
    <2>. QED BY <2>1, <2>2, <2>3 DEF UnloadedIsUnlabelled
  <1>3. ASSUME NEW c \in Configs, ConfigKeeps(c) PROVE UnloadedIsUnlabelled'
    BY <1>3 DEF ConfigKeeps, UnloadedIsUnlabelled, AdapterFor, LabelsFor, Relabelled, NoLabels,
       Swaps
  <1>4. ASSUME NEW c \in Configs, AdapterFails(c) PROVE UnloadedIsUnlabelled'
    BY <1>4 DEF AdapterFails, UnloadedIsUnlabelled
  <1>5. CASE UNCHANGED <<adapter, labels>> \/ Leave
    BY <1>5 DEF UnloadedIsUnlabelled, Leave
  <1>6. \/ \E c \in Configs : FailedLoad(c)
        \/ \E c \in Configs : \E o \in LoadOutcomes(AdapterFor(c), c.model, c.device) :
             LoadWorks(c, o)
        \/ \E c \in Configs : ConfigKeeps(c) \/ AdapterFails(c)
        \/ UNCHANGED <<adapter, labels>> \/ Leave
    BY DEF Next, FailedLoad, FrameSkipped, FrameInferred, FrameRaises, Answer, vars
  <1>. QED BY <1>1, <1>2, <1>3, <1>4, <1>5, <1>6

(* A model that does not load, in the runtime that runs, costs nothing,    *)
(* unless it is one whose rank OpenVINO cannot tell: the session, the      *)
(* layout and the labels are those of before.  A swap of runtimes loses    *)
(* the session for certain.                                                *)
THEOREM OldSessionsSurvive == Spec => [][OldSessionSurvives]_vars
  <1>1. IInv /\ [Next]_vars => [OldSessionSurvives]_vars
    <2>1. SUFFICES ASSUME IInv, NEW c \in Configs, FailedLoad(c)
                   PROVE  /\ ~Swaps(c) /\ ~TornBy(c) => UNCHANGED <<adapter, labels>>
                          /\ \/ Running' = IF Swaps(c) THEN None ELSE Running
                             \/ TornBy(c) /\ Running' = Session(c.model, c.device)
      BY DEF OldSessionSurvives
    <2>2. CASE adapter' = AdapterFor(c)
      BY <2>1, <2>2, AfterAFailedLoad DEF AdapterFor, LabelsFor, MakeAdapter, Running
    <2>3. CASE TornBy(c) /\ adapter'.session = Session(c.model, c.device)
      BY <2>1, <2>3, AfterAFailedLoad DEF Running
    <2>. QED BY <2>1, <2>2, <2>3, AfterAFailedLoad
  <1>. QED BY <1>1, SpecIInv, PTL DEF Spec

(* Sending a config again after its model did not load tries to load it    *)
(* again, however many configs came before.                                *)
THEOREM FailedLoadsAreRetried == Spec => [][FailedLoadIsRetried]_vars
  <1>1. Init => UnloadedIsUnlabelled
    BY DEF Init, UnloadedIsUnlabelled
  <1>2. IInv /\ UnloadedIsUnlabelled /\ [Next]_vars => UnloadedIsUnlabelled'
    BY LabelsFollowSessions
  <1>3. IInv /\ UnloadedIsUnlabelled /\ UnloadedIsUnlabelled' => [FailedLoadIsRetried]_vars
    <2>1. SUFFICES ASSUME IInv, UnloadedIsUnlabelled, UnloadedIsUnlabelled',
                          NEW c \in Configs, FailedLoad(c)
                   PROVE  CanMake(c)' /\ NeedLoad(c)' /\ ~Swaps(c)'
      BY DEF FailedLoadIsRetried
    <2>2. ~Swaps(c)' /\ CanMake(c)'
      BY <2>1, AfterAFailedLoad DEF Swaps, CanMake
    <2>3. AdapterFor(c)' = adapter' /\ LabelsFor(c)' = LabelsFor(c)
      BY <2>1, <2>2, AfterAFailedLoad DEF AdapterFor, LabelsFor
    <2>4. /\ c.model # None
          /\ \/ c.model # LabelsFor(c).model \/ c.device # LabelsFor(c).device
             \/ AdapterFor(c).session = None
      BY <2>1 DEF FailedLoad, NeedLoad
    <2>5. AdapterFor(c).session = None => LabelsFor(c).model = None
      BY <2>1 DEF UnloadedIsUnlabelled, AdapterFor, LabelsFor, Relabelled, NoLabels, Swaps
    <2>. QED BY <2>2, <2>3, <2>4, <2>5 DEF NeedLoad
  <1>. QED BY <1>1, <1>2, <1>3, SpecIInv, PTL DEF Spec
=============================================================================
