---------------------------- MODULE WorkerServe -----------------------------
(***************************************************************************)
(* serve() of python/worker.py: what one connection's thread keeps between *)
(* messages, and what it does with a config and with a frame.  The thread  *)
(* handles one message at a time, so a handler is one action; its errors   *)
(* (an adapter that cannot be imported, a model that does not load, an     *)
(* inference that raises) are choices of the action.  What an adapter does *)
(* in load() and infer() is in Adapters.                                   *)
(*                                                                         *)
(* Geometry is one-dimensional: a frame has Columns columns and `scale`    *)
(* pixels per column; what comes from the settings pages is in columns, as *)
(* 0..1 coordinates are, and masks are tested in pixels.                   *)
(***************************************************************************)
EXTENDS Integers, FiniteSets, Adapters

CONSTANTS
  Columns,    \* number of columns of a frame
  Cls,        \* class names that COCO knows, and models put out
  Scales,     \* frame sizes of the camera: pixels per column
  MinCrop,    \* _MIN_CROP_PX
  Configs,    \* config messages the plugin may send
  Scenes,     \* what there is to detect: sets of [col, cls]
  MaxTicks    \* bound: frames after the first config

ASSUME GeometryAssumption ==
  /\ Columns \in Nat \ {0} /\ MinCrop \in Nat
  /\ Scales \subseteq Nat \ {0}
ASSUME BoundAssumption == MaxTicks \in Nat

Cols == 0..(Columns - 1)
Crops == [lo : Cols, hi : 0..Columns]
Trackers == [maxAge : Nat, ticks : Nat]

(* A config has been parsed: its mask and its box lie in the frame.        *)
ASSUME ConfigAssumption ==
  \A c \in Configs :
    /\ c.maxAge \in Nat
    /\ c.model = None \/ c.model \in DOMAIN LayoutOf
    /\ c.roi \in Crops \cup {None}
    /\ c.incl = None \/ c.incl \subseteq Cols
    /\ c.excl = None \/ c.excl \subseteq Cols
ASSUME SceneAssumption ==
  \A scene \in Scenes : scene \subseteq [col : Cols, cls : Cls]
Models == {c.model : c \in Configs}
Devices == {c.device : c \in Configs}
Runtimes == {c.rt : c \in Configs} \cup {None}
Sessions == [model : Models, device : Devices]
AdapterStates == [rt : Runtimes, session : Sessions \cup {None}, layout : RawLayouts \cup {"ultralytics"}]

ASSUME NoneAssumption ==
  /\ None \notin Trackers /\ None \notin Sessions /\ None \notin AdapterStates
  /\ \A mask \in SUBSET Cols, s \in Scales : {p * s : p \in mask} # None

VARIABLES
  adapter,    \* None or an adapter of Adapters
  labels,     \* current_runtime, current_model, current_device
  filter,     \* class_filter_ids
  regions,    \* roi_norm, inclusive_norm, exclusive_norm
  cache,      \* poly_px_cache: scale |-> None or masks in pixels
  tracker,    \* None or [maxAge, ticks]
  ticked,     \* tracker_ticked, a local that outlives its frame
  frames,     \* frames answered since there is a tracker
  asked,      \* history: None or the last config, if nothing in it failed
  reply       \* None or what the last frame showed and was answered

vars == <<adapter, labels, filter, regions, cache, tracker, ticked, frames, asked, reply>>

NoLabels == [rt |-> None, model |-> None, device |-> None]
NoRegions == [roi |-> None, incl |-> None, excl |-> None]

(* A connection has been accepted.                                         *)
Init ==
  /\ adapter = None /\ labels = NoLabels
  /\ filter = None /\ regions = NoRegions
  /\ cache = [s \in Scales |-> None]
  /\ tracker = None /\ ticked = FALSE /\ frames = 0
  /\ asked = None /\ reply = None

Running == IF adapter = None THEN None ELSE adapter.session

-----------------------------------------------------------------------------
(* The config handler.                                                     *)
WithParams(c) ==
  IF tracker = None
  THEN [maxAge |-> c.maxAge, ticks |-> 0]
  ELSE [tracker EXCEPT !.maxAge = c.maxAge]

(* The adapter and the labels once the runtime has been dealt with.        *)
Swaps(c) == adapter = None \/ c.rt # labels.rt
Relabelled(c) == [NoLabels EXCEPT !.rt = c.rt]
AdapterFor(c) == IF Swaps(c) THEN MakeAdapter(c.rt) ELSE adapter
LabelsFor(c) == IF Swaps(c) THEN Relabelled(c) ELSE labels
CanMake(c) == Swaps(c) => c.rt \in AdapterTable

NeedLoad(c) ==
  /\ c.model # None
  /\ \/ c.model # LabelsFor(c).model
     \/ c.device # LabelsFor(c).device
     \/ AdapterFor(c).session = None

(* names_to_ids: None is no filter; names that COCO does not know are      *)
(* dropped, if need be down to the empty filter.                           *)
NamesToIds(names) == IF names = None THEN None ELSE names \cap Cls

(* Mutant of Params: poly_px_cache is not cleared.                         *)
ParamsKeepingCache(c) ==
  /\ filter' = NamesToIds(c.classes)
  /\ regions' = [roi |-> c.roi, incl |-> c.incl, excl |-> c.excl]
  /\ tracker' = WithParams(c)
  /\ reply' = None
  /\ UNCHANGED <<cache, ticked, frames>>

Params(c) ==
  /\ filter' = NamesToIds(c.classes)
  /\ regions' = [roi |-> c.roi, incl |-> c.incl, excl |-> c.excl]
  /\ cache' = [s \in Scales |-> None]
  /\ tracker' = WithParams(c)
  /\ reply' = None
  /\ UNCHANGED <<ticked, frames>>

(* No model is named, or the one that is named runs already.               *)
ConfigKeeps(c) ==
  /\ CanMake(c) /\ ~NeedLoad(c)
  /\ adapter' = AdapterFor(c) /\ labels' = LabelsFor(c)
  /\ asked' = c
  /\ Params(c)

(* The runtime is not in the table, or its module or library is missing.   *)
AdapterFails(c) ==
  /\ Swaps(c)
  /\ adapter' = None
  /\ labels' = [labels EXCEPT !.rt = None]
  /\ asked' = None
  /\ Params(c)

Loads(c, outcome) ==
  /\ CanMake(c) /\ NeedLoad(c)
  /\ outcome \in LoadOutcomes(AdapterFor(c), c.model, c.device)
  /\ adapter' = outcome.adapter
  /\ Params(c)

LoadWorks(c, outcome) ==
  /\ ~outcome.raised
  /\ Loads(c, outcome)
  /\ labels' = [LabelsFor(c) EXCEPT !.model = c.model, !.device = c.device]
  /\ asked' = c

(* Mutant of LoadFails: the labels are set before load() is tried.         *)
LoadFailsRelabelled(c, outcome) ==
  /\ outcome.raised
  /\ Loads(c, outcome)
  /\ labels' = [LabelsFor(c) EXCEPT !.model = c.model, !.device = c.device]
  /\ asked' = None

(* load() raises: the labels stay, whatever it has done to the adapter.    *)
LoadFails(c, outcome) ==
  /\ outcome.raised
  /\ Loads(c, outcome)
  /\ labels' = LabelsFor(c)
  /\ asked' = None

-----------------------------------------------------------------------------
(* The frame handler.                                                      *)

(* _crop_to_roi: the columns the model sees, as [lo, hi).                  *)
Full == [lo |-> 0, hi |-> Columns]
Crop(s) ==
  IF regions.roi = None \/ (regions.roi.hi - regions.roi.lo) * s < MinCrop
  THEN Full ELSE regions.roi

(* What there is to see in the image the adapter is given, and what a      *)
(* misread output could come to: positions are relative to the image.      *)
Visible(scene, crop) ==
  {[col |-> b.col - crop.lo, cls |-> b.cls] :
     b \in {o \in scene : o.col >= crop.lo /\ o.col < crop.hi}}
Places(crop) == [col : 0..(crop.hi - crop.lo - 1), cls : Cls]

Inferred(scene, crop) ==
  InferOutcomes(adapter, Visible(scene, crop), Places(crop), filter)

(* Mutant of Remapped: offset by the crop's end instead of its start.      *)
RemappedByEnd(found, crop) ==
  IF crop = Full THEN found ELSE {[b EXCEPT !.col = @ + crop.hi] : b \in found}

(* The remapping of what was found in a crop to the frame.                 *)
Remapped(found, crop) ==
  IF crop = Full THEN found ELSE {[b EXCEPT !.col = @ + crop.lo] : b \in found}

(* normalize_to_pixel_polygon *)
ToPixels(mask, s) == IF mask = None THEN None ELSE {p * s : p \in mask}

Masked == regions.incl # None \/ regions.excl # None
Polygons(s) ==
  IF cache[s] # None THEN cache[s]
  ELSE [incl |-> ToPixels(regions.incl, s), excl |-> ToPixels(regions.excl, s)]

(* filter_boxes_by_regions, which is never given a ROI.                    *)
Kept(found, poly, s) ==
  {b \in found : /\ poly.incl = None \/ b.col * s \in poly.incl
                 /\ poly.excl = None \/ b.col * s \notin poly.excl}

(* tracker.update(), as far as time goes.                                  *)
Aged(trk) == [trk EXCEPT !.ticks = @ + 1]

(* Mutant of FrameStart: the flag of the frame before is not reset.        *)
FrameStartNoReset == [tracker |-> tracker, ticked |-> ticked]

(* The tracker and its flag while a frame is handled: at the start, after  *)
(* the update inside the try, and after the one behind it, which is for    *)
(* the frames that did not reach the first.                                *)
FrameStart == [tracker |-> tracker, ticked |-> FALSE]

InTry(now) ==
  IF now.tracker = None THEN now
  ELSE [tracker |-> Aged(now.tracker), ticked |-> TRUE]

PostBlock(now) ==
  IF now.ticked \/ now.tracker = None THEN now
  ELSE [now EXCEPT !.tracker = Aged(@)]

Answer(scene, s, boxes, ran, now) ==
  /\ tracker # None => frames < MaxTicks
  /\ tracker' = PostBlock(now).tracker /\ ticked' = PostBlock(now).ticked
  /\ frames' = IF tracker = None THEN frames ELSE frames + 1
  /\ reply' = [scene |-> scene, scale |-> s, boxes |-> boxes, ran |-> ran]
  /\ UNCHANGED <<adapter, labels, filter, regions, asked>>

(* Mutant of ShortCircuit: an empty filter is left to the adapter.         *)
NoShortCircuit == FALSE

ShortCircuit == filter = {}
CanInfer == ~ShortCircuit /\ Running # None

(* Every class is unticked, or there is no model yet: nothing is inferred, *)
(* and the tracker ages.                                                   *)
FrameSkipped(scene, s) ==
  /\ ~CanInfer
  /\ Answer(scene, s, {}, FALSE, FrameStart)
  /\ UNCHANGED cache

(* What follows the update in the try may still raise: it changes nothing. *)
FrameInferred(scene, s, found) ==
  /\ CanInfer
  /\ found \in Inferred(scene, Crop(s))
  /\ LET here == Remapped(found, Crop(s))
         boxes == IF Masked THEN Kept(here, Polygons(s), s) ELSE here
     IN  Answer(scene, s, boxes, TRUE, InTry(FrameStart))
  /\ cache' = IF Masked THEN [cache EXCEPT ![s] = Polygons(s)] ELSE cache

(* infer() or another step that precedes the update raises.                *)
FrameRaises(scene, s) ==
  /\ CanInfer
  /\ Answer(scene, s, {}, FALSE, FrameStart)
  /\ UNCHANGED cache

(* End of stream, detach, bad dimensions, a socket error: the thread ends; *)
(* the camera's next connection has a serve() of its own.                  *)
Leave ==
  /\ adapter' = None /\ labels' = NoLabels
  /\ filter' = None /\ regions' = NoRegions
  /\ cache' = [s \in Scales |-> None]
  /\ tracker' = None /\ ticked' = FALSE /\ frames' = 0
  /\ asked' = None /\ reply' = None

Next ==
  \/ \E c \in Configs :
       \/ ConfigKeeps(c)
       \/ AdapterFails(c)
       \/ CanMake(c) /\ NeedLoad(c) /\
          \E outcome \in LoadOutcomes(AdapterFor(c), c.model, c.device) :
            LoadWorks(c, outcome) \/ LoadFails(c, outcome)
  \/ \E scene \in Scenes, s \in Scales :
       \/ FrameSkipped(scene, s)
       \/ CanInfer /\ \E found \in Inferred(scene, Crop(s)) :
            FrameInferred(scene, s, found)
       \/ FrameRaises(scene, s)
  \/ Leave

Spec == Init /\ [][Next]_vars

-----------------------------------------------------------------------------
Boxes == [col : Cols, cls : Cls]

TypeOK ==
  /\ adapter \in AdapterStates \cup {None}
  /\ labels \in [rt : Runtimes, model : Models \cup {None},
                 device : Devices \cup {None}]
  /\ filter = None \/ filter \subseteq Cls
  /\ regions.roi \in Crops \cup {None}
  /\ regions.incl = None \/ regions.incl \subseteq Cols
  /\ regions.excl = None \/ regions.excl \subseteq Cols
  /\ DOMAIN cache = Scales
  /\ tracker \in Trackers \cup {None} /\ ticked \in BOOLEAN
  /\ frames \in 0..MaxTicks
  /\ asked \in Configs \cup {None}
  /\ reply # None => reply.boxes \subseteq Boxes

(* Every reply names a runtime and a device, and a reload is skipped if    *)
(* the labels match: they describe the session that runs, after any        *)
(* sequence of swaps and failures but a torn load.                         *)
LabelsNameTheSession ==
  Running # None /\ ~Torn(adapter) =>
    /\ adapter.rt = labels.rt
    /\ Running = Session(labels.model, labels.device)

(* The answers of a model are read by the layout of that model, which is   *)
(* what the decoder of a raw tensor depends on.                            *)
ReadAsLoaded(a) == a.rt \in Ultralytics \/ a.layout = LayoutOf[a.session.model]

(* A config handled without an error leaves the model it names loaded, in  *)
(* the runtime and on the device it names and with its own layout,         *)
(* whatever was loaded, skipped or failed before, but for a torn load.     *)
ConfigTakesEffect ==
  asked # None /\ asked.model # None /\ ~Torn(adapter) =>
    /\ adapter # None /\ adapter.rt = asked.rt
    /\ adapter.session = Session(asked.model, asked.device)
    /\ ReadAsLoaded(adapter)

Ticks(cls) == filter = None \/ cls \in filter
In(mask, col) == mask = None \/ col \in mask
Within(crop, col) == col >= crop.lo /\ col < crop.hi

(* A frame that was inferred is answered with the objects of the ticked    *)
(* classes in the ROI and the inclusive mask and outside the exclusive     *)
(* one, at their places in the frame, under the settings of the last       *)
(* config: no cached polygon, crop or filter of an earlier one shows.      *)
ReportsWhatIsAllowed ==
  reply # None /\ reply.ran /\ ~Torn(adapter) =>
    reply.boxes = {b \in reply.scene :
      /\ Ticks(b.cls)
      /\ Within(Crop(reply.scale), b.col)
      /\ In(regions.incl, b.col)
      /\ regions.excl = None \/ b.col \notin regions.excl}

(* A class the user unticked is in no answer, inferred, misread or not.    *)
UntickedNeverReported ==
  reply # None => \A b \in reply.boxes : Ticks(b.cls)

(* Once there is a tracker, every answered frame ages it exactly once,     *)
(* whether the model ran, was skipped or raised, and in whatever order     *)
(* such frames come: max_age counts frames.                                *)
OneTickPerFrame == tracker # None => tracker.ticks = frames

(* If the new model fails to load, the old session is kept untouched       *)
(* (docs/nx-plugin-plan.md, 4.4).                                          *)
FailedLoadKeepsSession ==
  [][\A c \in Configs :
       Running # None /\ CanMake(c) /\ NeedLoad(c) =>
         \A outcome \in LoadOutcomes(AdapterFor(c), c.model, c.device) :
           LoadFails(c, outcome) => Running' = Running]_vars
=============================================================================
