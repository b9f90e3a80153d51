# 3DFaceAugmentation in TLA+

Specifications, model-checking configurations and proofs for the code of
3DFaceAugmentation: a face renderer driven from Matlab, the calibration that
goes with it, and a C++ pipeline that estimates the pose of a head from one
photograph.

## 1. The system

    photo ──> SeetaFaceDetection ──> FaceAugmentation ──> PoseEstimation ──> A, R, T
                                        │  FeatureExtraction                   │
              keypoints.txt ────────────┤                                      v
              3D_points.txt ────────────┘         renderer(w, h, model, ..., A, R, T)
                   ^                                          │
                   │                                          v
              get_3d_pts.m <── unproject <──────────── EngineOSG (OpenSceneGraph)
                                                              │
                                                 calib (POSIT / OpenCV) <── doCalib.m

No part runs threads of its own.  What is hard here is of another kind: state
that outlives a call (the renderer's static cache, files written by one tool
and read by another, arguments that a call both reads and appends to),
callbacks that run in the middle of a call and hold copies of its state,
exceptions that leave a call half done, and index conventions that differ on
the two sides of an interface (row or column order, top or bottom row first,
from 0 or from 1).

### Inventory

| Component | State it keeps | Operations | What makes it correct |
|---|---|---|---|
| Renderer: `Matlab/renderer.cpp`, `EngineOSG.cpp`, `Engine.*` | the static `cache` (file name to scene graph and mesh data); per call: an `EngineOSG`, its `osgViewer::Viewer`, a copy of the engine in the draw callback, another in the key handler | `mexFunction`/`main` -> `run`: `initData` or `initDataFromFile`, `initCamera`, `initCanvas`, `draw` (frames, `CaptureCB`), `shutdown` | a name keeps its meaning; entries are coherent; a call returns and leaves nothing behind |
| Mesh extraction: `GetMeshData`, `drawFromData` in `EngineOSG.cpp` | vertices, colours, normals, the binding and an error flag of the two attributes | `apply(Geode)`, `set`, `drawFromData` | attributes stay aligned with the vertices through every error |
| Viewer keys: `KeyboardEventHandler` in `EngineOSG.cpp` | elevation, azimuth, yaw, distance in a copy of the engine | `handle` | keys act on the camera that is shown; reset undoes them |
| Output images: `depth.cpp`, `util.cpp`, `unProjectImage` | none (buffers of a call) | copies of the frame buffer into Matlab arrays and a PGM file | all outputs show the same point at the same index |
| Camera matrices: `util.cpp`, `getOpenGLMatrices.m` | none | `getOpenGLMatrices`, `getCameraMatricesFromOpenGL` | one inverts the other |
| Calibration: `Matlab/calib/*` | buffers of one call, OpenCV's sticky error status | `checkValid`, `run`, `doPOSIT`, `shutdown`; `doCalib.m` | buffers are released once; the status is restored; results depend on the inputs only |
| Face detection: `SeetaFaceDetection.cpp` | a lazily created singleton, the image of the last call, heap-allocated faces | `Instance`, `DetectFaces`, `CropFace` | regions stay inside the image; every field a caller reads was written |
| Feature extraction: `FeatureExtraction.cpp` | detector, descriptor, matcher | `SetFeatureDetector`, `SetFeatureDescriptor`, `ExtractFeatures`, `Match` | keypoints and descriptors correspond; unsupported combinations are reported |
| Face augmentation: `FaceAugmentation.cpp` | the caller's `Features` and point lists, appended to | `ExtractFacialFeatures`, `Create2D3DCorrespondences` | row i of the descriptors describes keypoint i; pairs join the right points |
| Pose estimation: `PoseEstimation.cpp` | the caller's `CameraInternals` | `EstimateHeadPose`, `ProjectPoints` | a call changes its outputs only |
| Model files: `Utilities.cpp`, `get_3d_pts.m`, `save_2d_from_3d.m` | `keypoints.txt`, `3D_points.txt`, `camera_params.txt` | `SaveKeypoints`, `CreateNewFile`, `Read3DPoints`, `ReadCameraParams` | what one tool writes the other reads; a broken file is noticed |
| Drivers: `ApplicationTest/*.cpp` | all of the above | `main` | the pose is computed from matching data only |
| `Libs/dlib`, OpenSceneGraph, OpenCV, SeetaFace, DLLs | - | - | third party |

## 2. Modules and the code they model

| Module | Models | State and actions |
|---|---|---|
| `RenderSession` | what a session of `renderer(...)` calls promises | `bound` (what a file name means), `answer`; no viewers, frames or exceptions |
| `Renderer` | `renderer.cpp`, `Engine.cpp`, the control of `EngineOSG.cpp` | the process (`disk`, `program`, `cache`) and the current call (`pc`, `req`, `scene`, `mesh`, `callback`, `handler`, `done`, ...); one action per stage of `run`: `Call`/`Reject`, `LoadData`, `LoadCached`, `LoadFile`, `InitCamera`, `InitCanvas`, `Capture` (the draw callback), `EndDraw`, `Shutdown`; the files change between any two steps |
| `MeshExtraction` | `GetMeshData`, `drawFromData` | the position in the scene graph and the three collectors; one action per drawable, per broken geode, per geode, and `Draw` |
| `Camera` | `getOpenGLMatrices`, `getCameraMatricesFromOpenGL`, `ExtractFrustum.m`, `PointInFrustum.m` | operators on integer matrices, and the projections they stand for |
| `DoCalib` | `doCalib.m` and the scripts that draw with its result; EXTENDS `Calib` and `Camera` | the points, the camera before and after a step; its actions call the MEX file, test and turn the pose, and draw, once or again with the camera returned |
| `ViewerKeys` | `KeyboardEventHandler` as `main` starts it | angles and distance in the handler's copy of the engine, and what the shared camera shows; one action per kind of key |
| `Drawing` | the two ways of `EngineOSG::draw`; composes `FrameOutputs` and `ViewerKeys` | `offScreen`: frames go through the callback, or keys act between frames |
| `FrameOutputs` | `depth.cpp`, `transposeAndFlipY`, `unProjectImage`, the callback's second half | the frame and the arrays of a call, as functions from C indexes to the pixel a sample came from; one action per copy |
| `ModelFiles` | `SaveKeypoints`, `CreateNewFile`, `get_3d_pts.m`, `save_2d_from_3d.m`; the readers of `Utilities.cpp` as operators | the lines of the three files; one action per write, and the end or death of either program at any point |
| `HeadPose` | `HeadPoseEstimationTest.cpp`, `Create2D3DCorrespondences`, `EstimateHeadPose`; composes with `ModelFiles` by EXTENDS | the data in memory of one run of the test; one action per read or computation, with the matrices that share memory; interleaved with every action of `ModelFiles` |
| `Rectangles` | `cv::Rect`, `dlib::rectangle` and the conversions between them | operators only |
| `FaceDetection` | `SeetaFaceDetection::DetectFaces` | the array of uninitialised faces and the place in its loop; one action per stage of a face: its box, its eyes, its smile |
| `FeatureStore` | what a caller of `ExtractFacialFeatures` relies on | the caller's structures, which change by whole batches |
| `FacialFeatures` | `ExtractFacialFeatures`, `ExtractFeatures`, `Match`; EXTENDS `FaceDetection`, implements `FeatureStore` | two `Features` structures and the locals of a call; one action per stage and per keypoint; calls of the detector alone in between |
| `Calib` | `mexFunction`, `run`, `checkValid`, `shutdown` of `calib.cpp`, `POSIT`'s life time | OpenCV's error state, the allocations of the five buffers, the pose and Matlab's answer; one action per stage of a call |

The `MC...` modules give the constants of the runs, the `...Proofs` modules
hold the theorems.  Definitions named "Mutant of ..." are plausible mistakes in
the code; replacing the original by one must break the property it is listed
with in PROJECT.json.

Meshes, images, keypoints and matrices are abstracted to names and to where
they came from.  In `FrameOutputs` this is all of the content: the value of an
array's cell is the OpenGL pixel it was copied from, so an index error shows as
a wrong name.  `Camera` computes with integers, so that a wrong sign or row
shows: products with the size of the frame stand for the code's divisions by
it, and the principal point is given by twice its place.  In `ModelFiles` lines have a length in bytes, because a file
that is overwritten in place keeps what lies behind the last byte written.

Outside the source, and modelled from how it is used: SeetaFace and OpenCV's
cascades (find any of the configured boxes; those of SeetaFace are square),
OpenSceneGraph's viewer
(runs the final draw callback once per frame; sets `done` when a window is
closed or no graphics context can be had), OpenCV (finds any keypoints, drops
some of them in `compute`, matches every row with any row; `calib` can be built
with version 1, whose errors are a status that stays, or version 2, which
throws), and Matlab's `dlmwrite` and `fopen(..., 'w')`.

## 3. Runs

| Run | States | What it shows |
|---|---|---|
| `session` | 421,024 | any number of calls over a .wrl file, a textured model and a mesh in memory while files change: what the cache may hold, what calls show, no viewer left behind off screen, every call returns; and the refinement of `RenderSession` |
| `extraction` | 71,074 | every scene of up to three geodes and four drawables: attributes stay aligned through every error path; what is drawn is exactly the tail after the last broken geode |
| `headpose` | 311,112 | writers of the model files and the test, stopped between any two steps: what the files hold, that a pose comes from one whole camera and from pairs that belong together, and what its estimation leaves of the camera |
| `features` | 198,121 | four calls in any order on two structures, new or used before, and of the detector with or without eyes and smiles: which fields of a face were written, when detection throws, where the regions lie; and the refinement of `FeatureStore` |
| `outputs` | 202,890 | off screen, all depth buffers on frames of six shapes; on screen, any keys past a full turn: the angles printed are those shown |
| `calib` | 7,928 | calls of every kind, with both kinds of OpenCV, from `doCalib` and from elsewhere: when a pose is turned and what that mends; where points are drawn with a camera and with the one that is returned |

Six runs look for a counterexample to what a comment, message or document says,
and find one:

- `texture` (`SameResults`): the first drawing of a model with large textures
  shows them full size, later ones shrunk: `MyTexture` runs after the frame.
- `stale` (`KeypointsFileHoldsTheFeatures`): `SaveKeypoints` opens an existing
  file without truncating it.
- `points` (`PointsArePoints`): `fprintf` in `get_3d_pts.m` takes the matrix
  column by column; the file in `Dataset` shows it.
- `pgm` (`FileIsThePicture`): `flipY` gets width and height in the wrong order.
- `lookup` (`KeypointFindsItsPosition`): pixels counted from 0 index a Matlab
  array.
- `distortion` (`NoDistortion`): OpenCV is given distortion coefficients that
  were never written.

Smaller disagreements met on the way, visible in the modules but without a run
of their own: lighting is switched off when it is asked for
(`EngineOSG.cpp:1068`, `InitCamera`); a mesh passed in memory under a file name
is what later calls show for the file (`EngineOSG.cpp:712`, `Capture`; hence the
exception in `CleanCacheIsExact`); on screen the key handler keeps its viewer
alive (`EngineOSG.cpp:1283`; `shutdown` clears a copy of the list of handlers; hence
"off screen" in `NoViewerLeaks`); `max_mse` has no effect (`calib.cpp:372`).

In `FaceDetection`: the zeros that `SeetaFaceDetection.h:44-47` gives the fields
of a face are never set, because faces come from `malloc`, so
`SeetaFaceDetectionTest` prints counts it never asked for (hence the "exactly"
in `AskedIsWritten`); the rectangle of eyes that were not found is not empty, as
a dlib rectangle from 0 to 0 holds one pixel; and what `CropFace` reads back is
one column and row larger than what was stored (`SeetaFaceDetection.cpp:218`).
Eyes at the border of the photograph throw, a mouth there does not
(`OnlyEyesThrow`).  Keypoints of a cropped face are compared with the face's
place in the photograph (`FaceAugmentation.cpp:51`, `PointsIn`).

In `Camera`: the horizontal offset of the principal point has the sign of the
vertical one (`util.cpp:119`), so columns are off by twice the offset, and the
way back puts the principal point in the middle.  Hence `DrawnAsSeen` says how
far columns are off, and the documented "same results" (`renderer.cpp:168`) hold
for centred principal points; in that case the two mistakes do not show.  A pose
that `doCalib.m` has turned is not tested again and need not show a point either
(`TurnedFaces` says what it does give).  In DEBUG builds `calib.cpp:345-349`
converts rotation matrices that were not written.  In `HeadPose`, `solvePnP`
writes its estimate of T into the camera that the caller passed
(`PoseKeepsMatrices` says that A and R survive).

### Bounds, and why they are enough

- `Renderer`: two files (one whose mesh is extracted, one with textures), one
  mesh in memory, two versions per file.  Cache entries for different names do
  not influence each other; two versions tell stale from fresh; calls are not
  bounded.  The theorems hold for all files, meshes and versions.
- `MeshExtraction`: two geodes show what an error drops behind it, a third what
  is collected after; three drawables in a geode give one before and one after
  the broken one.
- `HeadPose`: two runs of the script tell an old camera from a new one; lists of
  one and two keypoints, with lines of two and three bytes, give longer and
  shorter overwrites and cut lines; one pixel lies outside the rendering;
  solvePnP's limit is scaled down to two points.
- `FacialFeatures`: two calls on one structure suffice for all that appending
  can do; `MaxCalls` = 4 allows this for both, or three on one; calls of the
  detector alone count too.
- `FaceDetection`: a photograph without a face, one without pixels, and one with
  a face inside and another across its right and lower border; two landmarks,
  one of which puts an eye of the first face across the left border; hits that
  touch the end of their region.  Boxes are square with six
  pixels or more (SeetaFace's have 40), so that a sixth of the width is not
  nothing.  The detectors' model files are taken to be there.
- `ViewerKeys`: `MaxAngle` = 370 on one axis is more than a full turn either way;
  the axes do the same, so the others are bounded by a few keys;
  `MaxDistance` = 2 with `DistanceInc` = 2.  The theorem has no bound on either.
- `DoCalib`: a frame of 4 by 6 pixels, a camera with its principal point in the
  middle and one without; points on and off the axis and at several depths, with
  poses in front, behind, half turned and aside.  Half a turn is exact
  (the code's sine of pi is about 1e-16), and values that are not numbers do not
  occur.
- `FrameOutputs`: an index map is wrong for one of the shapes 2x3 and 3x2 as
  soon as it mixes up rows and columns; 1xn and square frames are there because
  they hide such mistakes.  The depths 0, in between and 1 are all that
  `unProjectImage` tells apart.
- `Calib`: `MaxThrown` = 2 exceptions per process; a new process may be started
  at any time, so calls are not bounded.

### Fairness and termination

`Renderer` assumes that the code of a call goes on (`WF_vars(Work)`), which is
one thread with nothing to wait for, and that an off-screen viewer without a
graphics context gives up, as OpenSceneGraph's does; that somebody closes a
window on screen is not assumed, so `EveryCallReturns` is about the MEX file.
`MeshExtraction`, `FacialFeatures` and `HeadPose` assume that their own
sequential code goes on, and nothing of the other programs: `TestEnds` holds
while the files are being rewritten.  In `FacialFeatures` the detector goes on
once it was called.  `Drawing`, `FrameOutputs`, `Calib` and `DoCalib` have no
liveness property and no fairness.  Deadlock is checked except in
`MeshExtraction` and `Drawing`, which describe one traversal and one callback
and end.

## 4. Proofs

All theorems hold for every value of the constants, under the named assumptions
on constants of each module (which TLC evaluates for the instances).

### Safety

- `RendererProofs`: type correctness; `NoViewerLeaks`; `CacheEntryCoherent`
  (an entry's node and its mesh data are of the same mesh), from an invariant
  that follows scene, mesh data and callback through the stages of a call;
  `CleanCacheIsExact`; and `ImplementsSession`, the refinement: initial states
  map to initial states, every step to a step of `RenderSession` or a stutter.
  `CachedTexturesAlwaysFit` needs that nothing can throw between the insertion
  of a node and the shrinking of its textures; `OkAlwaysShowsTheName` that a
  frame was shown before a call counts as done, and that the frame is of the
  scene that the call loaded (`ShownInv`).
- `MeshExtractionProofs`: type correctness, `Aligned`, `BindingsAgree`, and
  `DrawsTheTail` for every scene graph.  The invariant of the last (`TailInv`)
  says that the vertices list, in traversal order, what has been visited and not
  dropped, and that an attribute has failed exactly if the arrays met so far do
  not agree; one lemma per action says how these two sets grow.  It assumes
  `NoVerticesOK`: the marks of an empty and of no result are not geometries.
- `ModelFilesProofs`: `CameraWhole`.  Inductive: the file is empty or the front
  of one run's nine lines, cut where a call of `dlmwrite` ends, and the script's
  step says where; so what `CameraOf` reads is whole and of one run.
  `SavedIsPrefix` is about lists and lines of any length, so that its proof needs
  to know what `EndOf` (a sum over lines) and `Cut` compute on every list.
  `Induct` gets this induction from the well-founded order of the numbers: the
  set of the lengths for which a fact fails has no least element.  On it rest
  `SizeSplit` (a file's size is that of its front and its rest), `CutKeepsTheRest`
  and `OverwriteKeeps`, and with them the invariant (`SaveInv`): before the
  place where SaveKeypoints writes next, the file holds the features' lines.  It
  assumes `NoneIsNoFile`: a missing file is not a list of lines.
  `CoordinatesAlwaysOnce` is the arithmetic of `fprintf`: which coordinate of
  which point is number k of line l.
- `HeadPoseProofs`: `PairsStayTogether`, `PoseFromWholeData` and
  `PoseKeepsMatrices`, from `CameraInv` of the files and the steps of the test
  (`TestInv`).  `TestOnlyReads` shows that the test does to the files what
  `FilesSpec` allows, so that theorems about the writers hold beside it.
- `FaceDetectionProofs`: the invariant of detection, which says for each face
  before the loop counter what was written and where the regions lie, and for
  the current face what the stage implies; the facts about scaled and bounding
  rectangles are lemmas.
- `FacialFeaturesProofs`: `DescriptorsOfTheTail` is not inductive while rows are
  being selected; the invariant speaks of the rows collected so far for the
  structure being filled.  `DescriptorsCorrespond` and `MatchesStayInRange` follow,
  and `ImplementsStore`, the refinement to `FeatureStore`: every step of a call
  is a stutter but the one that ends a batch.  `AskedIsWritten`, `OnlyEyesThrow`
  and `RegionsFit` carry over from `FaceDetectionProofs`.
- `FrameOutputsProofs`: `SamePixelEverywhere` for frames of every size, from
  lemmas on division and remainder: the cell (row, column, plane) of each
  output is copied from the pixel that row and column name.  Likewise
  `PositionsWhereDepth` and `FileHoldsTheFrame`: the mixed-up index of depth.pgm
  is still one to one.  `DrawsFrames` shows that `Drawing` is `FrameOutputs` with
  steps that leave it alone, so that these theorems hold there;
  `PrintedAlwaysShown` has no bound on angles.
- `CalibProofs`: `BuffersReleased`, `ErrorsAreOwn` and `ResultsAreOwn`, from an
  invariant that says for each stage what the call holds, where OpenCV's error
  can be, and what has been written for Matlab.  `CallsCalib` shows that `doCalib`
  and its callers only do to the MEX file what `Calib` allows, so that these hold
  under `DoCalib`.  `KeptIfDrawn`, `TurnedFaces` and `DrawnAsSeen` rest on lemmas
  about the products in `Camera`, for all integer cameras, frames and points.

### How far the disagreements reach

A run that ends in a counterexample shows that something goes wrong, not when.
For each of the six a theorem says when, or what stays right:

| Run | Theorem | What it shows |
|---|---|---|
| `texture` | `ResultsSameUpToTextures` | contents shown twice differ in the size of their textures and in nothing else |
| `stale` | `SavedExactlyIfItFits`, `FileNeverShrinks`, `LongerFileStaysWrong` | saving gives the right file if and only if the file was not longer; a file never gets shorter; so once it has grown longer than a list it will never hold just that list |
| `points` | `PointsAlwaysOnlyOfOne`, `CoordinatesAlwaysOnce` | what the test reads are points only if the model has a single keypoint, although nothing is lost or doubled |
| `pgm` | `FileAlwaysHoldsTheFrame` | the file is the picture if and only if it is square, and a permutation of it otherwise |
| `lookup` | `LookUpAlwaysMisses` | a keypoint finds its position only where neither of the two pixels shows the model, on frames of any size |
| `distortion` | `PositAlwaysUndistorted` | poses of POSIT are not concerned |

`SameResultsIfCentred` does the same for the principal point: drawing again
with the matrices that the renderer returned shows a point where it was if and
only if the principal point was in the middle (or the point lies in the plane of
the camera), and from the second drawing on nothing changes any more.

### Termination

The provers know nothing of fairness.  What they can show of a liveness property
is its variant: a number, or two in lexicographic order, that every step of the
program lowers and no step of its environment raises.

| Liveness property | Theorem | Variant |
|---|---|---|
| `EveryCallReturns` | `CallsRunDown` | stages left of a call; files may change meanwhile |
| `Terminates` | `TraversalAdvances` | the place in the scene graph, in traversal order |
| `TestEnds` | `StepsRunOut` | steps left of the test; the writers of its files do not count |
| `CallsReturn` | `ExtractionRunsDown` | phases left, then stages of faces or keypoints left; the detector never ends in an exception |

`CallsOfCalibEnd` is the same for `Calib`, which has no liveness property.

Checked by TLC only: the four liveness properties themselves, that is, that the
next step is enabled and, by fairness, taken.

## 5. Not modelled

- Floating-point arithmetic: OpenCV's and POSIT's estimates (found or not
  found), lens distortion, planes scaled to unit length, near and far planes
  (OpenSceneGraph sets its own), rounding other than that of detected regions.
- The Euler angles of `calib.cpp`, which only DEBUG builds print.
- `SetFeatureDetector` and `SetFeatureDescriptor`, tables that map names to OpenCV
  objects and keep no state; the distances of descriptors.
- The order of the viewer's rotations, and the OpenGL state of F1 to F4, l, b.
- Windows, timing, logging; the RANSAC branch of `EstimateHeadPose`, which no
  caller takes.
- The remaining test drivers and Matlab scripts: straight-line programs that
  call the modelled functions once.  What they rely on is stated by the runs
  (`lookup`, `points`, `DrawnAsSeen`).
- The data set, dlib (vendored, of which the code uses `dlib::rectangle`), and
  prebuilt binaries.  dlib is almost all of the repository's lines.

PROJECT.json lists each part with its reason, and under "hazards" what bites
where, with the properties that would notice.

## 6. Plan

Done, in this order: `RenderSession` and `Renderer`; `MeshExtraction`;
`ModelFiles` and `HeadPose`; `FacialFeatures`; `FrameOutputs`; `Calib`; then
`FaceDetection` inside `FacialFeatures`, with `FeatureStore` as its abstract
specification; shared matrices in `HeadPose`; `Camera` and `DoCalib` over
`Calib`; `ViewerKeys` and `Drawing` over `FrameOutputs`; a proof of every
safety property of the passing runs; how far each disagreement reaches; and the
variants behind the liveness properties.

Left to prove: that no call is ever stuck, stated with the guards of its actions
in place of ENABLED, which would leave nothing but fairness of the liveness
properties to TLC; that turning a pose twice gives it back (`Turned`); which
rows of depth.pgm are right when it is not square.  Left to model: the two tables of `FeatureExtraction` if they
come to keep state; `Renderer` with several viewers at once, if the MEX file is
ever called from more than one thread.
