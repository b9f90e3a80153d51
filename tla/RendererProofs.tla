--------------------------- MODULE RendererProofs ---------------------------
(***************************************************************************)
(* Proofs about Renderer, for every set of files, of meshes and every      *)
(* number of versions: what the cache may hold, what a call shows, what is *)
(* left behind, that calls run down, and that the renderer implements      *)
(* RenderSession.                                                          *)
(***************************************************************************)
EXTENDS Renderer, TLAPS

(* The kinds of contents are apart from None, and well typed. *)
LEMMA ContentType ==
  /\ \A f \in Files, v \in 1..MaxVersion : FileContent(f, v) \in Content
  /\ \A m \in Meshes : MeshContent(m) \in Content
<1>1. ASSUME NEW f \in Files, NEW v \in 1..MaxVersion
      PROVE  FileContent(f, v) \in FileContents
  BY DEF FileContents
<1>2. ASSUME NEW m \in Meshes
      PROVE  MeshContent(m) \in {MeshContent(n) : n \in Meshes}
  OBVIOUS
<1> QED
  BY <1>1, <1>2 DEF Content

(* What the load step and the callback do to a node keeps its type. *)
LEMMA NodeType ==
  /\ \A c \in Content : RawNode(c) \in Node /\ CenterModel(RawNode(c)) \in Node
  /\ \A n \in Node : FitTextures(n) \in Node
  BY DEF RawNode, CenterModel, FitTextures, Node

(* None is apart from everything it may stand in for. *)
LEMMA NoneApart ==
  /\ None \notin Files /\ None \notin Meshes /\ None \notin Content
  /\ None \notin Node /\ None \notin Entry /\ None \notin Request
  /\ None \notin Picture /\ None \notin Reply /\ None \notin Callback
<1> DEFINE Kinds == {Files, Meshes, Content, Node, Entry, Request, Picture, Reply, Callback}
<1>1. \A S \in Kinds : None \notin S
  BY ConstantsOK
<1> QED
  BY <1>1

-----------------------------------------------------------------------------
(* Type correctness. *)
THEOREM TypeCorrect == Spec => []TypeOK
<1> USE NoneApart DEF engine, world
<1>1. Init => TypeOK
  <2> SUFFICES ASSUME Init PROVE TypeOK
    OBVIOUS
  <2>1. disk \in [Files -> 1..MaxVersion]
    BY MaxVersionOK DEF Init
  <2>2. cache \in [Files -> Entry \union {None}]
    BY DEF Init
  <2> QED
    BY <2>1, <2>2 DEF Init, TypeOK, MeshData, Busy
<1>2. TypeOK /\ [Next]_vars => TypeOK'
  <2> SUFFICES ASSUME TypeOK, [Next]_vars PROVE TypeOK'
    OBVIOUS
  <2> USE DEF TypeOK
  <2>1. ASSUME NEW f \in Files, EditFile(f) PROVE TypeOK'
    BY <2>1, MaxVersionOK DEF EditFile, Busy
  <2>2. ASSUME NEW f \in Files, MoveFile(f) PROVE TypeOK'
    BY <2>2 DEF MoveFile, Busy
  <2>3. CASE ClearMex
    BY <2>3 DEF ClearMex, Busy
  <2>4. CASE Reject
    BY <2>4 DEF Reject, Busy
  <2>5. ASSUME NEW f \in Files, NEW m \in Meshes \union {None}, NEW l \in {0, 1},
               Call(f, m, l)
        PROVE  TypeOK'
    <3>1. req' \in Request
      BY <2>5 DEF Call, Request
    <3>2. mesh' \in MeshData
      BY <2>5, ContentType, SMT DEF Call, MeshData
    <3>3. mesh' # None \/ m = None
      BY <2>5, ContentType, ConstantsOK DEF Call
    <3> QED
      BY <2>5, <3>1, <3>2, <3>3 DEF Call, Busy
  <2>6. CASE LoadData
    <3>1. mesh \in Content
      BY <2>6 DEF LoadData, MeshData
    <3>2. RawNode(mesh) \in Node
      BY <3>1, NodeType
    <3> QED
      BY <2>6, <3>2 DEF LoadData, Loaded, Busy
  <2>7. CASE LoadCached
    <3>1. req.file \in Files
      BY <2>7 DEF LoadCached, Busy, Request
    <3>2. cache[req.file] \in Entry
      BY <2>7, <3>1 DEF LoadCached
    <3> QED
      BY <2>7, <3>2 DEF LoadCached, Loaded, Busy, Entry
  <2>8. CASE LoadFile
    <3> DEFINE c == FileContent(req.file, disk[req.file])
    <3>1. req.file \in Files
      BY <2>8 DEF LoadFile, Busy, Request
    <3>2. c \in Content
      BY <3>1, ContentType
    <3>3. RawNode(c) \in Node /\ CenterModel(RawNode(c)) \in Node
      BY <3>2, NodeType
    <3> HIDE DEF c
    <3>4. CASE Loaded(CenterModel(RawNode(c)), mesh)
      BY <2>8, <3>3, <3>4 DEF LoadFile, Loaded, Busy
    <3>5. CASE Loaded(RawNode(c), c)
      BY <2>8, <3>2, <3>3, <3>5 DEF LoadFile, Loaded, Busy, MeshData
    <3>6. CASE Throw /\ UNCHANGED <<scene, mesh>>
      BY <2>8, <3>6 DEF LoadFile, Throw, Busy
    <3> QED
      BY <2>8, <3>4, <3>5, <3>6 DEF LoadFile, c
  <2>9. CASE InitCamera
    BY <2>9 DEF InitCamera, Busy, Callback
  <2>10. CASE InitCanvas
    BY <2>10 DEF InitCanvas, Busy, OffScreen
  <2>11. CASE Capture
    <3> DEFINE node == IF cache[req.file] # None THEN scene ELSE FitTextures(scene)
    <3>1. req \in Request /\ req.file \in Files /\ scene \in Node
      BY <2>11 DEF Capture, Busy, Request
    <3>2. node \in Node /\ scene' = node
      BY <2>11, <3>1, NodeType DEF Capture
    <3>3. callback.mesh \in MeshData
      BY <2>11 DEF Capture, Callback
    <3>4. cache' \in [Files -> Entry \union {None}]
      BY <2>11, <3>1, <3>2, <3>3 DEF Capture, Entry
    <3> HIDE DEF node
    <3>5. CASE UNCHANGED <<pc, callback, handler, light, gc>>
               /\ shown' = [node |-> scene, light |-> light] /\ done' = TRUE
      <4>1. shown' \in Picture
        BY <3>1, <3>5 DEF Picture
      <4> QED
        BY <2>11, <3>1, <3>2, <3>4, <3>5, <4>1 DEF Capture, Busy
    <3>6. CASE Throw
      BY <2>11, <3>1, <3>2, <3>4, <3>6 DEF Capture, Throw, Busy
    <3> QED
      BY <2>11, <3>5, <3>6 DEF Capture
  <2>12. CASE CloseViewer
    BY <2>12 DEF CloseViewer, Busy
  <2>13. CASE EndDraw
    BY <2>13 DEF EndDraw, Busy
  <2>14. CASE Shutdown
    BY <2>14 DEF Shutdown, Busy, Reply
  <2>15. CASE UNCHANGED vars
    BY <2>15 DEF vars, Busy
  <2> QED
    BY <2>1, <2>2, <2>3, <2>4, <2>5, <2>6, <2>7, <2>8, <2>9, <2>10, <2>11, <2>12,
       <2>13, <2>14, <2>15 DEF Next, Work
<1> QED
  BY <1>1, <1>2, PTL DEF Spec

-----------------------------------------------------------------------------
(* A viewer is kept alive by its callback or its key handler.  Off screen  *)
(* there is no handler, and shutdown, which both the normal and the        *)
(* exception path run, drops the callback.                                 *)
NoHandlerOffScreen == handler => program = "main"

(* No off-screen call leaves its viewer behind (EngineOSG.cpp:1271-1287).  *)
THEOREM NoViewerEverLeaks == Spec => []NoViewerLeaks
<1> DEFINE IInv == NoHandlerOffScreen /\ NoViewerLeaks
<1> USE DEF NoHandlerOffScreen, NoViewerLeaks
<1>1. Init => IInv
  BY DEF Init
<1>2. TypeOK /\ IInv /\ [Next]_vars => IInv'
  <2> SUFFICES ASSUME TypeOK, IInv, [Next]_vars PROVE IInv'
    OBVIOUS
  <2> USE DEF engine, world
  <2>1. ASSUME NEW f \in Files, EditFile(f) \/ MoveFile(f) PROVE IInv'
    BY <2>1 DEF EditFile, MoveFile
  <2>2. ASSUME NEW f \in Files, NEW m \in Meshes \union {None}, NEW l \in {0, 1},
               Call(f, m, l)
        PROVE  IInv'
    BY <2>2 DEF Call
  <2>3. CASE ClearMex \/ Reject \/ UNCHANGED vars
    BY <2>3 DEF ClearMex, Reject, vars
  <2>4. CASE LoadData \/ LoadCached
    BY <2>4 DEF LoadData, LoadCached, Loaded
  <2>5. CASE LoadFile
    BY <2>5 DEF LoadFile, Loaded, Throw
  <2>6. CASE InitCamera
    BY <2>6 DEF InitCamera
  <2>7. CASE InitCanvas
    BY <2>7 DEF InitCanvas, OffScreen, TypeOK
  <2>8. CASE Capture
    <3>1. UNCHANGED <<program, handler, leaked>>
      BY <2>8 DEF Capture, Throw
    <3> QED
      BY <3>1
  <2>9. CASE CloseViewer \/ EndDraw
    BY <2>9 DEF CloseViewer, EndDraw
  <2>10. CASE Shutdown
    BY <2>10 DEF Shutdown, TypeOK
  <2> QED
    BY <2>1, <2>2, <2>3, <2>4, <2>5, <2>6, <2>7, <2>8, <2>9, <2>10 DEF Next, Work
<1> QED
  BY <1>1, <1>2, TypeCorrect, PTL DEF Spec

-----------------------------------------------------------------------------
(* Mesh data d describes node n: a node with a file's own scene graph has  *)
(* none, a node built from mesh data has its own.                          *)
Describes(d, n) == d = IF n.centrings > 0 THEN None ELSE n.content

(* Between loading and drawing, the engine's mesh data describes the scene *)
(* and so does the copy in the callback.                                   *)
EngineCoherent ==
  /\ (pc = "load" /\ req.mesh = None) => mesh = None
  /\ pc \in {"camera", "canvas", "draw"} => Describes(mesh, scene)
  /\ (pc \in {"canvas", "draw"} /\ callback # None) => callback.mesh = mesh

(* Shrinking textures changes neither the contents nor the centring. *)
LEMMA FitKeeps ==
  ASSUME NEW n \in Node
  PROVE  FitTextures(n).content = n.content /\ FitTextures(n).centrings = n.centrings
  BY DEF FitTextures, Node

(* Node and mesh data of a cache entry describe the same mesh. *)
THEOREM CacheAlwaysCoherent == Spec => []CacheEntryCoherent
<1> DEFINE IInv == EngineCoherent /\ \A f \in Files : cache[f] # None =>
                                        Describes(cache[f].mesh, cache[f].node)
<1> USE NoneApart DEF engine, world
<1>1. Init => IInv
  BY DEF Init, EngineCoherent
<1>2. TypeOK /\ IInv /\ [Next]_vars => IInv'
  <2> SUFFICES ASSUME TypeOK, IInv, [Next]_vars PROVE IInv'
    OBVIOUS
  <2> USE DEF EngineCoherent
  <2>1. ASSUME NEW f \in Files, EditFile(f) \/ MoveFile(f) PROVE IInv'
    BY <2>1 DEF EditFile, MoveFile
  <2>2. ASSUME NEW f \in Files, NEW m \in Meshes \union {None}, NEW l \in {0, 1},
               Call(f, m, l)
        PROVE  IInv'
    BY <2>2 DEF Call
  <2>3. CASE ClearMex
    BY <2>3 DEF ClearMex
  <2>4. CASE Reject \/ UNCHANGED vars \/ CloseViewer \/ EndDraw
    BY <2>4 DEF Reject, vars, CloseViewer, EndDraw
  <2>5. CASE LoadData
    BY <2>5 DEF LoadData, Loaded, RawNode, Describes
  <2>6. CASE LoadCached
    <3>1. req.file \in Files
      BY <2>6 DEF LoadCached, TypeOK, Busy, Request
    <3>2. Describes(cache[req.file].mesh, cache[req.file].node)
      BY <2>6, <3>1 DEF LoadCached
    <3> QED
      BY <2>6, <3>2 DEF LoadCached, Loaded
  <2>7. CASE LoadFile
    <3> DEFINE c == FileContent(req.file, disk[req.file])
    <3>1. Describes(None, CenterModel(RawNode(c))) /\ Describes(c, RawNode(c))
      BY DEF Describes, CenterModel, RawNode
    <3> HIDE DEF c
    <3>2. mesh = None
      BY <2>7 DEF LoadFile
    <3>3. CASE Loaded(CenterModel(RawNode(c)), mesh)
      BY <2>7, <3>1, <3>2, <3>3 DEF LoadFile, Loaded
    <3>4. CASE Loaded(RawNode(c), c)
      BY <2>7, <3>1, <3>4 DEF LoadFile, Loaded
    <3>5. CASE Throw
      BY <2>7, <3>5 DEF LoadFile, Throw
    <3> QED
      BY <2>7, <3>3, <3>4, <3>5 DEF LoadFile, c
  <2>8. CASE InitCamera
    BY <2>8 DEF InitCamera
  <2>9. CASE InitCanvas
    BY <2>9 DEF InitCanvas
  <2>10. CASE Capture
    <3> DEFINE node == IF cache[req.file] # None THEN scene ELSE FitTextures(scene)
    <3>1. req.file \in Files /\ scene \in Node
      BY <2>10 DEF Capture, TypeOK, Busy, Request
    <3>2. Describes(mesh, scene) /\ callback.mesh = mesh
      BY <2>10 DEF Capture
    <3>3. Describes(mesh, node) /\ scene' = node
      BY <2>10, <3>1, <3>2, FitKeeps DEF Capture, Describes
    <3>4. ASSUME NEW f \in Files, cache'[f] # None
          PROVE  Describes(cache'[f].mesh, cache'[f].node)
      <4>1. CASE f = req.file /\ cache[f] = None
        <5>1. cache'[f] = [node |-> node, mesh |-> callback.mesh]
          BY <2>10, <4>1 DEF Capture, TypeOK
        <5> QED
          BY <5>1, <3>2, <3>3
      <4>2. CASE ~(f = req.file /\ cache[f] = None)
        <5>1. cache'[f] = cache[f]
          BY <2>10, <4>2 DEF Capture, TypeOK
        <5> QED
          BY <5>1, <3>4
      <4> QED
        BY <4>1, <4>2
    <3> HIDE DEF node
    <3>5. mesh' = mesh /\ callback' = callback
      BY <2>10 DEF Capture, Throw
    <3>6. pc' \in {pc, "unwind"} /\ pc = "draw"
      BY <2>10 DEF Capture, Throw
    <3>7. EngineCoherent'
      BY <3>2, <3>3, <3>5, <3>6
    <3> QED
      BY <3>4, <3>7
  <2>11. CASE Shutdown
    BY <2>11 DEF Shutdown
  <2> QED
    BY <2>1, <2>2, <2>3, <2>4, <2>5, <2>6, <2>7, <2>8, <2>9, <2>10, <2>11
    DEF Next, Work
<1>3. IInv => CacheEntryCoherent
  BY DEF Describes, CacheEntryCoherent
<1> QED
  BY <1>1, <1>2, <1>3, TypeCorrect, PTL DEF Spec

-----------------------------------------------------------------------------
(* After the callback the name of the call is in the cache; no other name  *)
(* changed.                                                                *)
LEMMA CaptureFills ==
  ASSUME TypeOK, Capture
  PROVE  LET f == req.file IN
         /\ f \in Files /\ cache'[f] \in Entry
         /\ cache[f] # None => cache'[f] = cache[f]
         /\ cache[f] = None => cache'[f].node = scene'
         /\ \A g \in Files \ {f} : cache'[g] = cache[g]
<1> DEFINE node == IF cache[req.file] # None THEN scene ELSE FitTextures(scene)
<1>1. req.file \in Files /\ scene \in Node
  BY NoneApart DEF Capture, TypeOK, Busy, Request
<1>2. node \in Node /\ scene' = node
  BY <1>1, NodeType DEF Capture
<1>3. callback.mesh \in MeshData
  BY DEF Capture, TypeOK, Callback
<1>4. CASE cache[req.file] # None
  BY <1>1, <1>4 DEF Capture, TypeOK
<1>5. CASE cache[req.file] = None
  <2>1. cache' = [cache EXCEPT ![req.file] = [node |-> node, mesh |-> callback.mesh]]
    BY <1>5 DEF Capture
  <2> HIDE DEF node
  <2>2. [node |-> node, mesh |-> callback.mesh] \in Entry
    BY <1>2, <1>3 DEF Entry
  <2> QED
    BY <1>1, <1>2, <1>5, <2>1, <2>2 DEF TypeOK
<1> QED
  BY <1>4, <1>5

-----------------------------------------------------------------------------
(* What a call that has loaded its mesh is about to show, as far as the    *)
(* cache knows: the mesh it passed, or the file as on disk unless dirty;   *)
(* and a name that a passed mesh may still be cached under is dirty.       *)
SceneExact ==
  Busy => /\ req.mesh # None /\ cache[req.file] = None => req.file \in dirty
          /\ (req.mesh = None /\ scene # None /\ req.file \notin dirty)
               => scene.content = FileContent(req.file, disk[req.file])

(* The cache is exact except for the names that history made dirty. *)
THEOREM CleanCacheIsAlwaysExact == Spec => []CleanCacheIsExact
<1> DEFINE IInv == SceneExact /\ CleanCacheIsExact
<1> USE NoneApart DEF engine, world
<1>1. Init => IInv
  BY DEF Init, SceneExact, CleanCacheIsExact, Busy
<1>2. TypeOK /\ IInv /\ [Next]_vars => IInv'
  <2> SUFFICES ASSUME TypeOK, IInv, [Next]_vars PROVE IInv'
    OBVIOUS
  <2> USE DEF SceneExact, CleanCacheIsExact
  <2>1. ASSUME NEW f \in Files, EditFile(f) PROVE IInv'
    <3>1. \A g \in Files : g # f => disk'[g] = disk[g]
      BY <2>1 DEF EditFile, TypeOK
    <3>2. dirty \subseteq dirty' /\ (f \notin dirty' =>
                                    cache[f] = None /\ ~(Busy /\ req.file = f))
      BY <2>1 DEF EditFile
    <3>3. UNCHANGED <<cache, pc, req, scene>>
      BY <2>1 DEF EditFile
    <3>4. Busy => req.file \in Files
      BY DEF TypeOK, Request
    <3> QED
      BY <3>1, <3>2, <3>3, <3>4 DEF Busy
  <2>2. ASSUME NEW f \in Files, MoveFile(f) PROVE IInv'
    BY <2>2 DEF MoveFile, Busy
  <2>3. ASSUME NEW f \in Files, NEW m \in Meshes \union {None}, NEW l \in {0, 1},
               Call(f, m, l)
        PROVE  IInv'
    <3>1. dirty \subseteq dirty' /\ (m # None /\ cache[f] = None => f \in dirty')
      BY <2>3 DEF Call
    <3>2. req'.file = f /\ req'.mesh = m /\ scene' = None
      BY <2>3 DEF Call
    <3>3. UNCHANGED <<disk, cache>>
      BY <2>3 DEF Call
    <3> QED
      BY <3>1, <3>2, <3>3
  <2>4. CASE ClearMex
    BY <2>4 DEF ClearMex, Busy
  <2>5. CASE Reject \/ CloseViewer \/ EndDraw \/ InitCamera \/ InitCanvas
             \/ UNCHANGED vars
    BY <2>5 DEF Reject, CloseViewer, EndDraw, InitCamera, InitCanvas, vars, Busy
  <2>6. CASE LoadData
    BY <2>6 DEF LoadData, Loaded, Busy
  <2>7. CASE LoadCached
    <3>1. req.file \in Files
      BY <2>7 DEF LoadCached, TypeOK, Busy, Request
    <3> QED
      BY <2>7, <3>1 DEF LoadCached, Loaded, Busy
  <2>8. CASE LoadFile
    <3> DEFINE c == FileContent(req.file, disk[req.file])
    <3>1. RawNode(c).content = c /\ CenterModel(RawNode(c)).content = c
      BY DEF RawNode, CenterModel
    <3>2. scene' \in {RawNode(c), CenterModel(RawNode(c)), scene}
      BY <2>8 DEF LoadFile, Loaded
    <3>3. UNCHANGED <<disk, dirty, cache, req>> /\ Busy
      BY <2>8 DEF LoadFile, Busy
    <3> HIDE DEF c
    <3>4. CASE scene' = scene
      BY <3>3, <3>4 DEF Busy
    <3>5. CASE scene'.content = c
      BY <3>3, <3>5, <2>8 DEF c, Busy, LoadFile
    <3> QED
      BY <3>1, <3>2, <3>4, <3>5
  <2>9. CASE Capture
    <3> DEFINE node == IF cache[req.file] # None THEN scene ELSE FitTextures(scene)
    <3>1. req.file \in Files /\ scene \in Node /\ Busy
      BY <2>9 DEF Capture, TypeOK, Busy, Request
    <3>2. node.content = scene.content /\ scene' = node
      BY <2>9, <3>1, FitKeeps DEF Capture
    <3>3. UNCHANGED <<disk, dirty, req>>
      BY <2>9 DEF Capture
    <3>4. ASSUME NEW f \in Files, f \notin dirty, cache'[f] # None
          PROVE  cache'[f].node.content = FileContent(f, disk[f])
      <4>1. CASE f = req.file /\ cache[f] = None
        <5>1. cache'[f] = [node |-> node, mesh |-> callback.mesh]
          BY <2>9, <4>1 DEF Capture, TypeOK
        <5> QED
          BY <5>1, <3>1, <3>2, <3>4, <4>1
      <4>2. CASE ~(f = req.file /\ cache[f] = None)
        <5>1. cache'[f] = cache[f]
          BY <2>9, <4>2 DEF Capture, TypeOK
        <5> QED
          BY <5>1, <3>4
      <4> QED
        BY <4>1, <4>2
    <3>5. cache'[req.file] # None
      BY <2>9, CaptureFills
    <3> HIDE DEF node
    <3> QED
      BY <3>1, <3>2, <3>3, <3>4, <3>5
  <2>10. CASE Shutdown
    BY <2>10 DEF Shutdown, Busy
  <2> QED
    BY <2>1, <2>2, <2>3, <2>4, <2>5, <2>6, <2>7, <2>8, <2>9, <2>10 DEF Next, Work
<1> QED
  BY <1>1, <1>2, TypeCorrect, PTL DEF Spec

-----------------------------------------------------------------------------
(* A call with a mesh of its own has that mesh in the scene.  One without  *)
(* has what the cache holds for the name, or, while it holds nothing, some *)
(* version of the file.  What was shown is what was loaded.                *)
FileVersions(f) == {FileContent(f, v) : v \in 1..MaxVersion}
Faithful ==
  Busy => LET f == req.file IN
    /\ pc = "load" => mesh = AskedMesh(req) /\ scene = None /\ shown = None
    /\ (scene # None /\ req.mesh # None) => scene.content = MeshContent(req.mesh)
    /\ (scene # None /\ req.mesh = None) =>
         scene.content \in IF cache[f] = None THEN FileVersions(f)
                           ELSE {cache[f].node.content}
    /\ shown # None => /\ cache[f] # None /\ scene # None
                       /\ shown.node.content = scene.content

(* It holds throughout. *)
LEMMA FaithfulInv == Spec => []Faithful
<1> USE NoneApart DEF engine, world
<1>1. Init => Faithful
  BY DEF Init, Faithful, Busy
<1>2. TypeOK /\ Faithful /\ [Next]_vars => Faithful'
  <2> SUFFICES ASSUME TypeOK, Faithful, [Next]_vars PROVE Faithful'
    OBVIOUS
  <2> USE DEF Faithful
  <2>1. ASSUME NEW f \in Files, EditFile(f) \/ MoveFile(f) PROVE Faithful'
    BY <2>1 DEF EditFile, MoveFile, Busy
  <2>2. ASSUME NEW f \in Files, NEW m \in Meshes \union {None}, NEW l \in {0, 1},
               Call(f, m, l)
        PROVE  Faithful'
    BY <2>2 DEF Call, AskedMesh
  <2>3. CASE ClearMex \/ Shutdown
    BY <2>3 DEF ClearMex, Shutdown, Busy
  <2>4. CASE Reject \/ CloseViewer \/ EndDraw \/ InitCamera \/ InitCanvas
             \/ UNCHANGED vars
    BY <2>4 DEF Reject, CloseViewer, EndDraw, InitCamera, InitCanvas, vars, Busy
  <2>5. CASE LoadData
    BY <2>5 DEF LoadData, Loaded, Busy, RawNode, AskedMesh
  <2>6. CASE LoadCached
    BY <2>6 DEF LoadCached, Loaded, Busy
  <2>7. CASE LoadFile
    <3> DEFINE c == FileContent(req.file, disk[req.file])
    <3>1. RawNode(c).content = c /\ CenterModel(RawNode(c)).content = c
      BY DEF RawNode, CenterModel
    <3>2. c \in FileVersions(req.file)
      BY <2>7 DEF LoadFile, TypeOK, Request, Busy, FileVersions
    <3>3. scene' \in {RawNode(c), CenterModel(RawNode(c)), scene} /\ shown' = shown
      BY <2>7 DEF LoadFile, Loaded, Throw
    <3>4. UNCHANGED <<cache, req>> /\ Busy /\ pc = "load" /\ pc' # "load"
          /\ req.mesh = None /\ cache[req.file] = None
      BY <2>7 DEF LoadFile, Busy, Loaded, Throw
    <3> HIDE DEF c
    <3> QED
      BY <3>1, <3>2, <3>3, <3>4
  <2>8. CASE Capture
    <3>1. req.file \in Files /\ scene \in Node /\ Busy
      BY <2>8 DEF Capture, TypeOK, Busy, Request
    <3>2. scene'.content = scene.content
      BY <2>8, <3>1, FitKeeps DEF Capture
    <3>3. cache'[req.file] \in Entry
          /\ (cache[req.file] # None => cache'[req.file] = cache[req.file])
          /\ (cache[req.file] = None => cache'[req.file].node = scene')
      BY <2>8, CaptureFills
    <3>4. shown' = shown \/ shown' = [node |-> scene, light |-> light]
      BY <2>8 DEF Capture, Throw
    <3>5. req' = req /\ pc' # "load" /\ scene' # None
      BY <2>8, <3>1, NodeType DEF Capture, Throw
    <3> QED
      BY <3>1, <3>2, <3>3, <3>4, <3>5
  <2> QED
    BY <2>1, <2>2, <2>3, <2>4, <2>5, <2>6, <2>7, <2>8 DEF Next, Work
<1> QED
  BY <1>1, <1>2, TypeCorrect, PTL DEF Spec

-----------------------------------------------------------------------------
(* Shrinking a texture that was shrunk changes nothing. *)
LEMMA FitOnce == ASSUME NEW n \in Node PROVE FitTextures(FitTextures(n)) = FitTextures(n)
  BY DEF FitTextures, Node

(* No cached node is waiting for its textures to be shrunk, whatever is    *)
(* thrown after it was inserted (EngineOSG.cpp:716-722).                   *)
THEOREM CachedTexturesAlwaysFit == Spec => []CachedTexturesFit
<1>1. Init => CachedTexturesFit
  BY DEF Init, CachedTexturesFit
<1>2. TypeOK /\ CachedTexturesFit /\ [Next]_vars => CachedTexturesFit'
  <2> SUFFICES ASSUME TypeOK, CachedTexturesFit, [Next]_vars PROVE CachedTexturesFit'
    OBVIOUS
  <2>1. CASE Capture
    <3>1. ASSUME NEW f \in Files, cache'[f] # None
          PROVE  FitTextures(cache'[f].node) = cache'[f].node
      <4>1. CASE f = req.file /\ cache[f] = None
        <5>1. cache'[f].node = FitTextures(scene) /\ scene \in Node
          BY <2>1, <4>1, CaptureFills, NoneApart DEF Capture, TypeOK
        <5> QED BY <5>1, FitOnce
      <4>2. CASE ~(f = req.file /\ cache[f] = None)
        <5>1. cache'[f] = cache[f]
          BY <2>1, <4>2, CaptureFills
        <5> QED BY <3>1, <5>1 DEF CachedTexturesFit
      <4> QED BY <4>1, <4>2
    <3> QED BY <3>1 DEF CachedTexturesFit
  <2>2. CASE ClearMex
    BY <2>2 DEF ClearMex, CachedTexturesFit
  <2>3. CASE UNCHANGED cache
    BY <2>3 DEF CachedTexturesFit
  <2> QED
    BY <2>1, <2>2, <2>3 DEF Next, Work, EditFile, MoveFile, Reject, Call, LoadData,
       LoadCached, LoadFile, InitCamera, InitCanvas, CloseViewer, EndDraw, Shutdown, vars
<1> QED
  BY <1>1, <1>2, TypeCorrect, PTL DEF Spec

-----------------------------------------------------------------------------
(* Off screen the viewer is done only after the callback has filled the    *)
(* outputs, or if it never had a context.                                  *)
DoneAfterShown ==
  /\ pc \in {"load", "camera", "canvas"} => ~done
  /\ program = "mex" /\ pc \in {"canvas", "draw"} => callback # None
  /\ program = "mex" /\ gc /\ (pc = "shutdown" \/ (pc = "draw" /\ done)) => shown # None

(* It holds throughout. *)
LEMMA DoneInv == Spec => []DoneAfterShown
<1> USE NoneApart DEF engine, world
<1>1. Init => DoneAfterShown
  BY DEF Init, DoneAfterShown
<1>2. TypeOK /\ DoneAfterShown /\ [Next]_vars => DoneAfterShown'
  <2> SUFFICES ASSUME TypeOK, DoneAfterShown, [Next]_vars PROVE DoneAfterShown'
    OBVIOUS
  <2> USE DEF DoneAfterShown
  <2>1. ASSUME NEW f \in Files, EditFile(f) \/ MoveFile(f) PROVE DoneAfterShown'
    BY <2>1 DEF EditFile, MoveFile
  <2>2. ASSUME NEW f \in Files, NEW m \in Meshes \union {None}, NEW l \in {0, 1},
               Call(f, m, l)
        PROVE  DoneAfterShown'
    BY <2>2 DEF Call
  <2>3. CASE ClearMex \/ Reject \/ UNCHANGED vars
    BY <2>3 DEF ClearMex, Reject, vars
  <2>4. CASE LoadData \/ LoadCached
    BY <2>4 DEF LoadData, LoadCached, Loaded
  <2>5. CASE LoadFile
    BY <2>5 DEF LoadFile, Loaded, Throw
  <2>6. CASE InitCamera
    <3>1. [mesh |-> mesh] # None
      BY DEF TypeOK, Callback
    <3> QED BY <2>6, <3>1 DEF InitCamera, OffScreen
  <2>7. CASE InitCanvas
    BY <2>7 DEF InitCanvas
  <2>8. CASE Capture
    <3>1. [node |-> scene, light |-> light] # None
      BY <2>8 DEF Capture, TypeOK, Picture
    <3> QED BY <2>8, <3>1 DEF Capture, Throw
  <2>9. CASE CloseViewer \/ EndDraw
    BY <2>9 DEF CloseViewer, EndDraw
  <2>10. CASE Shutdown
    BY <2>10 DEF Shutdown
  <2> QED
    BY <2>1, <2>2, <2>3, <2>4, <2>5, <2>6, <2>7, <2>8, <2>9, <2>10 DEF Next, Work
<1> QED
  BY <1>1, <1>2, TypeCorrect, PTL DEF Spec

(* What a call has loaded and shown: the mesh it passed, as it was passed, *)
(* or the cached node, which only the size of the textures tells from the  *)
(* one that was drawn when it was cached.                                  *)
ShownInv ==
  Busy => LET f == req.file IN
    /\ (scene # None /\ req.mesh # None) => scene = RawNode(MeshContent(req.mesh))
    /\ (scene # None /\ req.mesh = None /\ cache[f] # None) => scene = cache[f].node
    /\ shown # None => IF req.mesh # None THEN shown.node = RawNode(MeshContent(req.mesh))
                       ELSE cache[f] # None /\ FitTextures(shown.node) = cache[f].node

(* It needs the cached nodes to have their final textures already.         *)
LEMMA ShownAlways == Spec => []ShownInv
<1> USE NoneApart DEF engine, world
<1>1. Init => ShownInv
  BY DEF Init, ShownInv, Busy
<1>2. TypeOK /\ Faithful /\ CachedTexturesFit /\ ShownInv /\ [Next]_vars => ShownInv'
  <2> SUFFICES ASSUME TypeOK, Faithful, CachedTexturesFit, ShownInv, [Next]_vars
               PROVE  ShownInv'
    OBVIOUS
  <2>1. ASSUME NEW f \in Files, EditFile(f) \/ MoveFile(f) PROVE ShownInv'
    BY <2>1 DEF EditFile, MoveFile, Busy, ShownInv
  <2>2. ASSUME NEW f \in Files, NEW m \in Meshes \union {None}, NEW l \in {0, 1},
               Call(f, m, l)
        PROVE  ShownInv'
    BY <2>2 DEF Call, ShownInv
  <2>3. CASE ClearMex \/ Shutdown
    BY <2>3 DEF ClearMex, Shutdown, Busy, ShownInv
  <2>4. CASE Reject \/ CloseViewer \/ EndDraw \/ InitCamera \/ InitCanvas
             \/ UNCHANGED vars
    BY <2>4 DEF Reject, CloseViewer, EndDraw, InitCamera, InitCanvas, vars, Busy, ShownInv
  <2>5. CASE LoadData
    <3>1. mesh = MeshContent(req.mesh)
      BY <2>5 DEF LoadData, Faithful, AskedMesh, Busy
    <3>2. shown = None
      BY <2>5 DEF LoadData, Faithful, Busy
    <3> QED BY <2>5, <3>1, <3>2 DEF LoadData, Loaded, ShownInv
  <2>6. CASE LoadCached
    <3>1. shown = None
      BY <2>6 DEF LoadCached, Faithful, Busy
    <3> QED BY <2>6, <3>1 DEF LoadCached, Loaded, ShownInv
  <2>7. CASE LoadFile
    <3>1. shown = None /\ shown' = shown /\ UNCHANGED <<cache, req>> /\ req.mesh = None
          /\ cache[req.file] = None
      BY <2>7 DEF LoadFile, Faithful, Busy, Loaded, Throw
    <3> QED BY <3>1 DEF ShownInv
  <2>8. CASE Capture
    <3>1. req.file \in Files /\ scene \in Node /\ Busy
      BY <2>8 DEF Capture, TypeOK, Busy, Request
    <3>2. /\ cache'[req.file] \in Entry
          /\ (cache[req.file] # None => cache'[req.file] = cache[req.file] /\ scene' = scene)
          /\ (cache[req.file] = None => cache'[req.file].node = scene' /\ scene' = FitTextures(scene))
      BY <2>8, CaptureFills DEF Capture
    <3>3. shown' = shown \/ shown' = [node |-> scene, light |-> light]
      BY <2>8 DEF Capture, Throw
    <3>4. req' = req /\ scene' # None /\ cache'[req.file] # None
      BY <2>8, <3>1, <3>2, NodeType DEF Capture
    <3>5. shown # None => cache[req.file] # None
      BY <3>1 DEF Faithful
    <3>6. CASE req.mesh # None
      <4>1. scene = RawNode(MeshContent(req.mesh))
        BY <3>1, <3>6 DEF ShownInv
      <4>2. FitTextures(scene) = scene
        BY <4>1 DEF FitTextures, RawNode
      <4>3. scene' = scene
        BY <3>2, <4>2
      <4>4. shown # None => shown.node = RawNode(MeshContent(req.mesh))
        BY <3>1, <3>6 DEF ShownInv
      <4> QED BY <3>3, <3>4, <3>6, <4>1, <4>3, <4>4 DEF ShownInv
    <3>7. CASE req.mesh = None
      <4>1. scene' = cache'[req.file].node
        BY <3>1, <3>2, <3>7 DEF ShownInv
      <4>2. FitTextures(scene) = cache'[req.file].node
        <5>1. CASE cache[req.file] = None
          BY <3>2, <5>1
        <5>2. CASE cache[req.file] # None
          <6>1. scene = cache[req.file].node /\ cache'[req.file] = cache[req.file]
            BY <3>1, <3>2, <3>7, <5>2 DEF ShownInv
          <6>2. FitTextures(cache[req.file].node) = cache[req.file].node
            BY <3>1, <5>2 DEF CachedTexturesFit
          <6> QED BY <6>1, <6>2
        <5> QED BY <5>1, <5>2
      <4>3. shown # None => FitTextures(shown.node) = cache'[req.file].node
        BY <3>1, <3>2, <3>5, <3>7 DEF ShownInv
      <4>4. shown' # None => FitTextures(shown'.node) = cache'[req.file].node
        BY <3>3, <4>2, <4>3
      <4> QED BY <3>4, <3>7, <4>1, <4>4 DEF ShownInv
    <3> QED BY <3>6, <3>7
  <2> QED
    BY <2>1, <2>2, <2>3, <2>4, <2>5, <2>6, <2>7, <2>8 DEF Next, Work
<1> QED
  BY <1>1, <1>2, TypeCorrect, FaithfulInv, CachedTexturesAlwaysFit, PTL DEF Spec

(* A call that ends without an exception, on a viewer that had a context,  *)
(* has filled its outputs with the mesh it passed, or with what the cache  *)
(* holds for its name, up to the size of textures                          *)
(* (EngineOSG.cpp:711-746, :920-1004).                                     *)
THEOREM OkAlwaysShowsTheName == Spec => []OkShowsTheName
<1>1. ShownInv /\ DoneAfterShown => OkShowsTheName
  <2> SUFFICES ASSUME ShownInv, DoneAfterShown, program = "mex", pc = "shutdown", gc
               PROVE  /\ shown # None
                      /\ IF req.mesh # None THEN shown.node = RawNode(MeshContent(req.mesh))
                         ELSE FitTextures(shown.node) = cache[req.file].node
    BY DEF OkShowsTheName
  <2>1. shown # None /\ Busy
    BY DEF DoneAfterShown, Busy
  <2> QED BY <2>1 DEF ShownInv
<1> QED
  BY <1>1, ShownAlways, DoneInv, PTL

-----------------------------------------------------------------------------
(* A node is what its contents make of it, but for the size of textures:   *)
(* a file's own scene graph is centred once, mesh data never, and only     *)
(* textures of a centred node shrink.                                      *)
LightOf(r) == IF r.lighting = 1 THEN "off" ELSE "on"
ByContent(n) ==
  /\ n.centrings = IF n.content.from \in Files \ Wrl THEN 1 ELSE 0
  /\ n.textures = "fitted" => n.centrings = 1 /\ n.content.from \in Textured

PictureInv ==
  /\ scene # None => ByContent(scene)
  /\ \A f \in Files : cache[f] # None => ByContent(cache[f].node)
  /\ shown # None => ByContent(shown.node)
  /\ (reply # None /\ reply.shown # None) =>
       ByContent(reply.shown.node) /\ reply.shown.light = LightOf(reply.req)
  /\ pc \in {"load", "camera"} => light = "on"
  /\ pc \in {"canvas", "draw"} => light = LightOf(req)
  /\ (Busy /\ shown # None) => shown.light = LightOf(req)

(* Shrinking is all that tells two such nodes of the same contents apart.  *)
LEMMA SameButForTextures ==
  ASSUME NEW n \in Node, NEW o \in Node, ByContent(n), ByContent(o), n.content = o.content
  PROVE  FitTextures(n) = FitTextures(o)
<1>1. /\ n = [content |-> n.content, centrings |-> n.centrings, textures |-> n.textures]
      /\ o = [content |-> o.content, centrings |-> o.centrings, textures |-> o.textures]
      /\ n.centrings = o.centrings /\ n.textures \in {"full", "fitted"} /\ o.textures \in {"full", "fitted"}
  BY DEF Node, ByContent
<1>2. CASE n.centrings > 0 /\ n.content.from \in Textured
  BY <1>1, <1>2 DEF FitTextures
<1>3. CASE ~(n.centrings > 0 /\ n.content.from \in Textured)
  <2>1. n.textures = "full" /\ o.textures = "full"
    BY <1>1, <1>3 DEF ByContent
  <2> QED BY <1>1, <1>3, <2>1 DEF FitTextures
<1> QED BY <1>2, <1>3

(* Shrinking keeps a node of that kind.                                    *)
LEMMA FitByContent ==
  ASSUME NEW n \in Node, ByContent(n)
  PROVE  ByContent(FitTextures(n))
<1>1. CASE n.centrings > 0 /\ n.content.from \in Textured
  <2>1. FitTextures(n).textures = "fitted" /\ FitTextures(n).centrings = 1
        /\ FitTextures(n).content = n.content /\ n.centrings = 1
    BY <1>1 DEF FitTextures, Node
  <2> QED BY <1>1, <2>1 DEF ByContent
<1>2. CASE ~(n.centrings > 0 /\ n.content.from \in Textured)
  BY <1>2 DEF FitTextures
<1> QED BY <1>1, <1>2

(* Every node that is loaded, cached or shown is of that kind, and a       *)
(* picture has the light its call asked for (renderer.cpp:424-446,         *)
(* EngineOSG.cpp:1064-1089).                                               *)
LEMMA PictureAlways == Spec => []PictureInv
<1> USE NoneApart DEF engine, world
<1>1. Init => PictureInv
  BY DEF Init, PictureInv, Busy
<1>2. TypeOK /\ Faithful /\ PictureInv /\ [Next]_vars => PictureInv'
  <2> SUFFICES ASSUME TypeOK, Faithful, PictureInv, [Next]_vars PROVE PictureInv'
    OBVIOUS
  <2>1. ASSUME NEW f \in Files, EditFile(f) \/ MoveFile(f) PROVE PictureInv'
    BY <2>1 DEF EditFile, MoveFile, Busy, PictureInv
  <2>2. ASSUME NEW f \in Files, NEW m \in Meshes \union {None}, NEW l \in {0, 1},
               Call(f, m, l)
        PROVE  PictureInv'
    BY <2>2 DEF Call, PictureInv
  <2>3. CASE ClearMex
    BY <2>3 DEF ClearMex, Busy, PictureInv
  <2>4. CASE Reject \/ CloseViewer \/ EndDraw \/ InitCanvas \/ UNCHANGED vars
    BY <2>4 DEF Reject, CloseViewer, EndDraw, InitCanvas, vars, Busy, PictureInv
  <2>5. CASE InitCamera
    BY <2>5 DEF InitCamera, Busy, PictureInv, LightOf
  <2>6. CASE LoadData
    <3>1. mesh = MeshContent(req.mesh) /\ req.mesh \in Meshes /\ req.mesh \notin Files
      BY <2>6, ConstantsOK DEF LoadData, Faithful, AskedMesh, Busy, TypeOK, Request
    <3>2. ByContent(RawNode(mesh))
      BY <3>1 DEF ByContent, RawNode, MeshContent
    <3> QED BY <2>6, <3>2 DEF LoadData, Loaded, PictureInv, Busy
  <2>7. CASE LoadCached
    <3>1. req.file \in Files
      BY <2>7 DEF LoadCached, TypeOK, Busy, Request
    <3> QED BY <2>7, <3>1 DEF LoadCached, Loaded, PictureInv, Busy
  <2>8. CASE LoadFile
    <3> DEFINE c == FileContent(req.file, disk[req.file])
    <3>1. req.file \in Files
      BY <2>8 DEF LoadFile, TypeOK, Busy, Request
    <3>2. /\ req.file \in Wrl => ByContent(RawNode(c))
          /\ req.file \notin Wrl => ByContent(CenterModel(RawNode(c)))
      BY <3>1 DEF ByContent, RawNode, CenterModel, FileContent
    <3> HIDE DEF c
    <3>3. \/ scene' = CenterModel(RawNode(c)) /\ req.file \notin Wrl /\ pc' = "camera"
          \/ scene' = RawNode(c) /\ req.file \in Wrl /\ pc' = "camera"
          \/ scene' = scene /\ pc' = "unwind"
      BY <2>8 DEF LoadFile, Loaded, Throw, c
    <3>4. UNCHANGED <<cache, req, shown, reply, light>> /\ pc = "load"
      BY <2>8 DEF LoadFile, Loaded, Throw
    <3> QED BY <3>2, <3>3, <3>4 DEF PictureInv, Busy
  <2>9. CASE Capture
    <3>1. req.file \in Files /\ scene \in Node /\ Busy /\ pc = "draw"
      BY <2>9 DEF Capture, TypeOK, Busy, Request
    <3>2. ByContent(scene) /\ light = LightOf(req)
      BY <3>1 DEF PictureInv
    <3>3. ByContent(scene')
      BY <2>9, <3>1, <3>2, FitByContent DEF Capture
    <3>4. ASSUME NEW f \in Files, cache'[f] # None PROVE ByContent(cache'[f].node)
      <4>1. CASE f = req.file /\ cache[f] = None
        BY <2>9, <3>3, <4>1, CaptureFills
      <4>2. CASE ~(f = req.file /\ cache[f] = None)
        <5>1. cache'[f] = cache[f]
          BY <2>9, <4>2, CaptureFills
        <5> QED BY <3>4, <5>1 DEF PictureInv
      <4> QED BY <4>1, <4>2
    <3>5. shown' = shown \/ shown' = [node |-> scene, light |-> light]
      BY <2>9 DEF Capture, Throw
    <3>6. pc' \in {"draw", "unwind"} /\ UNCHANGED <<req, reply, light>>
      BY <2>9, <3>1 DEF Capture, Throw
    <3>7. (shown' # None => ByContent(shown'.node) /\ shown'.light = LightOf(req))
      BY <3>1, <3>2, <3>5 DEF PictureInv
    <3> QED BY <3>1, <3>2, <3>3, <3>4, <3>6, <3>7 DEF PictureInv, LightOf
  <2>10. CASE Shutdown
    <3>1. /\ reply' = [req |-> req, shown |-> shown,
                       outcome |-> IF pc = "unwind" THEN "error" ELSE "ok"]
          /\ UNCHANGED <<scene, cache, shown, light, req>> /\ pc' \in {"idle", "exit"} /\ Busy
      BY <2>10 DEF Shutdown, Busy
    <3>2. reply'.shown = shown /\ reply'.req = req
      BY <3>1
    <3>3. shown # None => ByContent(shown.node) /\ shown.light = LightOf(req)
      BY <3>1 DEF PictureInv
    <3> QED BY <3>1, <3>2, <3>3 DEF PictureInv, Busy, LightOf
  <2> QED
    BY <2>1, <2>2, <2>3, <2>4, <2>5, <2>6, <2>7, <2>8, <2>9, <2>10 DEF Next, Work
<1> QED
  BY <1>1, <1>2, TypeCorrect, FaithfulInv, PTL DEF Spec

(* What SameResults misses is the size of textures and nothing else: two   *)
(* calls in a row with the same lighting that show the same contents, by   *)
(* whatever name or mesh, show the same picture up to FitTextures          *)
(* (EngineOSG.cpp:718, renderer.cpp:168).                                  *)
SameUpToTextures ==
  [][(/\ reply # None /\ reply' # None
      /\ reply.shown # None /\ reply'.shown # None
      /\ reply'.req.lighting = reply.req.lighting
      /\ reply'.shown.node.content = reply.shown.node.content)
     => /\ reply'.shown.light = reply.shown.light
        /\ FitTextures(reply'.shown.node) = FitTextures(reply.shown.node)]_reply

(* The same results, up to the size of textures (renderer.cpp:168).        *)
THEOREM ResultsSameUpToTextures == Spec => SameUpToTextures
<1> DEFINE Asked == /\ reply # None /\ reply' # None
                    /\ reply.shown # None /\ reply'.shown # None
                    /\ reply'.req.lighting = reply.req.lighting
                    /\ reply'.shown.node.content = reply.shown.node.content
           Same == /\ reply'.shown.light = reply.shown.light
                   /\ FitTextures(reply'.shown.node) = FitTextures(reply.shown.node)
<1>1. ASSUME TypeOK, TypeOK', PictureInv, PictureInv', Asked PROVE Same
  <2>1. /\ reply.shown.node \in Node /\ reply'.shown.node \in Node
    BY <1>1 DEF TypeOK, Reply, Picture
  <2>2. /\ ByContent(reply.shown.node) /\ ByContent(reply'.shown.node)
        /\ reply.shown.light = LightOf(reply.req) /\ reply'.shown.light = LightOf(reply'.req)
    BY <1>1 DEF PictureInv, ByContent, LightOf
  <2>3. reply'.shown.light = reply.shown.light
    BY <1>1, <2>2 DEF LightOf
  <2> QED BY <1>1, <2>1, <2>2, <2>3, SameButForTextures
<1> HIDE DEF Asked, Same
<1>2. TypeOK /\ TypeOK' /\ PictureInv /\ PictureInv' => [Asked => Same]_reply
  BY <1>1
<1>3. [][Asked => Same]_reply <=> SameUpToTextures
  BY PTL DEF SameUpToTextures, Asked, Same
<1> QED
  BY <1>2, <1>3, TypeCorrect, PictureAlways, PTL

-----------------------------------------------------------------------------
(* Steps a call has left, the exception path included.                     *)
StepsLeft ==
  CASE pc = "load" -> 6 [] pc = "camera" -> 5 [] pc = "canvas" -> 4
    [] pc = "draw" -> (IF done THEN 2 ELSE 3)
    [] pc \in {"shutdown", "unwind"} -> 1
    [] OTHER -> 0

(* Every step of a call brings it nearer to its end, by return or by       *)
(* exception; files that change meanwhile do not take it back, and no      *)
(* other call begins before: the part of EveryCallReturns that is not      *)
(* fairness (renderer.cpp:49-79, EngineOSG.cpp:1271-1278).                 *)
THEOREM CallsRunDown ==
  Spec => [][Busy => IF Work \/ CloseViewer THEN StepsLeft' < StepsLeft
                     ELSE StepsLeft' = StepsLeft]_vars
<1>1. ASSUME TypeOK, [Next]_vars, Busy
      PROVE  IF Work \/ CloseViewer THEN StepsLeft' < StepsLeft ELSE StepsLeft' = StepsLeft
  <2> USE <1>1 DEF engine, world
  <2>1. CASE LoadData \/ LoadCached \/ LoadFile
    <3>1. pc = "load" /\ pc' \in {"camera", "unwind"}
      BY <2>1 DEF LoadData, LoadCached, LoadFile, Loaded, Throw
    <3> QED BY <2>1, <3>1 DEF StepsLeft, Work
  <2>2. CASE InitCamera
    BY <2>2 DEF InitCamera, StepsLeft, Work
  <2>3. CASE InitCanvas
    <3>1. pc = "canvas" /\ pc' = "draw"
      BY <2>3 DEF InitCanvas
    <3> QED BY <2>3, <3>1 DEF StepsLeft, Work
  <2>4. CASE Capture
    <3>1. pc = "draw" /\ ~done /\ (pc' = "unwind" \/ (pc' = "draw" /\ done' = TRUE))
      BY <2>4 DEF Capture, Throw
    <3> QED BY <2>4, <3>1 DEF StepsLeft, Work
  <2>5. CASE CloseViewer
    <3>1. pc = "draw" /\ ~done /\ pc' = "draw" /\ done' = TRUE
      BY <2>5 DEF CloseViewer
    <3> QED BY <2>5, <3>1 DEF StepsLeft
  <2>6. CASE EndDraw
    BY <2>6 DEF EndDraw, StepsLeft, Work
  <2>7. CASE Shutdown
    <3>1. pc \in {"shutdown", "unwind"} /\ pc' \in {"idle", "exit"}
      BY <2>7 DEF Shutdown
    <3> QED BY <2>7, <3>1 DEF StepsLeft, Work
  <2>8. CASE ~(Work \/ CloseViewer)
    <3>1. UNCHANGED <<pc, done>>
      BY <2>8 DEF Next, EditFile, MoveFile, ClearMex, Reject, Call, Busy, vars
    <3> QED BY <2>8, <3>1 DEF StepsLeft
  <2> QED
    BY <2>1, <2>2, <2>3, <2>4, <2>5, <2>6, <2>7, <2>8 DEF Work
<1>2. TypeOK /\ [Next]_vars
      => [Busy => IF Work \/ CloseViewer THEN StepsLeft' < StepsLeft
                  ELSE StepsLeft' = StepsLeft]_vars
  BY <1>1
<1> QED
  BY <1>2, TypeCorrect, PTL DEF Spec

-----------------------------------------------------------------------------
(* Only the callback and `clear mex' change what a name means, and only    *)
(* the end of a call and a refused call change the answer.                 *)
LEMMA SessionStutters ==
  ASSUME UNCHANGED <<cache, reply>>
  PROVE  UNCHANGED Session!vars
  BY DEF Session!vars, Meaning, Answer, AskedMesh

(* Only the callback of the first drawing binds the name. *)
LEMMA CaptureBinds ==
  ASSUME TypeOK, Faithful, Capture
  PROVE  [Session!Next]_Session!vars
<1> DEFINE f == req.file
<1> USE NoneApart
<1>1. f \in Files /\ req \in Request /\ Busy /\ scene \in Node
  BY DEF Capture, TypeOK, Busy, Request
<1>2. Answer' = Answer
  BY DEF Capture, Answer, AskedMesh
<1>3. \A g \in Files \ {f} : cache'[g] = cache[g]
  BY CaptureFills
<1>4. CASE cache[f] # None
  <2>1. cache' = cache
    BY <1>4 DEF Capture
  <2>2. Meaning' = Meaning
    BY <2>1 DEF Meaning
  <2> QED
    BY <1>2, <2>2 DEF Session!vars
<1>5. CASE cache[f] = None
  <2> DEFINE c == scene.content
  <2>1. cache'[f] # None /\ cache'[f].node.content = c
    <3>1. cache'[f] \in Entry /\ cache'[f].node = scene'
      BY <1>5, CaptureFills
    <3>2. scene' = FitTextures(scene)
      BY <1>5 DEF Capture
    <3> QED
      BY <1>1, <3>1, <3>2, FitKeeps
  <2>2. c \in FileVersions(f) \union {MeshContent(m) : m \in Meshes}
    <3>1. CASE req.mesh = None
      BY <1>1, <1>5, <3>1 DEF Faithful
    <3>2. CASE req.mesh # None
      <4>1. req.mesh \in Meshes
        BY <1>1, <3>2 DEF Request
      <4>2. c = MeshContent(req.mesh)
        BY <1>1, <3>2 DEF Faithful
      <4> QED
        BY <4>1, <4>2
    <3> QED
      BY <3>1, <3>2
  <2>3. Meaning' = [Meaning EXCEPT ![f] = c] /\ Meaning[f] = None
    <3>1. Meaning' = [g \in Files |-> IF g = f THEN c ELSE Meaning[g]]
      BY <1>1, <1>3, <2>1 DEF Meaning
    <3>2. [Meaning EXCEPT ![f] = c] = [g \in Files |-> IF g = f THEN c ELSE Meaning[g]]
      BY <1>1 DEF Meaning
    <3> QED
      BY <1>1, <1>5, <3>1, <3>2 DEF Meaning
  <2> HIDE DEF c
  <2>4. Session!Bind(f)
    BY <1>1, <1>2, <2>2, <2>3 DEF Session!Bind, FileVersions
  <2> QED
    BY <1>1, <2>4 DEF Session!Next
<1> QED
  BY <1>4, <1>5

(* A call that ends gives the answer of the session. *)
LEMMA ShutdownAnswers ==
  ASSUME TypeOK, Faithful, Shutdown
  PROVE  Session!Next
<1> DEFINE f == req.file
           s == IF shown = None THEN None ELSE shown.node.content
<1> USE NoneApart
<1>1. f \in Files /\ req \in Request /\ Busy
  BY DEF Shutdown, TypeOK, Busy, Request
<1>2. Meaning' = Meaning
  BY DEF Shutdown, Meaning
<1>3. reply' = [req |-> req, shown |-> shown,
                outcome |-> IF pc = "unwind" THEN "error" ELSE "ok"]
  BY DEF Shutdown
<1>4. reply' # None
  BY <1>1, <1>3 DEF Shutdown, TypeOK, Reply
<1>5. Answer' = [file |-> f, mesh |-> AskedMesh(req), shown |-> s]
  BY <1>3, <1>4 DEF Answer, AskedMesh
<1>6. CASE shown = None
  <2>1. AskedMesh(req) \in {MeshContent(m) : m \in Meshes} \union {None}
    BY <1>1 DEF AskedMesh, Request
  <2> QED
    BY <1>1, <1>2, <1>5, <1>6, <2>1 DEF Session!Next, Session!AnswerNothing
<1>7. CASE shown # None /\ req.mesh # None
  <2>1. req.mesh \in Meshes /\ AskedMesh(req) = MeshContent(req.mesh)
    BY <1>1, <1>7 DEF AskedMesh, Request
  <2>2. s = MeshContent(req.mesh)
    BY <1>1, <1>7 DEF Faithful
  <2>3. Session!AnswerMesh(f, MeshContent(req.mesh))
    BY <1>2, <1>5, <2>1, <2>2 DEF Session!AnswerMesh
  <2> QED
    BY <1>1, <2>1, <2>3 DEF Session!Next
<1>8. CASE shown # None /\ req.mesh = None
  <2>1. cache[f] # None /\ s = cache[f].node.content
    BY <1>1, <1>8 DEF Faithful
  <2>2. Meaning[f] = s
    BY <1>1, <2>1 DEF Meaning
  <2>3. s # None
    BY <1>8 DEF TypeOK, Picture, Node
  <2>4. AskedMesh(req) = None
    BY <1>8 DEF AskedMesh
  <2>5. Session!AnswerFile(f)
    BY <1>2, <1>5, <2>2, <2>3, <2>4 DEF Session!AnswerFile
  <2> QED
    BY <1>1, <2>5 DEF Session!Next
<1> QED
  BY <1>6, <1>7, <1>8

(* Renderer implements RenderSession: what a file name means is fixed by   *)
(* the first call that draws it (EngineOSG.cpp:712, :955), whatever is     *)
(* edited, moved, passed in memory or thrown in between.                   *)
THEOREM ImplementsSession == Spec => FirstDrawingBindsTheName
<1> USE DEF engine, world
<1>1. Init => Session!Init
  BY DEF Init, Session!Init, Meaning, Answer
<1>2. TypeOK /\ Faithful /\ [Next]_vars => [Session!Next]_Session!vars
  <2> SUFFICES ASSUME TypeOK, Faithful, [Next]_vars
               PROVE  [Session!Next]_Session!vars
    OBVIOUS
  <2>1. CASE Capture
    BY <2>1, CaptureBinds
  <2>2. CASE Shutdown
    BY <2>2, ShutdownAnswers
  <2>3. CASE Reject
    BY <2>3 DEF Reject, Session!Next, Session!Refuse, Meaning, Answer
  <2>4. CASE ClearMex
    <3>1. Meaning' = [f \in Files |-> None]
      BY <2>4 DEF ClearMex, Meaning
    <3>2. Answer' = Answer
      BY <2>4 DEF ClearMex, Answer, AskedMesh
    <3> QED
      BY <3>1, <3>2 DEF Session!Next, Session!Forget
  <2>5. ASSUME NEW f \in Files, EditFile(f) \/ MoveFile(f)
        PROVE  UNCHANGED <<cache, reply>>
    BY <2>5 DEF EditFile, MoveFile
  <2>6. ASSUME NEW f \in Files, NEW m \in Meshes \union {None}, NEW l \in {0, 1},
               Call(f, m, l)
        PROVE  UNCHANGED <<cache, reply>>
    BY <2>6 DEF Call
  <2>7. CASE LoadData \/ LoadCached \/ LoadFile \/ InitCamera \/ InitCanvas
             \/ CloseViewer \/ EndDraw \/ UNCHANGED vars
    <3>1. UNCHANGED <<cache, reply>>
      BY <2>7 DEF LoadData, LoadCached, LoadFile, InitCamera, InitCanvas,
                  CloseViewer, EndDraw, vars
    <3> QED
      BY <3>1, SessionStutters
  <2> QED
    BY <2>1, <2>2, <2>3, <2>4, <2>5, <2>6, <2>7, SessionStutters DEF Next, Work
<1> QED
  BY <1>1, <1>2, TypeCorrect, FaithfulInv, PTL
  DEF Spec, FirstDrawingBindsTheName, Session!Spec
=============================================================================
