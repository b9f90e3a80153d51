------------------------------ MODULE Renderer ------------------------------
(***************************************************************************)
(* A process that renders meshes: either Matlab calling the renderer MEX   *)
(* file (mexFunction, off screen, any number of calls) or the stand-alone  *)
(* main() (on screen, one call).  One call creates an Engine, loads the    *)
(* mesh, sets up the camera and the canvas, draws frames until the viewer  *)
(* is done and shuts the engine down; an exception anywhere in between     *)
(* goes through shutdown as well.  The map `cache' of EngineOSG.cpp is     *)
(* static: it outlives the calls, until the MEX file is unloaded.          *)
(*                                                                         *)
(* A mesh is abstracted to where it came from and, for a file, to the      *)
(* version of the file it was read from.                                   *)
(***************************************************************************)
EXTENDS Naturals

CONSTANTS
  Files,       \* mesh file names
  Wrl,         \* the ones that contain ".wrl": mesh data is extracted
  Textured,    \* files whose textures exceed 512 pixels
  Meshes,      \* meshes a caller passes in memory
  MaxVersion,  \* bound: how many contents a file goes through
  Unsound,     \* file contents with transforms validateModelView rejects
  Hollow,      \* contents of .wrl files that yield no vertices
  None

FileContent(f, v) == [from |-> f, version |-> v]
MeshContent(m) == [from |-> m, version |-> 0]
FileContents == {FileContent(f, v) : f \in Files, v \in 1..MaxVersion}
Content == FileContents \union {MeshContent(m) : m \in Meshes}

(* Scene graph nodes.  centrings counts the transforms centerModel put on  *)
(* top; the textures are as in the file until MyTexture shrinks them.      *)
Node == [content : Content, centrings : {0, 1}, textures : {"full", "fitted"}]
RawNode(c) == [content |-> c, centrings |-> 0, textures |-> "full"]
CenterModel(n) == [n EXCEPT !.centrings = @ + 1]
FitTextures(n) ==
  IF n.centrings > 0 /\ n.content.from \in Textured
  THEN [n EXCEPT !.textures = "fitted"] ELSE n

(* getModelMatrix follows the first child only.  A geode built by          *)
(* drawFromData has no transform above it, so it always passes.            *)
ValidateModelView(n) == n.centrings = 0 \/ n.content \notin Unsound

MeshData == Content \union {None}
Entry == [node : Node, mesh : MeshData]
Request == [file : Files, mesh : Meshes \union {None}, lighting : {0, 1}]
AskedMesh(r) == IF r.mesh = None THEN None ELSE MeshContent(r.mesh)
Picture == [node : Node, light : {"on", "off"}]
Reply == [req : Request, outcome : {"ok", "error"}, shown : Picture \union {None}]
Callback == [mesh : MeshData]

ASSUME MaxVersionOK == MaxVersion \in Nat \ {0}

ASSUME ConstantsOK ==
  /\ Wrl \subseteq Files /\ Textured \subseteq Files
  /\ Files \intersect Meshes = {}
  /\ Unsound \subseteq FileContents /\ Hollow \subseteq FileContents
  /\ \A S \in {Files, Meshes, Content, Node, Entry, Request, Picture, Reply, Callback} :
       None \notin S

VARIABLES
  disk,      \* disk[f]: version of file f
  readable,  \* files that can be opened
  program,   \* "mex" or "main"
  cache,     \* the static map of EngineOSG.cpp
  pc, req,   \* where the current call is, and its arguments
  scene,     \* viewer->getSceneData()
  mesh,      \* engine->meshData
  callback,  \* final draw callback: its copy of meshData, or None
  handler,   \* the viewer holds a KeyboardEventHandler
  light,     \* GL_LIGHTING while drawing
  gc,        \* the camera has a graphics context
  done,      \* viewer->done()
  shown,     \* picture copied to the outputs by this call
  leaked,    \* viewers of finished calls kept alive by a reference cycle
  reply,     \* how the last call ended
  dirty      \* history: names that need not mean what is on disk

engine == <<scene, mesh, callback, handler, light, gc, done, shown>>
world == <<disk, readable, dirty>>
vars == <<disk, readable, program, cache, pc, req, scene, mesh, callback,
          handler, light, gc, done, shown, leaked, reply, dirty>>

OffScreen == program = "mex"
Busy == pc \notin {"idle", "exit"}

Init ==
  /\ disk = [f \in Files |-> 1]
  /\ readable \in SUBSET Files
  /\ program \in {"mex", "main"}
  /\ cache = [f \in Files |-> None]
  /\ pc = "idle" /\ req = None
  /\ scene = None /\ mesh = None /\ callback = None
  /\ handler = FALSE /\ light = "on" /\ gc = FALSE /\ done = FALSE
  /\ shown = None /\ leaked = 0 /\ reply = None
  /\ dirty = {}

-----------------------------------------------------------------------------
(* The world outside: files are rewritten, moved away and moved back.      *)

EditFile(f) ==
  /\ disk[f] < MaxVersion
  /\ disk' = [disk EXCEPT ![f] = @ + 1]
  /\ dirty' = IF cache[f] # None \/ (Busy /\ req.file = f)
              THEN dirty \union {f} ELSE dirty
  /\ UNCHANGED <<readable, program, cache, pc, req, engine, leaked, reply>>

MoveFile(f) ==
  /\ readable' = IF f \in readable THEN readable \ {f} ELSE readable \union {f}
  /\ UNCHANGED <<disk, dirty, program, cache, pc, req, engine, leaked, reply>>

(* `clear mex' destroys the statics of the MEX file. *)
ClearMex ==
  /\ pc = "idle" /\ program = "mex"
  /\ cache' = [f \in Files |-> None]
  /\ dirty' = {}
  /\ UNCHANGED <<disk, readable, program, pc, req, engine, leaked, reply>>

-----------------------------------------------------------------------------
(* mexFunction: every argument is checked before an Engine exists.         *)

Reject ==
  /\ pc = "idle" /\ program = "mex"
  /\ reply' = None
  /\ UNCHANGED <<world, program, cache, pc, req, engine, leaked>>

(* mexFunction or main, up to the try block of run(): a new engine with a  *)
(* new viewer.  main() passes no mesh and no lighting.                     *)
Call(f, m, l) ==
  /\ pc = "idle"
  /\ program = "main" => m = None /\ l = 0
  /\ pc' = "load"
  /\ req' = [file |-> f, mesh |-> m, lighting |-> l]
  /\ mesh' = IF m = None THEN None ELSE MeshContent(m)
  /\ scene' = None /\ callback' = None /\ handler' = FALSE
  /\ light' = "on" /\ gc' = FALSE /\ done' = FALSE /\ shown' = None
  /\ dirty' = IF m # None /\ cache[f] = None THEN dirty \union {f} ELSE dirty
  /\ UNCHANGED <<disk, readable, program, cache, leaked, reply>>

(* An exception leaves the try block of run() for its shutdown. *)
Throw == pc' = "unwind" /\ UNCHANGED <<callback, handler, light, gc, done, shown>>

Loaded(node, data) ==
  /\ pc' = "camera" /\ scene' = node /\ mesh' = data
  /\ UNCHANGED <<callback, handler, light, gc, done, shown>>

(* Mutant of LoadData: a known name wins over the mesh passed. *)
LoadDataLookingUp ==
  /\ pc = "load" /\ req.mesh # None
  /\ IF cache[req.file] = None THEN Loaded(RawNode(mesh), mesh)
     ELSE Loaded(cache[req.file].node, cache[req.file].mesh)
  /\ UNCHANGED <<world, program, cache, req, leaked, reply>>

(* initData: the mesh of the arguments; the cache is not looked at. *)
LoadData ==
  /\ pc = "load" /\ req.mesh # None
  /\ Loaded(RawNode(mesh), mesh)
  /\ UNCHANGED <<world, program, cache, req, leaked, reply>>

(* Mutant of LoadCached: the cached node is centred once more. *)
LoadCachedCentring ==
  /\ pc = "load" /\ req.mesh = None
  /\ cache[req.file] # None
  /\ Loaded(CenterModel(cache[req.file].node), cache[req.file].mesh)
  /\ UNCHANGED <<world, program, cache, req, leaked, reply>>

(* drawFromFileAndData, found in cache: the file is not looked at. *)
LoadCached ==
  /\ pc = "load" /\ req.mesh = None
  /\ cache[req.file] # None
  /\ Loaded(cache[req.file].node, cache[req.file].mesh)
  /\ UNCHANGED <<world, program, cache, req, leaked, reply>>

(* Mutant of LoadFile: a file that can be read is read each time. *)
LoadFileAlways ==
  /\ pc = "load" /\ req.mesh = None
  /\ req.file \in readable \ Wrl
  /\ Loaded(CenterModel(RawNode(FileContent(req.file, disk[req.file]))), mesh)
  /\ UNCHANGED <<world, program, cache, req, leaked, reply>>

(* drawFromFileAndData, not in cache: read and centre the file; a .wrl     *)
(* file is then replaced by the geode drawFromData builds of its mesh      *)
(* data, which throws when there are no vertices.                          *)
LoadFile ==
  /\ pc = "load" /\ req.mesh = None
  /\ cache[req.file] = None
  /\ LET c == FileContent(req.file, disk[req.file]) IN
       \/ /\ req.file \in readable \ Wrl
          /\ Loaded(CenterModel(RawNode(c)), mesh)
       \/ /\ req.file \in readable \intersect Wrl
          /\ c \notin Hollow
          /\ Loaded(RawNode(c), c)
       \/ /\ req.file \notin readable \/ (req.file \in Wrl /\ c \in Hollow)
          /\ Throw
          /\ UNCHANGED <<scene, mesh>>
  /\ UNCHANGED <<world, program, cache, req, leaked, reply>>

(* Mutant of InitCamera: the copy is that of the engine before loading. *)
InitCameraEarlyCopy ==
  /\ pc = "camera"
  /\ callback' = IF OffScreen THEN [mesh |-> AskedMesh(req)] ELSE None
  /\ light' = IF req.lighting = 1 THEN "off" ELSE light
  /\ pc' = "canvas"
  /\ UNCHANGED <<world, program, cache, req, scene, mesh, handler, gc, done,
                 shown, leaked, reply>>

(* initCamera.  The callback holds a copy of the engine, taken here. *)
InitCamera ==
  /\ pc = "camera"
  /\ callback' = IF OffScreen THEN [mesh |-> mesh] ELSE None
  /\ light' = IF req.lighting = 1 THEN "off" ELSE light
  /\ pc' = "canvas"
  /\ UNCHANGED <<world, program, cache, req, scene, mesh, handler, gc, done,
                 shown, leaked, reply>>

(* initCanvas: a pbuffer, a window instead, or no context at all. *)
InitCanvas ==
  /\ pc = "canvas"
  /\ gc' \in BOOLEAN
  /\ handler' = ~OffScreen
  /\ pc' = "draw"
  /\ UNCHANGED <<world, program, cache, req, scene, mesh, callback, light, done,
                 shown, leaked, reply>>

(* Mutant of Capture: every drawing writes its entry. *)
CaptureOverwriting ==
  LET node == FitTextures(scene) IN
  /\ pc = "draw" /\ ~done /\ gc /\ callback # None
  /\ scene' = node
  /\ cache' = [cache EXCEPT ![req.file] = [node |-> node, mesh |-> callback.mesh]]
  /\ shown' = [node |-> scene, light |-> light]
  /\ done' = TRUE
  /\ UNCHANGED <<world, program, pc, req, mesh, callback, handler, light, gc,
                 leaked, reply>>

(* Mutant of Capture: textures are shrunk after validateModelView. *)
CaptureFittingLast ==
  LET Insert(n) == cache' = IF cache[req.file] # None THEN cache
                            ELSE [cache EXCEPT ![req.file] =
                                    [node |-> n, mesh |-> callback.mesh]]
  IN
  /\ pc = "draw" /\ ~done /\ gc /\ callback # None
  /\ \/ /\ ValidateModelView(scene)
        /\ scene' = FitTextures(scene) /\ Insert(scene')
        /\ shown' = [node |-> scene, light |-> light]
        /\ done' = TRUE
        /\ UNCHANGED <<pc, callback, handler, light, gc>>
     \/ /\ ~ValidateModelView(scene)
        /\ Insert(scene) /\ Throw /\ UNCHANGED scene
  /\ UNCHANGED <<world, program, req, mesh, leaked, reply>>

(* Mutant of Capture: the viewer is not told that it is done. *)
CaptureWithoutDone ==
  /\ pc = "draw" /\ ~done /\ gc /\ callback # None
  /\ ValidateModelView(scene)
  /\ shown' = [node |-> scene, light |-> light]
  /\ UNCHANGED <<world, program, cache, pc, req, scene, mesh, callback, handler,
                 light, gc, done, leaked, reply>>

(* CaptureCB::operator(), run by viewer->frame() off screen: fill the      *)
(* cache if the name is new (and shrink the textures of the node it now    *)
(* shares), validate, copy the picture to the outputs, end the loop.       *)
Capture ==
  LET hit == cache[req.file] # None
      node == IF hit THEN scene ELSE FitTextures(scene)
  IN
  /\ pc = "draw" /\ ~done /\ gc /\ callback # None
  /\ scene' = node
  /\ cache' = IF hit THEN cache
              ELSE [cache EXCEPT ![req.file] = [node |-> node, mesh |-> callback.mesh]]
  /\ \/ /\ ValidateModelView(scene)
        /\ shown' = [node |-> scene, light |-> light]
        /\ done' = TRUE
        /\ UNCHANGED <<pc, callback, handler, light, gc>>
     \/ /\ ~ValidateModelView(scene)
        /\ Throw
  /\ UNCHANGED <<world, program, req, mesh, leaked, reply>>

(* viewer->frame() without a callback draws until the user closes the      *)
(* window; without a context the viewer gives up at once.                  *)
CloseViewer ==
  /\ pc = "draw" /\ ~done
  /\ callback = None \/ ~gc
  /\ done' = TRUE
  /\ UNCHANGED <<world, program, cache, pc, req, scene, mesh, callback,
                 handler, light, gc, shown, leaked, reply>>

EndDraw ==
  /\ pc = "draw" /\ done
  /\ pc' = "shutdown"
  /\ UNCHANGED <<world, program, cache, req, engine, leaked, reply>>

(* Mutant of Shutdown: the exception path forgets the callback. *)
ShutdownOnReturnOnly ==
  /\ pc \in {"shutdown", "unwind"}
  /\ callback' = IF pc = "unwind" THEN callback ELSE None
  /\ leaked' = IF callback' # None \/ handler THEN leaked + 1 ELSE leaked
  /\ reply' = [req |-> req, shown |-> shown,
               outcome |-> IF pc = "unwind" THEN "error" ELSE "ok"]
  /\ pc' = IF program = "mex" THEN "idle" ELSE "exit"
  /\ UNCHANGED <<world, program, cache, req, scene, mesh, handler, light, gc,
                 done, shown>>

(* shutdown, then `delete engine'.  The callback goes; the handler stays,  *)
(* because the list that is cleared is a copy.  Each of them holds a copy  *)
(* of the engine, hence a reference to the viewer that holds them.         *)
Shutdown ==
  /\ pc \in {"shutdown", "unwind"}
  /\ callback' = None
  /\ leaked' = IF callback' # None \/ handler THEN leaked + 1 ELSE leaked
  /\ reply' = [req |-> req, shown |-> shown,
               outcome |-> IF pc = "unwind" THEN "error" ELSE "ok"]
  /\ pc' = IF program = "mex" THEN "idle" ELSE "exit"
  /\ UNCHANGED <<world, program, cache, req, scene, mesh, handler, light, gc,
                 done, shown>>

Work == \/ LoadData \/ LoadCached \/ LoadFile
        \/ InitCamera \/ InitCanvas \/ Capture \/ EndDraw \/ Shutdown

Next == \/ \E f \in Files : EditFile(f) \/ MoveFile(f)
        \/ ClearMex \/ Reject
        \/ \E f \in Files, m \in Meshes \union {None}, l \in {0, 1} : Call(f, m, l)
        \/ Work \/ CloseViewer

(* One thread runs a call to its end.  CloseViewer is the viewer's own     *)
(* giving up when it has no context; a window is closed only if the user   *)
(* closes it, so on screen no fairness is assumed of it.                   *)
Fairness == WF_vars(Work) /\ WF_vars(OffScreen /\ CloseViewer)

Spec == Init /\ [][Next]_vars /\ Fairness
-----------------------------------------------------------------------------
TypeOK ==
  /\ disk \in [Files -> 1..MaxVersion] /\ readable \subseteq Files
  /\ program \in {"mex", "main"}
  /\ cache \in [Files -> Entry \union {None}]
  /\ pc \in {"idle", "load", "camera", "canvas", "draw", "unwind", "shutdown", "exit"}
  /\ req \in Request \union {None} /\ (Busy => req # None)
  /\ scene \in Node \union {None}
  /\ (pc \in {"camera", "canvas", "draw", "shutdown"} => scene # None)
  /\ mesh \in MeshData /\ (pc = "load" /\ req.mesh # None => mesh # None)
  /\ callback \in Callback \union {None}
  /\ handler \in BOOLEAN /\ light \in {"on", "off"} /\ gc \in BOOLEAN /\ done \in BOOLEAN
  /\ shown \in Picture \union {None}
  /\ leaked \in Nat
  /\ reply \in Reply \union {None}
  /\ dirty \subseteq Files

(* The cache is exact for every name that was never drawn from a passed    *)
(* mesh while unknown, and whose file did not change since a call began to *)
(* use it: EngineOSG.cpp:712 (insertion) against :955 (lookup).            *)
CleanCacheIsExact ==
  \A f \in Files : f \notin dirty /\ cache[f] # None
                     => cache[f].node.content = FileContent(f, disk[f])

(* Node and mesh data of an entry are inserted together in the callback    *)
(* but come from different places, the viewer and the engine copy made in  *)
(* initCamera (EngineOSG.cpp:714-716): they describe the same mesh, and    *)
(* only a node without extracted data has none.                            *)
CacheEntryCoherent ==
  \A f \in Files : cache[f] # None =>
    LET e == cache[f] IN
      e.mesh = IF e.node.centrings > 0 THEN None ELSE e.node.content

(* Texture sizes are settled before anyone can draw a cached node again,   *)
(* also when the insertion is followed by an exception                     *)
(* (EngineOSG.cpp:716-721).                                                *)
CachedTexturesFit ==
  \A f \in Files : cache[f] # None => FitTextures(cache[f].node) = cache[f].node

(* Off screen no call leaves its viewer behind, whether it returns or      *)
(* throws: the callback's copy of the engine is dropped (renderer.cpp:72,  *)
(* :76).  On screen the key handler's copy stays, in spite of the comment  *)
(* at EngineOSG.cpp:1281, as shutdown clears a copy of the list (1283).    *)
NoViewerLeaks == program = "mex" => leaked = 0

(* A call that returns without an error, and whose viewer had a graphics   *)
(* context, has filled its outputs with the mesh it passed, as it was      *)
(* passed, or with the node the cache now holds for the file name but for  *)
(* the size of its textures: centred once, however often it was drawn      *)
(* (EngineOSG.cpp:711-746, :920-1004).                                     *)
OkShowsTheName ==
  (program = "mex" /\ pc = "shutdown" /\ gc) =>
    /\ shown # None
    /\ IF req.mesh # None THEN shown.node = RawNode(MeshContent(req.mesh))
       ELSE FitTextures(shown.node) = cache[req.file].node

(* Every MEX call gives control back to Matlab (the do-while of            *)
(* EngineOSG.cpp:1274 ends, on the exception path as well).                *)
EveryCallReturns == (Busy /\ OffScreen) ~> pc = "idle"

(* The session as its users see it: what each name means, and what the     *)
(* last call asked and was shown.                                          *)
Meaning == [f \in Files |-> IF cache[f] = None THEN None ELSE cache[f].node.content]
Answer == IF reply = None THEN None
          ELSE [file |-> reply.req.file, mesh |-> AskedMesh(reply.req),
                shown |-> IF reply.shown = None THEN None
                          ELSE reply.shown.node.content]

Session == INSTANCE RenderSession WITH
  Contents <- [f \in Files |-> {FileContent(f, v) : v \in 1..MaxVersion}],
  Meshes <- {MeshContent(m) : m \in Meshes},
  bound <- Meaning, answer <- Answer

(* What a file name means is fixed by the first call that draws it.        *)
FirstDrawingBindsTheName == Session!Spec

(* "will yield the same results" (renderer.cpp:168, demo.m:29): two calls  *)
(* in a row that show the same contents show the same picture.             *)
SameResults ==
  [][(/\ reply # None /\ reply' # None
      /\ reply.shown # None /\ reply'.shown # None
      /\ reply'.req = reply.req
      /\ reply'.shown.node.content = reply.shown.node.content)
     => reply'.shown = reply.shown]_reply
=============================================================================
