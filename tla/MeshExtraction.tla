--------------------------- MODULE MeshExtraction ---------------------------
(***************************************************************************)
(* GetMeshData, the visitor that copies the mesh of a .wrl model out of    *)
(* its scene graph, and drawFromData, which builds one geometry from what  *)
(* was collected.                                                          *)
(*                                                                         *)
(* The scene graph is the sequence of its geodes in the order of the       *)
(* traversal, a geode the sequence of its drawables.  The arrays collected *)
(* are abstracted to where each part of them came from: <<g, i>> stands    *)
(* for the elements of drawable i of geode g.                              *)
(***************************************************************************)
EXTENDS Naturals, Sequences

CONSTANTS Bindings,   \* osg::Geometry::AttributeBinding
          Scenes,     \* the scene graphs considered
          None,       \* a null array, an unset binding
          NoVertices  \* drawFromData threw "Error: no vertices"

(* A colour or normal array: its binding, and whether its type is the      *)
(* expected one.                                                           *)
Array == [bind : Bindings, typed : BOOLEAN]

(* "other": not a Geometry.  "broken": not all triangles, no vertices, or  *)
(* vertices that are not float triplets.                                   *)
Drawable == [kind : {"other", "broken", "mesh"},
             color : Array \union {None}, normal : Array \union {None}]

ASSUME ScenesOK == /\ Scenes \subseteq Seq(Seq(Drawable))
                   /\ {None, NoVertices} \intersect (Bindings \union Array) = {}

VARIABLES scene,     \* the scene graph visited
          geode, i,  \* geode being visited and next drawable in it
          vertices,  \* where the vertices collected came from
          colors,    \* colour collector
          normals,   \* normal collector
          drawn      \* the geometry drawFromData built, or NoVertices

vars == <<scene, geode, i, vertices, colors, normals, drawn>>

Place == (Nat \ {0}) \X (Nat \ {0})
Collector == [data : Seq(Place), bind : Bindings \union {None},
              first : BOOLEAN, error : BOOLEAN]

Empty == [data |-> << >>, bind |-> None, first |-> TRUE, error |-> FALSE]

(* catch (char const *e): the array is dropped, and every later one ignored *)
Failed(c) == [c EXCEPT !.error = TRUE, !.data = << >>]

(* Mutant of Bound: the binding of each array replaces the last one. *)
BoundAlways(c, array) == [c EXCEPT !.bind = array.bind, !.first = FALSE]

(* cbind = g->getColorBinding() the first time an array is met *)
Bound(c, array) ==
  IF c.first THEN [c EXCEPT !.bind = array.bind, !.first = FALSE] ELSE c

(* Both halves of the loop body: colours and normals are treated alike. *)
Collect(c, array, place) ==
  IF c.error THEN c
  ELSE IF array = None THEN Failed(c)
  ELSE LET b == Bound(c, array) IN
       IF b.bind # array.bind \/ ~array.typed THEN Failed(b)
       ELSE [b EXCEPT !.data = Append(@, place)]

Init ==
  /\ scene \in Scenes
  /\ geode = 1 /\ i = 1
  /\ vertices = << >>
  /\ colors = Empty /\ normals = Empty
  /\ drawn = None

AtDrawable(kind) ==
  /\ drawn = None
  /\ geode <= Len(scene) /\ i <= Len(scene[geode])
  /\ scene[geode][i].kind = kind

(* d->asGeometry() is null *)
SkipDrawable ==
  /\ AtDrawable("other")
  /\ i' = i + 1
  /\ UNCHANGED <<scene, geode, vertices, colors, normals, drawn>>

CollectDrawable ==
  /\ AtDrawable("mesh")
  /\ LET d == scene[geode][i]
         place == <<geode, i>>
     IN /\ vertices' = Append(vertices, place)
        /\ colors' = Collect(colors, d.color, place)
        /\ normals' = Collect(normals, d.normal, place)
  /\ i' = i + 1
  /\ UNCHANGED <<scene, geode, drawn>>

(* Mutant of AbandonGeode: the colours collected so far are kept. *)
AbandonKeepingColors ==
  /\ AtDrawable("broken")
  /\ vertices' = << >>
  /\ normals' = [normals EXCEPT !.data = << >>]
  /\ geode' = geode + 1 /\ i' = 1
  /\ UNCHANGED <<scene, colors, drawn>>

(* Mutant of AbandonGeode: the loop continues instead of returning. *)
AbandonDrawable ==
  /\ AtDrawable("broken")
  /\ vertices' = << >>
  /\ colors' = [colors EXCEPT !.data = << >>]
  /\ normals' = [normals EXCEPT !.data = << >>]
  /\ i' = i + 1
  /\ UNCHANGED <<scene, geode, drawn>>

(* A vertex error drops all that was collected and returns from apply, so  *)
(* the rest of the geode is skipped.  Bindings and errors stay, and the    *)
(* traversal goes on with the next geode.                                  *)
AbandonGeode ==
  /\ AtDrawable("broken")
  /\ vertices' = << >>
  /\ colors' = [colors EXCEPT !.data = << >>]
  /\ normals' = [normals EXCEPT !.data = << >>]
  /\ geode' = geode + 1 /\ i' = 1
  /\ UNCHANGED <<scene, drawn>>

(* Mutant of NextGeode: the first drawable has number 0. *)
NextGeodeFromZero ==
  /\ drawn = None
  /\ geode <= Len(scene) /\ i > Len(scene[geode])
  /\ geode' = geode + 1 /\ i' = 0
  /\ UNCHANGED <<scene, vertices, colors, normals, drawn>>

(* Mutant of NextGeode: the same geode is visited again. *)
RevisitGeode ==
  /\ drawn = None
  /\ geode <= Len(scene) /\ i > Len(scene[geode])
  /\ i' = 1
  /\ UNCHANGED <<scene, geode, vertices, colors, normals, drawn>>

NextGeode ==
  /\ drawn = None
  /\ geode <= Len(scene) /\ i > Len(scene[geode])
  /\ geode' = geode + 1 /\ i' = 1
  /\ UNCHANGED <<scene, vertices, colors, normals, drawn>>

(* set(), then drawFromData *)
Draw ==
  /\ drawn = None /\ geode > Len(scene)
  /\ drawn' = IF vertices = << >> THEN NoVertices
              ELSE [vertices |-> vertices,
                    colors |-> colors.data,
                    cbind |-> IF colors.data = << >> THEN None ELSE colors.bind,
                    normals |-> normals.data,
                    nbind |-> IF normals.data = << >> THEN None ELSE normals.bind]
  /\ UNCHANGED <<scene, geode, i, vertices, colors, normals>>

Next == SkipDrawable \/ CollectDrawable \/ AbandonGeode \/ NextGeode \/ Draw

Spec == Init /\ [][Next]_vars /\ WF_vars(Next)
-----------------------------------------------------------------------------
Geometry == [vertices : Seq(Place), colors : Seq(Place), cbind : Bindings \union {None},
             normals : Seq(Place), nbind : Bindings \union {None}]

ASSUME NoVerticesOK == NoVertices # None /\ {None, NoVertices} \intersect Geometry = {}

TypeOK ==
  /\ scene \in Seq(Seq(Drawable))
  /\ geode \in Nat \ {0} /\ i \in Nat \ {0}
  /\ vertices \in Seq(Place)
  /\ colors \in Collector /\ normals \in Collector
  /\ drawn \in Geometry \union {None, NoVertices}

(* The collected elements of an attribute belong, in order, to exactly the *)
(* drawables whose vertices are kept, or there are none: no error leaves   *)
(* colours or normals that have slid along the vertices                    *)
(* (EngineOSG.cpp:153-157, 192-194, 228-230).                              *)
InStep(c) == c.data = IF c.error THEN << >> ELSE vertices
Aligned == InStep(colors) /\ InStep(normals)

(* cbind and nbind are not initialised by the constructor: they are set    *)
(* before the first element is kept, and every kept element came with that *)
(* binding (EngineOSG.cpp:170-176, 206-212).                               *)
BoundAs(c, array(_)) ==
  \A k \in 1..Len(c.data) : /\ ~c.first
                            /\ array(c.data[k]).bind = c.bind
ColorAt(p) == scene[p[1]][p[2]].color
NormalAt(p) == scene[p[1]][p[2]].normal
BindingsAgree == BoundAs(colors, ColorAt) /\ BoundAs(normals, NormalAt)

-----------------------------------------------------------------------------
(* Reference: what the model draws, read off the scene graph.              *)

Places == UNION {{<<g, k>> : k \in 1..Len(scene[g])} : g \in 1..Len(scene)}
KindAt(p) == scene[p[1]][p[2]].kind
BrokenGeodes == {p[1] : p \in {q \in Places : KindAt(q) = "broken"}}

(* Drawables the loop reaches: the ones before the first broken one of     *)
(* their geode.                                                            *)
Reached(p) == \A k \in 1..p[2] : scene[p[1]][k].kind # "broken"
Kept(p) == KindAt(p) = "mesh" /\ \A g \in BrokenGeodes : p[1] > g
Met == {p \in Places : KindAt(p) = "mesh" /\ Reached(p)}

Agree(array(_)) ==
  \A p, q \in Met : /\ array(p) # None /\ array(p).typed
                    /\ array(q) # None /\ array(p).bind = array(q).bind

Before(p, q) == p[1] < q[1] \/ (p[1] = q[1] /\ p[2] < q[2])
Lists(s, S) == /\ \A k \in 1..Len(s) : s[k] \in S
               /\ \A p \in S : \E k \in 1..Len(s) : s[k] = p
               /\ \A k \in 1..Len(s) - 1 : Before(s[k], s[k + 1])

(* The geometry consists of the meshes of the geodes after the last one    *)
(* that holds a broken drawable, in traversal order; with all their        *)
(* colours exactly when every drawable the loop reached, also in geodes    *)
(* whose meshes were dropped, has colours of one binding; likewise for     *)
(* normals (EngineOSG.cpp:116-251).                                        *)
DrawsTheTail ==
  LET K == {p \in Places : Kept(p)} IN
  drawn # None =>
    IF drawn = NoVertices THEN K = {}
    ELSE /\ Lists(drawn.vertices, K)
         /\ drawn.colors = IF Agree(ColorAt) THEN drawn.vertices ELSE << >>
         /\ drawn.normals = IF Agree(NormalAt) THEN drawn.vertices ELSE << >>

(* The visitor and drawFromData come to an end on every scene graph. *)
Terminates == <>(drawn # None)
=============================================================================
