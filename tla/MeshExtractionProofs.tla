------------------------ MODULE MeshExtractionProofs ------------------------
(***************************************************************************)
(* Proofs about MeshExtraction, for every set of bindings and every set of *)
(* scene graphs: attributes stay aligned with the vertices, what is drawn  *)
(* is the tail of the scene, and the traversal goes forward to its end.    *)
(***************************************************************************)
EXTENDS MeshExtraction, SequenceTheorems, TLAPS

(* The drawable the visitor is at is one of the scene graph's. *)
LEMMA DrawableAt ==
  ASSUME TypeOK, NEW kind, AtDrawable(kind)
  PROVE  /\ scene[geode][i] \in Drawable
         /\ <<geode, i>> \in Place
<1>1. geode \in 1..Len(scene) /\ scene \in Seq(Seq(Drawable))
  BY DEF AtDrawable, TypeOK
<1>2. scene[geode] \in Seq(Drawable)
  BY <1>1
<1>3. i \in 1..Len(scene[geode])
  BY <1>2 DEF AtDrawable, TypeOK
<1> QED
  BY <1>2, <1>3 DEF TypeOK, Place

(* Emptying a collector keeps its type. *)
LEMMA ClearType ==
  ASSUME NEW c \in Collector
  PROVE  /\ Failed(c) \in Collector
         /\ [c EXCEPT !.data = << >>] \in Collector
<1>1. << >> \in Seq(Place)
  OBVIOUS
<1>2. [c EXCEPT !.data = << >>] \in Collector
  BY <1>1 DEF Collector
<1>3. [c EXCEPT !.error = TRUE] \in Collector
  BY DEF Collector
<1>4. [c EXCEPT !.error = TRUE, !.data = << >>] \in Collector
  BY <1>1, <1>3 DEF Collector
<1> QED
  BY <1>2, <1>4 DEF Failed

(* One round of the loop keeps the type of a collector. *)
LEMMA CollectType ==
  ASSUME NEW c \in Collector, NEW array \in Array \union {None}, NEW p \in Place
  PROVE  Collect(c, array, p) \in Collector
<1>1. CASE c.error
  BY <1>1 DEF Collect
<1>2. CASE ~c.error /\ array = None
  BY <1>2, ClearType DEF Collect
<1>3. CASE ~c.error /\ array # None
  <2>1. array \in Array
    BY <1>3
  <2>2. Bound(c, array) \in Collector
    BY <2>1 DEF Bound, Collector, Array
  <2>3. [Bound(c, array) EXCEPT !.data = Append(@, p)] \in Collector
    BY <2>2, AppendProperties DEF Collector
  <2> QED
    BY <1>3, <2>2, <2>3, ClearType DEF Collect
<1> QED
  BY <1>1, <1>2, <1>3

-----------------------------------------------------------------------------
(* The extraction starts in the state of a new GetMeshData.                *)
LEMMA TypeInitially == Init => TypeOK
BY ScenesOK DEF Init, TypeOK, Empty, Collector

(* Type correctness. *)
THEOREM TypeCorrect == Spec => []TypeOK
<1>1. Init => TypeOK
  BY TypeInitially
<1>2. TypeOK /\ [Next]_vars => TypeOK'
  <2> SUFFICES ASSUME TypeOK, [Next]_vars PROVE TypeOK'
    OBVIOUS
  <2>1. CASE SkipDrawable
    BY <2>1 DEF SkipDrawable, TypeOK
  <2>2. CASE CollectDrawable
    <3> DEFINE d == scene[geode][i]
               place == <<geode, i>>
    <3>1. d \in Drawable /\ place \in Place
      BY <2>2, DrawableAt DEF CollectDrawable
    <3>2. d.color \in Array \union {None} /\ d.normal \in Array \union {None}
      BY <3>1 DEF Drawable
    <3>3. colors' \in Collector /\ normals' \in Collector
      BY <2>2, <3>1, <3>2, CollectType DEF CollectDrawable, TypeOK
    <3>4. vertices' \in Seq(Place)
      BY <2>2, <3>1, AppendProperties DEF CollectDrawable, TypeOK
    <3> QED
      BY <2>2, <3>3, <3>4 DEF CollectDrawable, TypeOK
  <2>3. CASE AbandonGeode
    BY <2>3, ClearType DEF AbandonGeode, TypeOK
  <2>4. CASE NextGeode
    BY <2>4 DEF NextGeode, TypeOK
  <2>5. CASE Draw
    BY <2>5 DEF Draw, TypeOK, Geometry, Collector
  <2>6. CASE UNCHANGED vars
    BY <2>6 DEF vars, TypeOK
  <2> QED
    BY <2>1, <2>2, <2>3, <2>4, <2>5, <2>6 DEF Next
<1> QED
  BY <1>1, <1>2, PTL DEF Spec

-----------------------------------------------------------------------------
(* One round of the loop keeps an attribute in step with the vertices: the *)
(* attribute fails, or it grows together with them.                        *)
LEMMA CollectInStep ==
  ASSUME TypeOK, NEW c \in Collector, InStep(c),
         NEW array \in Array \union {None}, NEW p \in Place
  PROVE  Collect(c, array, p).data =
           IF Collect(c, array, p).error THEN << >> ELSE Append(vertices, p)
  BY DEF Collect, Failed, Bound, InStep, Collector

(* The step of a vertex error keeps an attribute in step as well. *)
LEMMA AbandonInStep ==
  ASSUME NEW c \in Collector
  PROVE  [c EXCEPT !.data = << >>].data = << >>
  BY DEF Collector

(* Whatever errors the drawables cause, colours and normals never slide    *)
(* along the vertices.                                                     *)
THEOREM AlwaysAligned == Spec => []Aligned
<1>1. Init => Aligned
  BY DEF Init, Aligned, InStep, Empty
<1>2. TypeOK /\ Aligned /\ [Next]_vars => Aligned'
  <2> SUFFICES ASSUME TypeOK, Aligned, [Next]_vars PROVE Aligned'
    OBVIOUS
  <2>1. CASE CollectDrawable
    <3> DEFINE d == scene[geode][i]
               place == <<geode, i>>
    <3>1. d \in Drawable /\ place \in Place
      BY <2>1, DrawableAt DEF CollectDrawable
    <3>2. d.color \in Array \union {None} /\ d.normal \in Array \union {None}
      BY <3>1 DEF Drawable
    <3>3. colors'.data = IF colors'.error THEN << >> ELSE vertices'
      BY <2>1, <3>1, <3>2, CollectInStep DEF CollectDrawable, TypeOK, Aligned
    <3>4. normals'.data = IF normals'.error THEN << >> ELSE vertices'
      BY <2>1, <3>1, <3>2, CollectInStep DEF CollectDrawable, TypeOK, Aligned
    <3> QED
      BY <3>3, <3>4 DEF Aligned, InStep
  <2>2. CASE AbandonGeode
    BY <2>2, AbandonInStep DEF AbandonGeode, TypeOK, Aligned, InStep
  <2>3. CASE SkipDrawable \/ NextGeode \/ Draw \/ UNCHANGED vars
    BY <2>3 DEF SkipDrawable, NextGeode, Draw, vars, Aligned, InStep
  <2> QED
    BY <2>1, <2>2, <2>3 DEF Next
<1> QED
  BY <1>1, <1>2, TypeCorrect, PTL DEF Spec

-----------------------------------------------------------------------------
(* What one round of the loop does to a collector that keeps elements: it  *)
(* appends one, and the binding is the array's and, unless this is the     *)
(* first array, the one it had.                                            *)
LEMMA CollectKeeps ==
  ASSUME NEW c \in Collector, NEW array \in Array \union {None}, NEW p \in Place
  PROVE  \/ Collect(c, array, p).data = << >>
         \/ Collect(c, array, p) = c
         \/ /\ Collect(c, array, p).data = Append(c.data, p)
            /\ ~Collect(c, array, p).first
            /\ Collect(c, array, p).bind = array.bind
            /\ c.first \/ Collect(c, array, p).bind = c.bind
  BY DEF Collect, Failed, Bound, Collector, Array

(* Every element kept came with the collector's binding; f maps a place to *)
(* its array.                                                              *)
BindsAll(c, f) ==
  \A k \in 1..Len(c.data) : ~c.first /\ f[c.data[k]].bind = c.bind

(* One round of the loop, at the place of the array collected, keeps that. *)
LEMMA CollectBinding ==
  ASSUME NEW c \in Collector, NEW array \in Array \union {None}, NEW p \in Place,
         NEW f, f[p] = array, BindsAll(c, f)
  PROVE  BindsAll(Collect(c, array, p), f)
<1> DEFINE r == Collect(c, array, p)
<1> USE DEF BindsAll
<1> HIDE DEF r
<1> SUFFICES BindsAll(r, f)
  BY DEF r
<1>1. CASE r.data = << >>
  BY <1>1
<1>2. CASE r = c
  BY <1>2
<1>3. CASE /\ r.data = Append(c.data, p)
           /\ ~r.first /\ r.bind = array.bind
           /\ c.first \/ r.bind = c.bind
  <2> SUFFICES ASSUME NEW k \in 1..Len(r.data)
               PROVE  f[r.data[k]].bind = r.bind
    BY <1>3
  <2>1. c.data \in Seq(Place)
    BY DEF Collector
  <2>2. CASE k = Len(c.data) + 1
    BY <1>3, <2>1, <2>2
  <2>3. CASE k \in 1..Len(c.data)
    <3>1. r.data[k] = c.data[k]
      BY <1>3, <2>1, <2>3
    <3>2. ~c.first /\ f[c.data[k]].bind = c.bind
      BY <2>3
    <3> QED
      BY <1>3, <3>1, <3>2
  <2> QED
    BY <1>3, <2>1, <2>2, <2>3, AppendProperties
<1>4. \/ r.data = << >>
      \/ r = c
      \/ /\ r.data = Append(c.data, p)
         /\ ~r.first /\ r.bind = array.bind
         /\ c.first \/ r.bind = c.bind
  BY CollectKeeps DEF r
<1> QED
  BY <1>1, <1>2, <1>3, <1>4

(* cbind and nbind are set before they are used, and belong to every       *)
(* element kept.                                                           *)
THEOREM BindingsAlwaysAgree == Spec => []BindingsAgree
<1>1. Init => BindingsAgree
  BY DEF Init, BindingsAgree, BoundAs, Empty
<1>2. TypeOK /\ BindingsAgree /\ [Next]_vars => BindingsAgree'
  <2> SUFFICES ASSUME TypeOK, BindingsAgree, [Next]_vars PROVE BindingsAgree'
    OBVIOUS
  <2> USE DEF BindingsAgree, BoundAs, ColorAt, NormalAt
  <2>1. CASE CollectDrawable
    <3> DEFINE d == scene[geode][i]
               place == <<geode, i>>
               colorOf == [p \in Place |-> ColorAt(p)]
               normalOf == [p \in Place |-> NormalAt(p)]
    <3>1. d \in Drawable /\ place \in Place
      BY <2>1, DrawableAt DEF CollectDrawable
    <3>2. d.color \in Array \union {None} /\ d.normal \in Array \union {None}
      BY <3>1 DEF Drawable
    <3>3. colorOf[place] = d.color /\ normalOf[place] = d.normal
      BY <3>1
    <3>4. scene' = scene /\ colors' = Collect(colors, d.color, place)
          /\ normals' = Collect(normals, d.normal, place)
      BY <2>1 DEF CollectDrawable
    <3>5. colors \in Collector /\ normals \in Collector
          /\ colors' \in Collector /\ normals' \in Collector
      BY <3>1, <3>2, <3>4, CollectType DEF TypeOK
    <3>6. BindsAll(colors', colorOf)
      <4>1. BindsAll(colors, colorOf)
        BY <3>5 DEF Collector, BindsAll
      <4>2. /\ colors \in Collector /\ d.color \in Array \union {None}
            /\ place \in Place /\ colorOf[place] = d.color
            /\ colors' = Collect(colors, d.color, place)
        BY <3>1, <3>2, <3>3, <3>4, <3>5
      <4> HIDE DEF colorOf, d, place
      <4> QED
        BY <4>1, <4>2, CollectBinding
    <3>7. BindsAll(normals', normalOf)
      <4>1. BindsAll(normals, normalOf)
        BY <3>5 DEF Collector, BindsAll
      <4>2. /\ normals \in Collector /\ d.normal \in Array \union {None}
            /\ place \in Place /\ normalOf[place] = d.normal
            /\ normals' = Collect(normals, d.normal, place)
        BY <3>1, <3>2, <3>3, <3>4, <3>5
      <4> HIDE DEF normalOf, d, place
      <4> QED
        BY <4>1, <4>2, CollectBinding
    <3>8. \A k \in 1..Len(colors'.data) : colors'.data[k] \in Place
      BY <3>5 DEF Collector
    <3>9. \A k \in 1..Len(normals'.data) : normals'.data[k] \in Place
      BY <3>5 DEF Collector
    <3> QED
      BY <3>4, <3>6, <3>7, <3>8, <3>9 DEF BindsAll
  <2>2. CASE AbandonGeode
    BY <2>2, AbandonInStep DEF AbandonGeode, TypeOK
  <2>3. CASE SkipDrawable \/ NextGeode \/ Draw \/ UNCHANGED vars
    BY <2>3 DEF SkipDrawable, NextGeode, Draw, vars
  <2> QED
    BY <2>1, <2>2, <2>3 DEF Next
<1> QED
  BY <1>1, <1>2, TypeCorrect, PTL DEF Spec
-----------------------------------------------------------------------------
(* How far the visitor is: the drawables behind it, those of them it has   *)
(* met, and those it has kept so far.                                      *)
Visited(p) == p[1] < geode \/ (p[1] = geode /\ p[2] < i)
MetSoFar == {p \in Met : Visited(p)}
KeptSoFar ==
  {p \in Places : /\ KindAt(p) = "mesh" /\ Reached(p) /\ Visited(p)
                  /\ \A g \in BrokenGeodes : g < geode => p[1] > g}

(* In the current geode nothing broken is behind the visitor.              *)
InGeode ==
  geode <= Len(scene) =>
    /\ i <= Len(scene[geode]) + 1
    /\ \A j \in 1..(i - 1) : scene[geode][j].kind # "broken"

(* f maps a place to its array.  An attribute has failed if and only if    *)
(* the arrays met so far do not agree; else all of them have its binding.  *)
AgreeOn(f, S) ==
  \A p, q \in S : f[p] # None /\ f[p].typed /\ f[q] # None /\ f[p].bind = f[q].bind
Collected(c, f, S) ==
  /\ c.error <=> ~AgreeOn(f, S)
  /\ ~c.error => /\ c.first <=> S = {}
                 /\ \A p \in S : f[p].bind = c.bind

(* A place is the number of a geode and that of a drawable in it.          *)
LEMMA PlaceParts ==
  ASSUME NEW p
  PROVE  p \in Places <=> \E g \in 1..Len(scene) : \E j \in 1..Len(scene[g]) : p = <<g, j>>
BY DEF Places

(* A place and the drawable there. *)
LEMMA PlaceTypes ==
  ASSUME TypeOK, NEW p \in Places
  PROVE  /\ p[1] \in 1..Len(scene) /\ p[2] \in 1..Len(scene[p[1]]) /\ p = <<p[1], p[2]>>
         /\ p \in Place /\ scene[p[1]][p[2]] \in Drawable
         /\ Len(scene) \in Nat /\ Len(scene[p[1]]) \in Nat /\ p[1] \in Nat /\ p[2] \in Nat
<1>1. PICK g \in 1..Len(scene) : \E j \in 1..Len(scene[g]) : p = <<g, j>>
  BY PlaceParts
<1>2. PICK j \in 1..Len(scene[g]) : p = <<g, j>>
  BY <1>1
<1>3. scene \in Seq(Seq(Drawable))
  BY DEF TypeOK
<1>4. scene[g] \in Seq(Drawable)
  BY <1>3
<1>5. scene[g][j] \in Drawable
  BY <1>2, <1>4
<1> QED
  BY <1>2, <1>3, <1>4, <1>5 DEF Place

(* A geode is broken if one of its drawables is. *)
LEMMA BrokenGeode ==
  ASSUME TypeOK, NEW g
  PROVE  g \in BrokenGeodes <=> /\ g \in 1..Len(scene)
                                /\ \E j \in 1..Len(scene[g]) : scene[g][j].kind = "broken"
<1>1. ASSUME g \in BrokenGeodes
      PROVE  g \in 1..Len(scene) /\ \E j \in 1..Len(scene[g]) : scene[g][j].kind = "broken"
  <2>1. PICK p \in Places : KindAt(p) = "broken" /\ p[1] = g
    BY <1>1 DEF BrokenGeodes
  <2> QED BY <2>1, PlaceTypes DEF KindAt
<1>2. ASSUME g \in 1..Len(scene), NEW j \in 1..Len(scene[g]), scene[g][j].kind = "broken"
      PROVE  g \in BrokenGeodes
  <2>1. <<g, j>> \in Places
    BY <1>2, PlaceParts
  <2>2. KindAt(<<g, j>>) = "broken" /\ <<g, j>>[1] = g
    BY <1>2 DEF KindAt
  <2> QED BY <2>1, <2>2 DEF BrokenGeodes
<1> QED BY <1>1, <1>2

(* Where the visitor is.                                                   *)
LEMMA Here ==
  ASSUME TypeOK, NEW kind, AtDrawable(kind)
  PROVE  /\ <<geode, i>> \in Places /\ KindAt(<<geode, i>>) = kind
         /\ geode \in 1..Len(scene) /\ i \in 1..Len(scene[geode])
         /\ Len(scene[geode]) \in Nat
<1>1. geode \in 1..Len(scene) /\ i \in 1..Len(scene[geode]) /\ Len(scene[geode]) \in Nat
  <2>1. scene \in Seq(Seq(Drawable)) /\ geode \in 1..Len(scene)
    BY DEF AtDrawable, TypeOK
  <2>2. scene[geode] \in Seq(Drawable)
    BY <2>1
  <2> QED BY <2>1, <2>2 DEF AtDrawable, TypeOK
<1> QED BY <1>1, PlaceParts DEF KindAt, AtDrawable

(* What is met and kept as the visitor goes on.                            *)
LEMMA AfterOther ==
  ASSUME TypeOK, InGeode, SkipDrawable
  PROVE  InGeode' /\ MetSoFar' = MetSoFar /\ KeptSoFar' = KeptSoFar
<1> USE DEF SkipDrawable
<1>1. KindAt(<<geode, i>>) = "other" /\ Len(scene[geode]) \in Nat /\ geode \in Nat /\ i \in Nat
      /\ i <= Len(scene[geode]) /\ scene[geode][i].kind = "other"
  BY Here DEF TypeOK, AtDrawable, KindAt
<1>2. UNCHANGED <<scene, geode>> /\ i' = i + 1
  OBVIOUS
<1>3. InGeode'
  BY <1>1, <1>2 DEF InGeode
<1>4. ASSUME NEW p \in Places, KindAt(p) = "mesh" PROVE Visited(p)' <=> Visited(p)
  <2>1. p = <<p[1], p[2]>> /\ p[1] \in Nat /\ p[2] \in Nat
    BY PlaceTypes
  <2>2. ~(p[1] = geode /\ p[2] = i)
    BY <1>1, <1>4, <2>1
  <2> QED BY <1>1, <1>2, <2>1, <2>2 DEF Visited
<1>5. Places' = Places /\ BrokenGeodes' = BrokenGeodes /\ Met' = Met
      /\ \A p : KindAt(p)' = KindAt(p) /\ Reached(p)' = Reached(p)
  BY <1>2 DEF Places, BrokenGeodes, Met, KindAt, Reached
<1>6. MetSoFar' = MetSoFar
  BY <1>4, <1>5 DEF MetSoFar, Met
<1>7. KeptSoFar' = KeptSoFar
  BY <1>2, <1>4, <1>5 DEF KeptSoFar
<1> QED BY <1>3, <1>6, <1>7

(* A mesh is met and kept. *)
LEMMA AfterMesh ==
  ASSUME TypeOK, InGeode, CollectDrawable
  PROVE  /\ InGeode'
         /\ MetSoFar' = MetSoFar \union {<<geode, i>>}
         /\ KeptSoFar' = KeptSoFar \union {<<geode, i>>}
         /\ \A p \in KeptSoFar : Before(p, <<geode, i>>)
<1> DEFINE place == <<geode, i>>
<1>1. /\ place \in Places /\ KindAt(place) = "mesh" /\ place[1] = geode /\ place[2] = i
      /\ Len(scene[geode]) \in Nat /\ geode \in Nat /\ i \in Nat \ {0} /\ geode <= Len(scene)
      /\ i <= Len(scene[geode]) /\ scene[geode][i].kind = "mesh"
  BY Here DEF TypeOK, AtDrawable, KindAt, CollectDrawable
<1>2. UNCHANGED <<scene, geode>> /\ i' = i + 1
  BY DEF CollectDrawable
<1>3. InGeode'
  BY <1>1, <1>2 DEF InGeode
<1>4. Reached(place)
  BY <1>1 DEF InGeode, Reached
<1>5. Places' = Places /\ BrokenGeodes' = BrokenGeodes /\ Met' = Met
      /\ \A p : KindAt(p)' = KindAt(p) /\ Reached(p)' = Reached(p)
  BY <1>2 DEF Places, BrokenGeodes, Met, KindAt, Reached
<1>6. ASSUME NEW p \in Places PROVE Visited(p)' <=> Visited(p) \/ p = place
  <2>1. p = <<p[1], p[2]>> /\ p[1] \in Nat /\ p[2] \in Nat
    BY PlaceTypes
  <2>2. p = place <=> p[1] = geode /\ p[2] = i
    BY <2>1
  <2> HIDE DEF place
  <2> QED BY <1>1, <1>2, <2>1, <2>2 DEF Visited
<1>7. \A g \in BrokenGeodes : g < geode => place[1] > g
  BY <1>1, BrokenGeode DEF TypeOK
<1> HIDE DEF place
<1>8. MetSoFar' = MetSoFar \union {place}
  BY <1>1, <1>4, <1>5, <1>6 DEF MetSoFar, Met
<1>9. KeptSoFar' = KeptSoFar \union {place}
  BY <1>1, <1>2, <1>4, <1>5, <1>6, <1>7 DEF KeptSoFar
<1>10. \A p \in KeptSoFar : Before(p, place)
  BY <1>1 DEF KeptSoFar, Visited, Before
<1> QED BY <1>3, <1>8, <1>9, <1>10 DEF place

(* A broken drawable drops all that was kept. *)
LEMMA AfterBroken ==
  ASSUME TypeOK, InGeode, AbandonGeode
  PROVE  InGeode' /\ MetSoFar' = MetSoFar /\ KeptSoFar' = {}
<1>1. /\ Len(scene[geode]) \in Nat /\ geode \in 1..Len(scene) /\ geode \in Nat /\ i \in Nat \ {0}
      /\ i \in 1..Len(scene[geode]) /\ scene[geode][i].kind = "broken"
  BY Here DEF TypeOK, AtDrawable, AbandonGeode
<1>2. UNCHANGED scene /\ geode' = geode + 1 /\ i' = 1
  BY DEF AbandonGeode
<1>3. InGeode'
  <2>1. scene \in Seq(Seq(Drawable))
    BY DEF TypeOK
  <2>2. geode + 1 <= Len(scene) => scene[geode + 1] \in Seq(Drawable)
    BY <1>1, <2>1
  <2>3. geode + 1 <= Len(scene) => Len(scene[geode + 1]) \in Nat
    BY <2>2
  <2> QED BY <1>2, <2>3 DEF InGeode
<1>4. Places' = Places /\ BrokenGeodes' = BrokenGeodes /\ Met' = Met
      /\ \A p : KindAt(p)' = KindAt(p) /\ Reached(p)' = Reached(p)
  BY <1>2 DEF Places, BrokenGeodes, Met, KindAt, Reached
<1>5. ASSUME NEW p \in Places, Reached(p) PROVE Visited(p)' <=> Visited(p)
  <2>1. p[1] \in Nat /\ p[2] \in Nat \ {0}
    BY PlaceTypes
  <2>2. p[1] = geode => p[2] < i
    BY <1>1, <1>5, <2>1 DEF Reached
  <2> QED BY <1>1, <1>2, <2>1, <2>2 DEF Visited
<1>6. MetSoFar' = MetSoFar
  BY <1>4, <1>5 DEF MetSoFar, Met
<1>7. ASSUME NEW p \in KeptSoFar' PROVE FALSE
  <2>1. geode \in BrokenGeodes
    BY <1>1, BrokenGeode
  <2>2. p \in Places /\ Visited(p)' /\ p[1] > geode
    BY <1>1, <1>2, <1>4, <1>7, <2>1 DEF KeptSoFar
  <2>3. p[1] \in Nat /\ p[2] \in Nat \ {0}
    BY <2>2, PlaceTypes
  <2> QED BY <1>1, <1>2, <2>2, <2>3 DEF Visited
<1> QED BY <1>3, <1>6, <1>7

(* The end of a geode changes neither. *)
LEMMA AfterGeode ==
  ASSUME TypeOK, InGeode, NextGeode
  PROVE  InGeode' /\ MetSoFar' = MetSoFar /\ KeptSoFar' = KeptSoFar
<1>1. scene \in Seq(Seq(Drawable)) /\ geode \in 1..Len(scene) /\ geode \in Nat /\ i \in Nat \ {0}
  BY DEF TypeOK, NextGeode
<1>2. scene[geode] \in Seq(Drawable) /\ (geode + 1 <= Len(scene) => scene[geode + 1] \in Seq(Drawable))
  BY <1>1
<1>3. /\ Len(scene[geode]) \in Nat /\ i > Len(scene[geode])
      /\ geode + 1 <= Len(scene) => Len(scene[geode + 1]) \in Nat
  BY <1>2 DEF NextGeode
<1>4. UNCHANGED scene /\ geode' = geode + 1 /\ i' = 1
  BY DEF NextGeode
<1>5. InGeode'
  BY <1>3, <1>4 DEF InGeode
<1>6. Places' = Places /\ BrokenGeodes' = BrokenGeodes /\ Met' = Met
      /\ \A p : KindAt(p)' = KindAt(p) /\ Reached(p)' = Reached(p)
  BY <1>4 DEF Places, BrokenGeodes, Met, KindAt, Reached
<1>7. geode \notin BrokenGeodes
  <2>1. \A j \in 1..(i - 1) : scene[geode][j].kind # "broken"
    BY DEF InGeode, NextGeode
  <2>2. \A j \in 1..Len(scene[geode]) : j \in 1..(i - 1)
    BY <1>1, <1>3
  <2> QED BY <2>1, <2>2, BrokenGeode
<1>8. ASSUME NEW p \in Places PROVE Visited(p)' <=> Visited(p)
  <2>1. p[1] \in Nat /\ p[2] \in Nat \ {0} /\ p[2] <= Len(scene[p[1]])
    BY PlaceTypes
  <2> QED BY <1>1, <1>3, <1>4, <2>1 DEF Visited
<1>9. ASSUME NEW g \in BrokenGeodes PROVE g < geode' <=> g < geode
  <2>1. g \in Nat /\ g # geode
    BY <1>1, <1>7, <1>9, BrokenGeode
  <2> QED BY <1>1, <1>4, <2>1
<1>10. MetSoFar' = MetSoFar
  BY <1>6, <1>8 DEF MetSoFar, Met
<1>11. KeptSoFar' = KeptSoFar
  BY <1>6, <1>8, <1>9 DEF KeptSoFar
<1> QED BY <1>5, <1>10, <1>11

(* One round of the loop at a place it has not met.                        *)
LEMMA CollectCollects ==
  ASSUME NEW c \in Collector, NEW array \in Array \union {None}, NEW p \in Place,
         NEW f, NEW S, f[p] = array, Collected(c, f, S)
  PROVE  Collected(Collect(c, array, p), f, S \union {p})
<1>1. CASE c.error
  <2>1. Collect(c, array, p) = c
    BY <1>1 DEF Collect
  <2>2. ~AgreeOn(f, S)
    BY <1>1 DEF Collected
  <2>3. ~AgreeOn(f, S \union {p})
    BY <2>2 DEF AgreeOn
  <2> QED BY <1>1, <2>1, <2>3 DEF Collected
<1>2. CASE ~c.error /\ array = None
  <2>1. Collect(c, array, p).error
    BY <1>2 DEF Collect, Failed, Collector
  <2>2. ~AgreeOn(f, S \union {p})
    BY <1>2 DEF AgreeOn
  <2> QED BY <2>1, <2>2 DEF Collected
<1>3. CASE ~c.error /\ array # None
  <2> DEFINE b == Bound(c, array)
  <2>1. array \in Array /\ array.typed \in BOOLEAN
    BY <1>3 DEF Array
  <2>2. /\ b.error = c.error /\ ~b.first
        /\ b.bind = IF c.first THEN array.bind ELSE c.bind
        /\ b \in Collector
    BY <2>1 DEF Bound, Collector, Array
  <2>3. AgreeOn(f, S) /\ (c.first <=> S = {}) /\ \A q \in S : f[q].bind = c.bind
    BY <1>3 DEF Collected
  <2> HIDE DEF b
  <2>4. CASE b.bind # array.bind \/ ~array.typed
    <3>1. Collect(c, array, p) = Failed(b)
      BY <1>3, <2>4 DEF Collect, b
    <3>2. Failed(b).error
      BY <2>2 DEF Failed, Collector
    <3>3. ~AgreeOn(f, S \union {p})
      <4>1. CASE ~array.typed
        BY <4>1 DEF AgreeOn
      <4>2. CASE b.bind # array.bind
        <5>1. ~c.first /\ c.bind # array.bind
          BY <2>2, <4>2
        <5>2. PICK q \in S : f[q].bind # f[p].bind
          BY <2>3, <5>1
        <5> QED BY <5>2 DEF AgreeOn
      <4> QED BY <2>4, <4>1, <4>2
    <3> QED BY <3>1, <3>2, <3>3 DEF Collected
  <2>5. CASE b.bind = array.bind /\ array.typed
    <3>1. Collect(c, array, p) = [b EXCEPT !.data = Append(@, p)]
      BY <1>3, <2>5 DEF Collect, b
    <3>2. /\ ~Collect(c, array, p).error /\ ~Collect(c, array, p).first
          /\ Collect(c, array, p).bind = array.bind
      BY <1>3, <2>2, <2>5, <3>1 DEF Collector
    <3>3. \A q \in S : f[q].bind = array.bind
      <4> SUFFICES ASSUME NEW q \in S PROVE f[q].bind = array.bind
        OBVIOUS
      <4>1. ~c.first /\ f[q].bind = c.bind
        BY <2>3
      <4> QED BY <2>2, <2>5, <4>1
    <3>4. AgreeOn(f, S \union {p})
      <4> SUFFICES ASSUME NEW q \in S \union {p}, NEW r \in S \union {p}
                   PROVE f[q] # None /\ f[q].typed /\ f[r] # None /\ f[q].bind = f[r].bind
        BY DEF AgreeOn
      <4>1. \A s \in S : f[s] # None /\ f[s].typed
        BY <2>3 DEF AgreeOn
      <4> QED BY <1>3, <2>5, <3>3, <4>1
    <3> QED BY <3>2, <3>3, <3>4 DEF Collected
  <2> QED BY <2>4, <2>5
<1> QED BY <1>1, <1>2, <1>3

(* A list in traversal order stays one when the next drawable is added.    *)
LEMMA ListGrows ==
  ASSUME NEW s \in Seq(Place), NEW S, NEW q \in Place, Lists(s, S),
         \A p \in S : Before(p, q)
  PROVE  Lists(Append(s, q), S \union {q})
<1> DEFINE t == Append(s, q)
<1>1. /\ Len(s) \in Nat /\ Len(t) = Len(s) + 1 /\ t[Len(s) + 1] = q
      /\ \A k \in 1..Len(s) : t[k] = s[k]
  BY AppendProperties
<1> HIDE DEF t
<1>2. \A k \in 1..Len(t) : t[k] \in S \union {q}
  BY <1>1 DEF Lists
<1>3. \A p \in S \union {q} : \E k \in 1..Len(t) : t[k] = p
  <2>1. \A p \in S : \E k \in 1..Len(s) : s[k] = p
    BY DEF Lists
  <2> QED BY <1>1, <2>1
<1>4. ASSUME NEW k \in 1..Len(t) - 1 PROVE Before(t[k], t[k + 1])
  <2>1. CASE k = Len(s)
    <3>1. t[k] \in S /\ t[k + 1] = q
      BY <1>1, <1>4, <2>1 DEF Lists
    <3> QED BY <3>1
  <2>2. CASE k # Len(s)
    <3>1. k \in 1..Len(s) - 1 /\ t[k] = s[k] /\ t[k + 1] = s[k + 1]
      BY <1>1, <1>4, <2>2
    <3> QED BY <3>1 DEF Lists
  <2> QED BY <2>1, <2>2
<1> QED BY <1>2, <1>3, <1>4 DEF Lists, t

(* What the collectors and the geometry are, as far as the visitor is.     *)
ColorOf == [p \in Place |-> ColorAt(p)]
NormalOf == [p \in Place |-> NormalAt(p)]
TailInv ==
  /\ InGeode
  /\ Lists(vertices, KeptSoFar)
  /\ Collected(colors, ColorOf, MetSoFar)
  /\ Collected(normals, NormalOf, MetSoFar)
  /\ drawn # None =>
       /\ geode > Len(scene)
       /\ IF drawn = NoVertices THEN vertices = << >>
          ELSE /\ drawn.vertices = vertices
               /\ drawn.colors = colors.data /\ drawn.normals = normals.data

(* Before the first geode nothing is met, and nothing kept.                *)
LEMMA TailInit == Init => TailInv
<1> SUFFICES ASSUME Init PROVE TailInv
  OBVIOUS
<1>1. scene \in Seq(Seq(Drawable)) /\ geode = 1 /\ i = 1
  BY ScenesOK DEF Init
<1>2. \A p \in Places : ~Visited(p)
  <2> SUFFICES ASSUME NEW p \in Places PROVE ~Visited(p)
    OBVIOUS
  <2>1. TypeOK
    BY TypeInitially
  <2> QED BY <1>1, <2>1, PlaceTypes DEF Visited
<1>3. KeptSoFar = {} /\ MetSoFar = {}
  BY <1>2 DEF KeptSoFar, MetSoFar, Met
<1>4. InGeode
  <2>1. 1 <= Len(scene) => scene[1] \in Seq(Drawable)
    BY <1>1
  <2>2. 1 <= Len(scene) => Len(scene[1]) \in Nat
    BY <2>1
  <2> QED BY <1>1, <2>2 DEF InGeode
<1>5. Lists(<< >>, {})
  BY DEF Lists
<1>6. \A f : Collected(Empty, f, {})
  BY DEF Collected, Empty, AgreeOn
<1> QED BY <1>3, <1>4, <1>5, <1>6 DEF TailInv, Init

(* Every step of the visitor keeps the collectors in line with its place.  *)
LEMMA TailStep == TypeOK /\ TypeOK' /\ TailInv /\ [Next]_vars => TailInv'
<1> SUFFICES ASSUME TypeOK, TypeOK', TailInv, [Next]_vars PROVE TailInv'
  OBVIOUS
<1>1. CASE SkipDrawable
  <2>1. UNCHANGED <<scene, vertices, colors, normals, drawn>> /\ drawn = None
    BY <1>1 DEF SkipDrawable, AtDrawable
  <2>2. InGeode' /\ MetSoFar' = MetSoFar /\ KeptSoFar' = KeptSoFar
    BY <1>1, AfterOther DEF TailInv
  <2> QED BY <2>1, <2>2 DEF TailInv, ColorOf, NormalOf, ColorAt, NormalAt
<1>2. CASE CollectDrawable
  <2> DEFINE d == scene[geode][i]
             place == <<geode, i>>
  <2>1. /\ UNCHANGED <<scene, drawn>> /\ drawn = None
        /\ vertices' = Append(vertices, place)
        /\ colors' = Collect(colors, d.color, place)
        /\ normals' = Collect(normals, d.normal, place)
    BY <1>2 DEF CollectDrawable, AtDrawable
  <2>2. d \in Drawable /\ place \in Place
    BY <1>2, DrawableAt DEF CollectDrawable
  <2>3. d.color \in Array \union {None} /\ d.normal \in Array \union {None}
    BY <2>2 DEF Drawable
  <2>4. ColorOf[place] = d.color /\ NormalOf[place] = d.normal
    BY <2>2 DEF ColorOf, NormalOf, ColorAt, NormalAt
  <2>5. ColorOf' = ColorOf /\ NormalOf' = NormalOf
    BY <2>1 DEF ColorOf, NormalOf, ColorAt, NormalAt
  <2> HIDE DEF d, place
  <2>6. /\ InGeode' /\ MetSoFar' = MetSoFar \union {place}
        /\ KeptSoFar' = KeptSoFar \union {place}
        /\ \A p \in KeptSoFar : Before(p, place)
    BY <1>2, AfterMesh DEF TailInv, place
  <2>7. Lists(vertices', KeptSoFar')
    BY <2>1, <2>2, <2>6, ListGrows DEF TailInv, TypeOK
  <2>8. Collected(colors', ColorOf, MetSoFar')
    BY <2>1, <2>2, <2>3, <2>4, <2>6, CollectCollects DEF TailInv, TypeOK
  <2>9. Collected(normals', NormalOf, MetSoFar')
    BY <2>1, <2>2, <2>3, <2>4, <2>6, CollectCollects DEF TailInv, TypeOK
  <2> QED BY <2>1, <2>5, <2>6, <2>7, <2>8, <2>9 DEF TailInv
<1>3. CASE AbandonGeode
  <2>1. /\ UNCHANGED <<scene, drawn>> /\ drawn = None /\ vertices' = << >>
        /\ colors' = [colors EXCEPT !.data = << >>]
        /\ normals' = [normals EXCEPT !.data = << >>]
    BY <1>3 DEF AbandonGeode, AtDrawable
  <2>2. InGeode' /\ MetSoFar' = MetSoFar /\ KeptSoFar' = {}
    BY <1>3, AfterBroken DEF TailInv
  <2>3. Lists(<< >>, {})
    BY DEF Lists
  <2>4. \A f, S : /\ Collected(colors, f, S) => Collected(colors', f, S)
                  /\ Collected(normals, f, S) => Collected(normals', f, S)
    BY <2>1 DEF Collected, TypeOK, Collector
  <2>5. ColorOf' = ColorOf /\ NormalOf' = NormalOf
    BY <2>1 DEF ColorOf, NormalOf, ColorAt, NormalAt
  <2> QED BY <2>1, <2>2, <2>3, <2>4, <2>5 DEF TailInv
<1>4. CASE NextGeode
  <2>1. UNCHANGED <<scene, vertices, colors, normals, drawn>> /\ drawn = None
    BY <1>4 DEF NextGeode
  <2>2. InGeode' /\ MetSoFar' = MetSoFar /\ KeptSoFar' = KeptSoFar
    BY <1>4, AfterGeode DEF TailInv
  <2> QED BY <2>1, <2>2 DEF TailInv, ColorOf, NormalOf, ColorAt, NormalAt
<1>5. CASE Draw \/ UNCHANGED vars
  <2>1. UNCHANGED <<scene, geode, i, vertices, colors, normals>>
    BY <1>5 DEF Draw, vars
  <2>2. /\ InGeode' /\ Lists(vertices, KeptSoFar)'
        /\ Collected(colors, ColorOf, MetSoFar)' /\ Collected(normals, NormalOf, MetSoFar)'
    <3>1. MetSoFar' = MetSoFar /\ KeptSoFar' = KeptSoFar
      BY <2>1 DEF MetSoFar, KeptSoFar, Met, Places, BrokenGeodes, KindAt, Reached, Visited
    <3>2. InGeode' /\ ColorOf' = ColorOf /\ NormalOf' = NormalOf
      BY <2>1 DEF TailInv, InGeode, ColorOf, NormalOf, ColorAt, NormalAt
    <3> QED BY <2>1, <3>1, <3>2 DEF TailInv
  <2>3. CASE Draw
    <3>1. CASE vertices = << >>
      BY <2>1, <2>2, <2>3, <3>1 DEF TailInv, Draw
    <3>2. CASE vertices # << >>
      <4>1. drawn' = [vertices |-> vertices, colors |-> colors.data,
                      cbind |-> IF colors.data = << >> THEN None ELSE colors.bind,
                      normals |-> normals.data,
                      nbind |-> IF normals.data = << >> THEN None ELSE normals.bind]
        BY <2>3, <3>2 DEF Draw
      <4>2. drawn' \in Geometry
        BY <4>1 DEF Geometry, TypeOK, Collector
      <4>3. drawn' # NoVertices
        BY <4>2, NoVerticesOK
      <4> QED BY <2>1, <2>2, <2>3, <4>1, <4>3 DEF TailInv, Draw
    <3> QED BY <3>1, <3>2
  <2>4. CASE UNCHANGED vars
    <3>1. drawn' = drawn
      BY <2>4 DEF vars
    <3> QED BY <2>1, <2>2, <3>1 DEF TailInv
  <2> QED BY <1>5, <2>3, <2>4
<1> QED BY <1>1, <1>2, <1>3, <1>4, <1>5 DEF Next

(* Behind the last geode everything has been visited.                      *)
LEMMA TailAtEnd ==
  ASSUME TypeOK, geode > Len(scene)
  PROVE  KeptSoFar = {p \in Places : Kept(p)} /\ MetSoFar = Met
<1>1. \A p \in Places : Visited(p)
  BY PlaceTypes DEF Visited, TypeOK
<1>2. \A g \in BrokenGeodes : g < geode
  <2> SUFFICES ASSUME NEW g \in BrokenGeodes PROVE g < geode
    OBVIOUS
  <2>1. g \in 1..Len(scene) /\ Len(scene) \in Nat
    BY BrokenGeode DEF TypeOK
  <2> QED BY <2>1 DEF TypeOK
<1>3. ASSUME NEW p \in Places, Kept(p) PROVE Reached(p)
  <2>1. /\ p[1] \in 1..Len(scene) /\ p[2] \in 1..Len(scene[p[1]]) /\ p[1] \in Nat
        /\ p[2] \in Nat /\ Len(scene[p[1]]) \in Nat
    BY PlaceTypes
  <2>2. p[1] \notin BrokenGeodes
    BY <1>3, <2>1 DEF Kept
  <2>3. \A j \in 1..Len(scene[p[1]]) : scene[p[1]][j].kind # "broken"
    BY <2>1, <2>2, BrokenGeode
  <2> QED BY <2>1, <2>3 DEF Reached
<1>4. KeptSoFar = {p \in Places : Kept(p)}
  BY <1>1, <1>2, <1>3 DEF KeptSoFar, Kept
<1>5. MetSoFar = Met
  BY <1>1 DEF MetSoFar, Met
<1> QED BY <1>4, <1>5

(* Whatever is broken where, the geometry drawn is the tail of the scene,  *)
(* with all attributes or none (EngineOSG.cpp:116-251).                    *)
THEOREM AlwaysDrawsTheTail == Spec => []DrawsTheTail
<1>1. TypeOK /\ Aligned /\ TailInv => DrawsTheTail
  <2> SUFFICES ASSUME TypeOK, Aligned, TailInv, drawn # None PROVE DrawsTheTail
    BY DEF DrawsTheTail
  <2> DEFINE K == {p \in Places : Kept(p)}
  <2>1. KeptSoFar = K /\ MetSoFar = Met
    BY TailAtEnd DEF TailInv
  <2>2. Lists(vertices, K)
    BY <2>1 DEF TailInv
  <2>3. \A p \in Met : p \in Place
    BY PlaceTypes DEF Met
  <2>4. AgreeOn(ColorOf, Met) <=> Agree(ColorAt)
    BY <2>3 DEF AgreeOn, Agree, ColorOf
  <2>5. AgreeOn(NormalOf, Met) <=> Agree(NormalAt)
    BY <2>3 DEF AgreeOn, Agree, NormalOf
  <2>6. /\ colors.data = IF Agree(ColorAt) THEN vertices ELSE << >>
        /\ normals.data = IF Agree(NormalAt) THEN vertices ELSE << >>
    BY <2>1, <2>4, <2>5 DEF TailInv, Collected, Aligned, InStep
  <2>7. CASE drawn = NoVertices
    <3>1. vertices = << >>
      BY <2>7 DEF TailInv
    <3>2. K = {}
      BY <2>2, <3>1 DEF Lists
    <3> QED BY <2>7, <3>2 DEF DrawsTheTail
  <2>8. CASE drawn # NoVertices
    BY <2>2, <2>6, <2>8 DEF TailInv, DrawsTheTail
  <2> QED BY <2>7, <2>8
<1>2. Spec => []TailInv
  BY TailInit, TailStep, TypeCorrect, PTL DEF Spec
<1> QED BY <1>1, <1>2, TypeCorrect, AlwaysAligned, PTL
-----------------------------------------------------------------------------
(* The visitor never leaves the scene graph, every step of it goes forward *)
(* in the order of the traversal, also where a broken drawable ends the    *)
(* visit of its geode, and nothing follows the drawing: the part of        *)
(* Terminates that is not fairness (EngineOSG.cpp:116-250).                *)
THEOREM TraversalAdvances ==
  Spec => /\ [](/\ geode <= Len(scene) + 1
                /\ geode <= Len(scene) => i <= Len(scene[geode]) + 1)
          /\ [][/\ drawn = None /\ scene' = scene
                /\ \/ Before(<<geode, i>>, <<geode', i'>>) /\ geode <= Len(scene)
                   \/ /\ geode > Len(scene) /\ UNCHANGED <<geode, i>>
                      /\ drawn' # None]_vars
<1> DEFINE Bounded == /\ geode <= Len(scene) + 1
                      /\ geode <= Len(scene) => i <= Len(scene[geode]) + 1
<1>1. TypeOK => /\ geode \in Nat \ {0} /\ i \in Nat \ {0} /\ Len(scene) \in Nat
                /\ \A g \in Nat \ {0} : g <= Len(scene) => Len(scene[g]) \in Nat
  <2> SUFFICES ASSUME TypeOK PROVE \A g \in Nat \ {0} : g <= Len(scene) => Len(scene[g]) \in Nat
    BY DEF TypeOK
  <2>1. \A g \in 1..Len(scene) : scene[g] \in Seq(Drawable)
    BY DEF TypeOK
  <2> QED BY <2>1 DEF TypeOK
<1>2. Init => Bounded
  BY <1>1, TypeInitially DEF Init
<1>3. TypeOK /\ Bounded /\ [Next]_vars => Bounded'
  <2> SUFFICES ASSUME TypeOK, Bounded, [Next]_vars PROVE Bounded'
    OBVIOUS
  <2>1. CASE SkipDrawable \/ CollectDrawable
    BY <1>1, <2>1 DEF SkipDrawable, CollectDrawable, AtDrawable
  <2>2. CASE AbandonGeode \/ NextGeode
    BY <1>1, <2>2 DEF AbandonGeode, NextGeode, AtDrawable
  <2>3. CASE Draw \/ UNCHANGED vars
    BY <2>3 DEF Draw, vars
  <2> QED BY <2>1, <2>2, <2>3 DEF Next
<1>4. TypeOK /\ TypeOK' /\ Next =>
        /\ drawn = None /\ scene' = scene
        /\ \/ Before(<<geode, i>>, <<geode', i'>>) /\ geode <= Len(scene)
           \/ geode > Len(scene) /\ UNCHANGED <<geode, i>> /\ drawn' # None
  <2> SUFFICES ASSUME TypeOK, TypeOK', Next
               PROVE  /\ drawn = None /\ scene' = scene
                      /\ \/ Before(<<geode, i>>, <<geode', i'>>) /\ geode <= Len(scene)
                         \/ geode > Len(scene) /\ UNCHANGED <<geode, i>> /\ drawn' # None
    OBVIOUS
  <2>1. CASE SkipDrawable \/ CollectDrawable
    BY <1>1, <2>1 DEF SkipDrawable, CollectDrawable, AtDrawable, Before
  <2>2. CASE AbandonGeode \/ NextGeode
    BY <1>1, <2>2 DEF AbandonGeode, NextGeode, AtDrawable, Before
  <2>3. CASE Draw
    <3>1. drawn' # None
      <4>1. \/ drawn' = NoVertices
            \/ drawn' = [vertices |-> vertices,
                         colors |-> colors.data,
                         cbind |-> IF colors.data = << >> THEN None ELSE colors.bind,
                         normals |-> normals.data,
                         nbind |-> IF normals.data = << >> THEN None ELSE normals.bind]
        BY <2>3 DEF Draw
      <4>2. drawn' \in Geometry \union {NoVertices}
        BY <4>1 DEF TypeOK, Collector, Geometry
      <4> QED BY <4>2, NoVerticesOK
    <3> QED BY <2>3, <3>1 DEF Draw
  <2> QED BY <2>1, <2>2, <2>3 DEF Next
<1>5. Spec => []Bounded
  BY <1>2, <1>3, TypeCorrect, PTL DEF Spec
<1> QED BY <1>4, <1>5, TypeCorrect, PTL DEF Spec
=============================================================================
