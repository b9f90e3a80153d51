------------------------- MODULE MCMeshExtraction -------------------------
(* Every scene graph of at most three geodes and four drawables in all,    *)
(* where a drawable has colours of either binding, of a wrong type or      *)
(* none, and normals or none.                                              *)
EXTENDS MeshExtraction

CONSTANTS perVertex, overall

MCBindings == {perVertex, overall}

Attribute(b, t) == [bind |-> b, typed |-> t]
Mesh(c, n) == [kind |-> "mesh", color |-> c, normal |-> n]
Plain(k) == [kind |-> k, color |-> None, normal |-> None]

MCDrawables ==
  {Mesh(c, Attribute(perVertex, TRUE)) :
     c \in {Attribute(b, TRUE) : b \in MCBindings}
             \union {Attribute(perVertex, FALSE), None}}
  \union {Mesh(Attribute(perVertex, TRUE), n) :
            n \in {Attribute(overall, TRUE), Attribute(overall, FALSE), None}}
  \union {Plain("other"), Plain("broken")}

Geodes(n) == UNION {[1..k -> MCDrawables] : k \in 0..n}

MCScenes == {<< >>} \union {<<a>> : a \in Geodes(3)}
              \union {<<a, b>> : a, b \in Geodes(2)}
              \union {<<a, b, c>> : a, b, c \in Geodes(1)}
=============================================================================
