--------------------------- MODULE RenderSession ---------------------------
(***************************************************************************)
(* What a Matlab session that calls renderer(...) several times promises:  *)
(* the first call that gets as far as drawing a file name fixes what that  *)
(* name means until the MEX file is unloaded, and a call that names a file *)
(* without passing a mesh shows exactly that meaning, or nothing.          *)
(*                                                                         *)
(* The module says nothing of viewers, callbacks, frames or exceptions:    *)
(* Renderer implements it.                                                 *)
(***************************************************************************)
CONSTANTS Files,      \* names of mesh files
          Meshes,     \* meshes passed as in_vertices, in_colors, in_normals
          Contents,   \* Contents[f]: everything file f ever holds
          None

VARIABLES bound,      \* bound[f]: what name f means, None before it is drawn
          answer      \* the last answer: what was asked and what was shown

vars == <<bound, answer>>

Init == /\ bound = [f \in Files |-> None]
        /\ answer = None

(* The first drawing of name f binds it, to the file or to the passed mesh *)
Bind(f) == /\ bound[f] = None
           /\ \E c \in Contents[f] \union Meshes : bound' = [bound EXCEPT ![f] = c]
           /\ UNCHANGED answer

(* A call that passes mesh m shows m; one that passes none shows bound[f] *)
AnswerMesh(f, m) == /\ answer' = [file |-> f, mesh |-> m, shown |-> m]
                    /\ UNCHANGED bound

AnswerFile(f) == /\ bound[f] # None
                 /\ answer' = [file |-> f, mesh |-> None, shown |-> bound[f]]
                 /\ UNCHANGED bound

(* An error, or a viewer that obtained no graphics context *)
AnswerNothing == /\ \E f \in Files, m \in Meshes \union {None} :
                      answer' = [file |-> f, mesh |-> m, shown |-> None]
                 /\ UNCHANGED bound

Refuse == answer' = None /\ UNCHANGED bound

(* clear mex *)
Forget == /\ bound' = [f \in Files |-> None]
          /\ UNCHANGED answer

Next == \/ \E f \in Files : Bind(f) \/ AnswerFile(f)
        \/ \E f \in Files, m \in Meshes : AnswerMesh(f, m)
        \/ AnswerNothing
        \/ Refuse
        \/ Forget

Spec == Init /\ [][Next]_vars
=============================================================================
