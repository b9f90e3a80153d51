---------------------------- MODULE MCRenderer ----------------------------
(* A .wrl file, a textured model whose second version has transforms that  *)
(* validateModelView rejects, and one mesh passed in memory.  The second   *)
(* version of the .wrl file yields no vertices.                            *)
EXTENDS Renderer

CONSTANTS wrl, obj, inMemory

MCFiles == {wrl, obj}
MCWrl == {wrl}
MCTextured == {obj}
MCMeshes == {inMemory}
MCUnsound == {FileContent(obj, 2)}
MCHollow == {FileContent(wrl, 2)}
=============================================================================
