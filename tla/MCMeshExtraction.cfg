SPECIFICATION Spec
CONSTANTS
  perVertex = perVertex
  overall = overall
  None = None
  NoVertices = NoVertices
  Bindings <- MCBindings
  Scenes <- MCScenes
INVARIANTS
  TypeOK
  Aligned
  BindingsAgree
  DrawsTheTail
PROPERTY
  Terminates
CHECK_DEADLOCK FALSE
