CONSTANTS
  Dirs <- MCDirs
  Videos <- MCVideos
  Jsons <- MCJsons
  Root = 0
  Parent <- MCParent
  Above <- MCAbove
  Kind <- MCKind
  Holder <- MCHolder
  Name <- MCName
  Length <- MCLength
  Embeds <- MCEmbeds
  LooksScale <- MCLooksScale
  None = None
  Trees <- MCTrees
  Caps = {0, 1}
SPECIFICATION Spec
INVARIANTS
  TypeOK
  EachAnnotationOnce
  WalkIsComplete
  PairedWithinBatch
  OrphanFails
  ExitCodeTells
  BatchesAgree
CHECK_DEADLOCK FALSE
