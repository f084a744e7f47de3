CONSTANTS
  s1 = s1
  s2 = s2
  s3 = s3
  h1 = h1
  h2 = h2
  w1 = w1
  Scenes = {s1, s2, s3}
  Texts <- MCTexts
  SlugOf <- MCSlugOf
  NewText = 3
  Works = {w1}
  Handlers = {h1, h2}
  Nil = Nil
  UserDecisions <- MCUserDecisions
  Imports <- MCImports
  MaxRevisions = 2
  MaxDecisions = 1
  EditVersions = {1, 4}
SPECIFICATION Spec
SYMMETRY Symmetry
CHECK_DEADLOCK FALSE
INVARIANTS AppliedIsReviewed ShownComesFromApplied
PROPERTIES SyncsEndOnce RecognisedAreShown LinksAreKept
