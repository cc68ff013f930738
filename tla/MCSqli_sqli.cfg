SPECIFICATION Spec
CONSTANTS
  TokenSize = 32
  Keywords <- MCKeywords
INVARIANTS
  WindowInBounds
  CommentIsLast
  NothingRepeated
  DropsWhatItMatched
  FoldIsLinear
  TokensInText
  SkippedPassIsTheSame
  ReadsInText
  EvilIsSqli
PROPERTIES
  ScanAdvances
