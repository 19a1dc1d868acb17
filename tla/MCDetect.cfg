CONSTANTS
  p1 = p1
  w1 = w1
  w2 = w2
  claude = claude
  codex = codex
  Pane = {p1}
  Window = {w1, w2}
  Kind = {claude, codex}
  None = None
  Confirms = 3
  Delay = 2
  MaxMoves = 1
SPECIFICATION Spec
INVARIANTS
  OncePerTurn
  DoneIsUnseen
  PublishedState
PROPERTIES
  CompletesOnEvidence
  ToldWhatLasts
