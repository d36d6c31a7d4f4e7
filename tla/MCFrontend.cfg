CONSTANTS
  Letters = {"a", "b", "x"}
  Digits = {"1"}
  Null = Null
  parse_global <- parse_global_at
SPECIFICATION MCSpec
INVARIANTS TypeOK TokensFollowText TreeFollowsSource ErrorsEndCompilation ContextIsFreed TurnsReadOn
