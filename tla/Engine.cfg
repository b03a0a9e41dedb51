SPECIFICATION Spec
CONSTANTS
  Families <- MCFamilies
  None = None
  PerMillion = 4
  MaxU64 = 12
  FullRisk = 10
  Grain = 10
  Tokens <- MCTokens
  Risks <- MCRisks
CHECK_DEADLOCK FALSE
INVARIANTS
  RoutedTierIsLawful
  DeniedRiskAlwaysBlocks
  LostClassifierNeverOptimises
  HarderRequestNeverUnblocks
  ExplanationAddsUp
  ChoiceIsTheBest
  MostSensitiveClassWins
  HintsNeverLoosen
  IngressAgrees
