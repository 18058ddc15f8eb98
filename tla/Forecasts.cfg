SPECIFICATION Spec
CONSTANTS
  Days <- MCDays
  Session <- MCSession
  Horizon <- MCHorizon
  MacroHorizon <- MCMacroHorizon
  Price <- MCPrice
  Ewma <- MCEwma
  Bands <- MCBands
  Probabilities <- MCProbabilities
  Offers <- MCOffers
  Recs = {1, 2, 3}
  Configs <- MCConfigs
  Policy <- MCPolicy
  Width <- MCWidth
  Week <- MCWeek
  MinClusters = 2
  Workers = {w1, w2, w3}
  Plans <- MCPlans
SYMMETRY Interchangeable
CHECK_DEADLOCK FALSE
INVARIANTS
  OutcomesAgree
  SamplesRespectEras
  ReportsReproduce
PROPERTIES
  PassesSettle
