SPECIFICATION EnginesSpec
CONSTANTS
  Models <- MCModels
  MaxAttempts = 4
  Roster = 2
  MaxCalls = 3
  One = 2
  Solved = 2
  Scores <- MCScores
  MaxRounds = 3
  Perspectives = 2
  RawScores <- MCRaw
  TopScore = 3
  Angles <- MCAngles
  StageModes = {"inline", "access", "adversarial", "dialectic"}
  MaxDepth = 3
  BeamWidth = 1
  MaxGanRounds = 2
  Threshold = 7
  TreeScores = {2, 8, 9}
  MaxThoughts = 2
  Allowance = 6
  Workers = 1
  MaxPool = 6
  Texts = {"x", "x spaced", "y", "prose"}
  KeyOf <- MCKeyOf
  Unparsed = "unparsed"
  Worth <- MCWorth
  MaxSteps = 4
  Survivals = {3, 5}
INVARIANTS
  StopsInTime EvidenceWhole WorkKeptExactly CompletedIsVerified
  EnsembleBest DialecticBest StagesInformed
  TreeSound MetaHonest RulesDeployable ClaimsMonotone
CHECK_DEADLOCK FALSE
