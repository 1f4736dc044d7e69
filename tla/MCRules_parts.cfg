SPECIFICATION Spec
CONSTANTS
  Calls <- MCCalls
  Policies <- MCPolicies
  Defaults <- MCDefaults
  LayerFiles <- MCContents
  Executions <- MCExecutions
  Stages <- MCStages
  Sayings <- MCSayings
  Rule <- MCRule
  RuleStages <- MCRuleStages
  RuleKinds = {"bug", "chore"}
  Texts <- MCTexts
  Briefs <- MCBriefs
  Analyst = TRUE
  Risky = {"migrations"}
  Base = "trunk"
  MaxLayers = 2
  MaxHead = 2
  Runs = {"p", "q"}
  Scripts = {"a", "b"}
  Published = FALSE
  MinRecurrence = 2
  MaxCandidates = 1
  MaxRounds = 2
  MaxRows = 2
  Tools = {t1, t2}
  Callers = {c1}
  Bound = {t1, t2}
  Clean = {t1}
  TaskTools = {}
  Local = {t1, t2}
  MaxRepo = 1
  MaxGlobal = 1
  Agree = 1
  Failures = 1
  RecentCap = 2
  MaxHits = 2
  t1 = t1
  t2 = t2
  c1 = c1
  Sessions = {s1, s2}
  s1 = s1
  s2 = s2
  MaxCommands = 3
  MaxRules = 2
  MaxBytes = 2
  MaxEdits = 1
  Placeholders = {"a", "b"}
  MaxSecrets = 2
INVARIANTS PassedIsConfined EffectiveIsHonest AcceptedStaysGuarded AcceptedIsInside WhenIsRead RulesInForce ReadyIsAgreed SecretsHold
PROPERTIES MinedIsTrue PlacesAreEarned
CHECK_DEADLOCK FALSE
CONSTRAINT OneOut
SYMMETRY Interchangeable
