CONSTANTS RuleFiles <- MCRuleFiles
          Inputs <- MCInputs
          x = x
          y = y
          NoField = NoField
          LogPriority = 2
          MaxId = 9
          MaxEvents = 4
          MaxTime = 3
SPECIFICATION Spec
INVARIANTS RatesAreExact ResetConsumes UnlessAlertsJustified FailsOnlyOnBadRules
SYMMETRY MCSymmetry
CHECK_DEADLOCK FALSE
