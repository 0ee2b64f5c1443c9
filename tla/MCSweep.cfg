SPECIFICATION FairSpec
CONSTANTS
  Order <- MCOrder
  Grid <- MCGrid
  Fitting <- MCFitting
  Config <- MCConfig
  Forms <- MCForms
  Verdicts <- MCVerdicts
  MaxEdits = 1  MaxCrashes = 1  MaxFailures = 1
INVARIANTS TypeOK SweptOnce
PROPERTIES SweepsFromLatest Settles
