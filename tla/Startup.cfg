\* The seven tables of the model and the index; any number of starts and deaths.
SPECIFICATION StartupSpec
INVARIANTS
  StartupTypeOK
  ReseedIsFresh
  ServesWholeSchema
  RestartKeepsRows
