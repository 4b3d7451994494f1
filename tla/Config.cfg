SPECIFICATION Spec
CONSTANTS
  Inputs <- MCInputs
  NamesIn <- MCNamesIn
  CodeOf <- MCCodeOf
  None = None
INVARIANTS LineAsAsked ConfigsAsWritten
