SPECIFICATION FairSpec
CONSTANTS
  FieldIds <- MCFieldIds
  Kind <- MCKind
  Required = {"t"}
  Prefilled = {"t", "d"}
  Texts <- MCTexts
  NumberOf <- MCNumberOf
  NaN = NaN
  OthersTexts <- MCOthersTexts
  Inputs <- MCInputs
  Forms <- MCForms
  MaxSaves = 2
INVARIANTS VisibleIsLeast StoredConsistent RefusedOnlyIfStale SameFieldsShown
PROPERTY EvaluationEnds
