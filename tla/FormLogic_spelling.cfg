SPECIFICATION Spec
CONSTANTS
  FieldIds <- MCFieldIds
  Kind <- MCKind
  Required = {"t"}
  Prefilled = {"t", "d"}
  Texts <- MCTexts
  NumberOf <- MCNumberOf
  NaN = NaN
  OthersTexts <- MCOthersTexts
  Inputs <- SpellingInputs
  Forms <- MCForms
  MaxSaves = 0
INVARIANT RefusedOnlyIfStale
