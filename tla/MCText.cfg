SPECIFICATION Spec
CONSTANTS
  None = None
  Plains <- MCPlains
  Texts <- MCTexts
  ByteSample <- MCBytes
  MaxBytes = 4
  Strings <- MCStrings
  HexDigits = {"a", "b"}
  CookieLists <- MCCookieLists
  Path <- MCPath
  Templates <- MCTemplates
  Expressions <- MCExpressions
  SizeMax = 63
  Initial = 4
  Threshold = 16
  Padding = 2
  Chunks = {1, 2, 5, 11, 40, 60, 63}
  Codes <- MCCodes
INVARIANTS
  EncodesInPlace
  DecodesInPlace
  Utf8Agrees
  ArgsAgree
  UnescapeFits
  CookiesAgree
  CookiesFit
  SubstitutionAgrees
  BufferFits
  StatusFound
CHECK_DEADLOCK FALSE
