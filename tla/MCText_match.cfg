SPECIFICATION Spec
CONSTANTS
  None = None
  Plains = {}
  Texts = {}
  ByteSample = {}
  MaxBytes = 0
  Strings = {}
  HexDigits = {}
  CookieLists = {}
  Path <- MCPath
  Templates <- MCTemplates
  Expressions <- MCExpressions
  SizeMax = 63
  Initial = 4
  Threshold = 16
  Padding = 2
  Chunks = {}
  Codes = {}
INVARIANTS
  DollarZeroIsMatch
CHECK_DEADLOCK FALSE
