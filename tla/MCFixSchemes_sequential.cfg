SPECIFICATION Spec
CONSTANTS
  k1 = k1
  k2 = k2
  document = document
  dynamodb = dynamodb
  other = other
  NoObject = NoObject
  Run = {r1, r2}
  Key = {k1, k2}
  Keys <- MCKeys
  Attribute = {document, dynamodb, other}
  Document = document
  Dynamodb = {dynamodb}
  Overlap = FALSE
INVARIANTS
  TypeOK
  OriginalsKept
  Recoverable
  CleanMeansImportable
PROPERTY CleanIsFinal
