SPECIFICATION Spec
CONSTANTS
  k1 = k1
  k2 = k2
  document = document
  dynamodb = dynamodb
  other = other
  NoObject = NoObject
  Run = {r1, r2}
  Key = {k1}
  Keys <- MCOneKey
  Attribute = {document, dynamodb, other}
  Document = document
  Dynamodb = {dynamodb}
  Overlap = TRUE
INVARIANT OriginalsKept
