SPECIFICATION Spec
CONSTANTS
  Requests = {r1, r2}
  Mixed = Mixed
  Plain = Plain
  Other = Other
  Names <- MCNames
  Lower <- MCLower
  AltName = AltName
  NoName = NoName
  RequestTimeout = 30
SYMMETRY RequestSymmetry
INVARIANTS
  AcceptedNamesAgree
