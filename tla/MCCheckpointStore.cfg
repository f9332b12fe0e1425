SPECIFICATION Spec
CONSTANTS
  r1 = r1
  r2 = r2
  a = a
  b = b
  s1 = s1
  s2 = s2
  p1 = p1
  None = None
  Session = {s1, s2}
  Page = {p1}
  Result = {r1, r2}
  Object = {a, b}
  Calls <- MCCalls
  Stage <- MCStage
  Fingerprint <- MCFingerprint
  Parts <- MCParts
INVARIANTS TypeOK ReferencesBacked TablesAgree
PROPERTIES CallsReturn StoreIsACache
