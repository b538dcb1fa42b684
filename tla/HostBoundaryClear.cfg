SPECIFICATION Spec
CONSTANTS
  r1 = r1
  r2 = r2
  d1 = d1
  d2 = d2
  Null = Null
  Records <- OneRecord
  Payloads <- OnePayload
  MaxStack = 3
PROPERTIES
  ClearsOutsideScript
