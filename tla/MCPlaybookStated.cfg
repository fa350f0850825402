CONSTANTS
  Accounts = {a1, a2}
  Plans = {p1}
  MaxIntents = 2
  MaxCalls = 2
  MaxPresses = 7
  SdkCalls = 2
  None = None
SPECIFICATION PlaybookSpec
INVARIANTS
  StepsInOrder
  Step1WaitsForRegister
