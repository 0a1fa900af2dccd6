CONSTANTS
  MaxCalls = 2
  Products = {"p1", "p2"}
SPECIFICATION Spec
INVARIANT RequiredFieldsFilled
