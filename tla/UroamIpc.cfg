SPECIFICATION Spec
CONSTANTS
  Clients = {c1, c2}
  Nobody = Nobody
INVARIANTS
  AnswersTrue
PROPERTIES
  EveryClientServed
