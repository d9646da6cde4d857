CONSTANTS
  Contexts = {"cpu0", "cpu1"}
  CountMod = 2
SPECIFICATION FairSpec
INVARIANTS QuiescentConsistent
PROPERTIES ImplementsRegister LevelConverges
