SPECIFICATION StudiesSpec
CONSTANTS
  Arms = {"arm1", "arm2"}
  Tasks = {"m1", "c1", "m2"}
  ArmOf <- MCArmOf
  Main <- MCMain
  MaxCalls = 2
  MaxTokens = 1
  Judges = {"j1", "j2"}
  Families = {"f1", "f2"}
  Declared <- MCDeclared
  Repeats = 2
  Hosts = {"h1", "h2"}
  Nobody = "nobody"
  Order <- MCOrder
  Kind <- MCKind
  Rows = 2
  Extra = 1
  MaxEdits = 1
INVARIANTS ReceiptFinal PanelHonest OneAuthor TerminalHonest
CHECK_DEADLOCK FALSE
