SPECIFICATION Spec
CONSTANTS
  MaxDepth = 3
  InitCap = 2
  MaxTokens = 10
  Tokens = {"lbrack", "rbrack", "lbrace", "rbrace", "comma", "colon", "str", "num", "lit", "null", "nan", "bad", "eof"}
INVARIANTS
  TypeOK
  StackAccounting
  LabelFitsContainer
  NoDoubleOwner
  NothingForgotten
  CleanExit
  ResultSpellsInput
PROPERTY ImplementsJsonDoc
