SPECIFICATION Spec
CONSTANTS
  Cases <- MCCases
  ChunkLen = 2
  Dotted = {"index.html", "index.htm", "index.tpl.html", "index.tpl", "a.js", "t.tpl"}
  NameSigns = {"a", "h:"}
  TokenSize = 3
  Parts <- MCParts
  PartLens = {2, 7, 8}
  SendRoom = 7
  Socks = {"a", "b"}
  Scripts <- MCScripts
  Cuts = {1, 3, 100}
  MaxActs = 1
INVARIANTS
  TypeOK
  GivenBack
  FilesAsTold
  TemplateIsExpansion
  FramesArrive
CHECK_DEADLOCK FALSE
