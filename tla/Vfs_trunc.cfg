CONSTANTS
  n1 = n1  n2 = n2  n3 = n3
  Root = root
  Node = {root, n1, n2, n3}
  Null = null
  Byte = {1, 2}
  Garbage = garbage
  CapUnit = 2
  StdDirs = {"a"}
  Names <- MCNames
  Paths <- MCPaths
  Texts <- MCTexts
  MaxOpen = 2
  CatBuf = 2
  ExecBuf = 4
SYMMETRY MCSymmetry
SPECIFICATION Spec
INVARIANT EchoReplaces
