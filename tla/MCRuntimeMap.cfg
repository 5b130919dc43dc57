CONSTANTS
  k1 = k1
  k2 = k2
  k3 = k3
  k4 = k4
  textA = textA
  textB = textB
  textC = textC
  n1 = n1
  n2 = n2
  n3 = n3
  Keys <- MCKeys
  Texts <- MCTexts
  Nodes <- MCNodes
  TextOf <- MCTextOf
  HashOf <- MCHashOf
  Values = {v1, v2}
  KeysChange = FALSE
  Freed = Freed
  Nil = Nil
SPECIFICATION ClientSpec
INVARIANTS TypeOK ChainsOwnNodes LookupFindsContents EachVisitsAll LookupIsLastAssigned
PROPERTY EditsAreExact
