SPECIFICATION Spec
CONSTANTS
  Items = {i1, i2, i3, i4}  Kinds = {"object", "one"}  NULL = NULL
  Names <- BothCases  Lower <- LowerCase
SYMMETRY Addresses  CONSTRAINT FewOthers

INVARIANTS ListsAreSound OwnedAndHeld LookupsAgree
PROPERTY ImplementsForest
