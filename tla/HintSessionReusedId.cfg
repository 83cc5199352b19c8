SPECIFICATION Spec
CONSTANTS
  MaxSession = 2
  Object = {o1, o2, o3}
  NoObject = NoObject
INVARIANT UniqueIds
