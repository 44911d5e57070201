SPECIFICATION Spec
CONSTANTS
  factory = factory
  ota0 = ota0
  ota1 = ota1
  c1 = c1
  c2 = c2
  shipped = shipped
  new = new
  Conns = {c1, c2}
  Apps = {factory, ota0, ota1}
  Factory = factory
  Cells = 2
  Images = {shipped, new}
  Shipped = shipped
  NotAnImage = NotAnImage
  MaxLen = 3
  FactoryOptions <- Either
  NoPart = NoPart
  Unknown = Unknown
SYMMETRY Alike
INVARIANTS
  TypeOK
  StillBoots
  SuccessIsOwn
  FactoryKept
