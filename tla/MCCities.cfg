CONSTANTS
  lund = lund
  umea = umea
  latin1 = latin1
  copy = copy
  Names = {lund, umea, latin1}
  Others = {copy}
  NotUTF8 = {latin1}
  MaxFaults = 1
SPECIFICATION Spec
INVARIANTS
  ListIsSound
  LoadingKeepsWhole
PROPERTIES
  LoadsEveryFileOnce
  LoadEnds
