\* Two variables of the application, and room for the temporary of an assignment.
SPECIFICATION Spec
CONSTANTS
  Classes = {"Daa", "Dtmf"}
  Objects = {a, b}
  Privates = {p1, p2, p3}
  None = None
INVARIANTS
  TypeOK
  IsrDataAlive
  OwnedOnce
  CoilsRest
  LedTellsRelay
