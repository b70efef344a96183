\* The seven identifiers 2, 4 .. 14 of a type with sixteen values, in two bytes of four.
CONSTANTS
  IdMod = 16
  Base = 4
SPECIFICATION FairSpec
INVARIANTS TypeOK RefusedOnlyWhenFull IdSurvives
PROPERTIES ImplementsPool SearchEnds
