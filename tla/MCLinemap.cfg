SPECIFICATION Spec
CONSTANTS
  File <- Files
  Line <- Lines
  Column <- Columns
  MaxBytes = 11
INVARIANTS
  HandlesResolve
  LocationsKeepMeaning
PROPERTY
  ImplementsTable
