\* Two users who replace each other; one field is enough to see whose it is, and
\* what is typed belongs to nobody.
SPECIFICATION Spec
CONSTANTS
  Users = {alice, bob}
  NoUser = NoUser
  Fields = {name}
  Entries = {}
  Blank = Blank
  Missing = Missing
  MaxSaves = 2
SYMMETRY UserSymmetry
INVARIANTS
  ForeignDataHasCause
  ErasedFieldHasCause
