\* One user and one field: the order of the answers is what matters.
SPECIFICATION FairSpec
CONSTANTS
  Users = {alice}
  NoUser = NoUser
  Fields = {name}
  Entries = {}
  Blank = Blank
  Missing = Missing
  MaxSaves = 2
PROPERTIES
  SpinnerEnds
