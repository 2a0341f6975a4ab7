\* One user who comes and goes, two fields and one thing to type; two saves,
\* so that a page can load and save over an update an earlier page has queued.
SPECIFICATION Spec
CONSTANTS
  Users = {alice}
  NoUser = NoUser
  Fields = {name, phone}
  Entries = {typed}
  Blank = Blank
  Missing = Missing
  MaxSaves = 2
INVARIANTS
  TypeOK
  QuietFormIsTrue
