SPECIFICATION Spec
CONSTANTS
  MaxChanges = 4
  Times = {0, 1, 2}
  FirstTime = 1
  NoStream = NoStream
  Directory = Directory
INVARIANTS
  TypeOK
  NeverStale
  UnchangedFileIsServed
