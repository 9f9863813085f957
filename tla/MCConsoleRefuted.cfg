\* Run by hand on Console, with one of the properties at a time: TLC stops at
\* a state that violates one, and some lie behind others.
SPECIFICATION Spec
CONSTANTS
  Sessions = {1, 2}
  Followed = {"list", "checkpoints", "reviews"}
  MaxCalls = 2
  MaxSends = 2
INVARIANTS
  LoginIsUncovered
  RowsAreOfSelected
  TerminatesWhatItShows
  MessageReachesItsSession
  DraftIsOfSelected
PROPERTY EndedStaysEnded
CHECK_DEADLOCK FALSE
