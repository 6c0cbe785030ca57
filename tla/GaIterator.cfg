SPECIFICATION Spec
CONSTANTS
  Jobs <- SoundJobs
  MaxElems = 4
  Garbage = {0, 1}
INVARIANTS TypeOK PiecesSound EachElementOnce DefaultMapSound
