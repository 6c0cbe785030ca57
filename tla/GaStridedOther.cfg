SPECIFICATION Spec
CONSTANTS
  Jobs <- StridedOtherJobs
  MaxElems = 4
  Garbage = {0, 1}
INVARIANT EachElementOnce
