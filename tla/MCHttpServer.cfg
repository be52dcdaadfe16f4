SPECIFICATION Spec
CONSTANTS
    Conn = {c1}
    Path <- MCPath
    Trees <- MCTrees
    Requests <- MCRequests
    MaxRequests = 3
CHECK_DEADLOCK FALSE
INVARIANTS Framed WholeRequestsAnswered AnswersInOrder NoStaleSize
