SPECIFICATION Spec
CONSTANTS
  Boards <- AllBoards
  Fitted <- OutermostFitted
  Requests <- AllRequests
INVARIANTS CallsLeaveAsAsked AnswersOfTarget ResetLeavesRunning LookUpReachesPll
PROPERTIES AskedLaserWhereSelected OnlyTheAskedPin
