SPECIFICATION Spec
CONSTANTS
  Boards <- GibOnly
  Fitted <- OutermostFitted
  Requests <- AllRequests
PROPERTIES OnlyTheAskedLaser
