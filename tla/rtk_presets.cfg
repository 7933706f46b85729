SPECIFICATION Spec
CHECK_DEADLOCK FALSE
CONSTANTS
  Static = {"net"}
  Ports = {"usb"}
  Surveyable = {"net"}
  AutoSurvey = {}
  None = "none"
  MaxEvents = 4
INVARIANTS
  ListedByOwner
  ShownIsRunning
  SharedIsRight
  RequestsSettle
  SurveyIsKept
