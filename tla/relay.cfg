\* The relay service with two web tasks and five requests.
SPECIFICATION Spec
CONSTANTS
  NPorts = 2
  WebTasks = {w1, w2}
  Requests <- MixedRequests
  None = None
INVARIANTS
  TypeOK
  OutletsHaveCause
PROPERTIES
  SwitchedByCommand
  ImplementsCommands
  RequestsEnd
  AnswersAreCurrent
