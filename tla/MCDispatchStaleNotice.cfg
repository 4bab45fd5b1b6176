CONSTANTS
  MaxCalls = 2
  MayLose = FALSE
SPECIFICATION Spec
PROPERTIES
  NoticeIsCurrent
