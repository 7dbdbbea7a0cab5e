\* One update, then a restart.
SPECIFICATION Safety
CONSTANTS
  WebTasks = {w1}
  Uploads <- OneUpload
  EraseSize = 2
  ActivePages = 2
  Factory = Factory
  None = None
  MaxResets = 1
PROPERTIES
  UpdateLasts
CHECK_DEADLOCK FALSE
