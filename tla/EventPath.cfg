CONSTANTS
  PerEvntNum = 2
  ApbEvntNum = 0
  Depth = 2
  EnabledLines = {26, 29}
  None = none
SPECIFICATION LiveSpec
PROPERTIES ImplementsService EventuallyHandled
