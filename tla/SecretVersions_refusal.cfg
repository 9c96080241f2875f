\* What the error of Rotate's version check says, and when it fires.
SPECIFICATION Spec
CONSTANTS
  Requests = {r1, r2}
  Nobody = Nobody
  MaxVersion = 3
  Horizon = 0
  Offered <- Editing
PROPERTIES RefusedOnlyIfOvertaken
