\* Margins, widths and windows stand for 12, 10, some 400 and from a phone to a desktop.
CONSTANTS
  Windows = {5, 9}
  Width = 4
  Shorter = 1
  EdgeMargin = 2
  DragMargin = 1
  MaxPromises = 2
SPECIFICATION Spec
INVARIANTS StaysInWindow TimersMatch ClosingHasAnswer
PROPERTIES PlaceSurvives QuietWhenGone
