\* An error of poll() or read().
SPECIFICATION Spec
CONSTANTS
  MaxCommands = 2
  HangUps = FALSE
  ReadErrors = TRUE
PROPERTIES FailureFreesContext
