SPECIFICATION Spec
CONSTANTS
  Names = {"home", "office"}
  Passwords = {"secret", "key"}
  Garbage = {"stack"}
  Requests <- MCRequests
  MaxRequests = 3
  MaxRestarts = 2
  MaxEvents = 2
INVARIANTS
  TypeOK
  HandlerMeetsWaiter
  CredentialsTogether
CHECK_DEADLOCK FALSE
