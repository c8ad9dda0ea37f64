CONSTANTS
  Payloads <- OnePayload
  Revision = "unsaid"
  MaxLength = 7
  MaxRevisions = 1
SPECIFICATION Spec
INVARIANTS AcceptedIsAsWritten ExtendsIsPrefix IncludedAtItsIndex
CHECK_DEADLOCK FALSE
