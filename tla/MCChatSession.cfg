SPECIFICATION FairSpec
CONSTANTS
  Requests <- MCRequests
  Visits <- MCVisits
  Logins <- MCLogins
  MaxEvents = 1
  MaxCalls = 1
INVARIANTS ShownIsOfTheQuestion StatusIsTrue RefusedSessionIsOver
PROPERTIES FinishedStays WaitingEnds
