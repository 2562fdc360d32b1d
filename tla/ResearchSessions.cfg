\* Two jobs of one research, two pages, one id to store them under, three steps of the agent.
SPECIFICATION FairSpec
CONSTANTS
  Research <- MCResearch
  Url = {"u1", "u2"}
  Path = {"p1"}
  MaxSteps = 3
  MaxLosses = 1
  MaxDeaths = 1
INVARIANTS
  TypeOK
  CitedWasFetched
  CitedMediaIsStored
  SessionsOfJobs
PROPERTIES
  JobsAnswered
