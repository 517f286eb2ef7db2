\* Both back ends that recover; one outage is enough to see it.
SPECIFICATION AudioSpec
CONSTANTS
  Backends = {"cpal", "coreaudio"}
  Routes = {1, 2, 3}
  SlowRoutes = {2}
  MaxChanges = 2
  RECOVERY_MAX_ATTEMPTS = 3
INVARIANTS
  RetriesReachTheDevice
