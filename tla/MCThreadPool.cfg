SPECIFICATION MCFairSpec
CONSTANTS
  N = 2
  Clients = {c1}
  Tasks = {t1, t2, t3}
  None = None
INVARIANTS TypeOK NoLostWakeup OnePlace DestructorDrains Stages
PROPERTIES ImplementsTaskPool AcceptedTasksFinish DestructorReturns
