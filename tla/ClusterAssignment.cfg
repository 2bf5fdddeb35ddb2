SPECIFICATION ClusterFair
CONSTANTS
  ClusterNodes = {"n1", "n2"}
  ClusterTasks = {"t1"}
  MaxTasksPerNode = 10
  QueriesFail = FALSE
  MaxSessions = 2
  MaxExpired = 0
PROPERTY TasksGetAssigned
CHECK_DEADLOCK FALSE
