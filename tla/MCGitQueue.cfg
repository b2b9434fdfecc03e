SPECIFICATION FairSpec
CONSTANTS
  task = task
  add = add
  read = read
  Call = {task, add, read}
  Mutation = {task, add}
  Task = {task}
  Retrying = {add}
  Cancellable = {read}
  Daemon = {add}
  MaxRetries = 1
INVARIANTS TypeOK
PROPERTIES QueueSpec EveryCallSettles NoGitOutlivesItsCall
CHECK_DEADLOCK FALSE
