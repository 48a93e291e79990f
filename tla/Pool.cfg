\* Two long tasks, two of a session, three threads, and a shutdown at any time.
SPECIFICATION FairSpec
CONSTANTS
  receive = receive
  update = update
  session1 = session1
  session2 = session2
  NoTask = NoTask
  Task <- Tasks
  LongTask <- LongTasks
  ThreadCount = 3
  MaxSpurious = 1
INVARIANTS TypeOK NoLostWakeup
PROPERTIES PoolSpec TaskStarts Stops
CHECK_DEADLOCK FALSE
