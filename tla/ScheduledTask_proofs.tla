------------------------ MODULE ScheduledTask_proofs ------------------------
(***************************************************************************)
(* Proofs about ScheduledTask.  That at most one job runs is not inductive:*)
(* it rests on what a job that has read the row can still do to a job that *)
(* is running.  Either the version it saw is gone, and its UpdateTask will *)
(* fail, or it saw a timestamp so recent that it will skip the execution.  *)
(***************************************************************************)
EXTENDS ScheduledTask, TLAPS

\* A job that is past the lookup of the task found its row or added it
RowExists ==
    \A j \in Jobs : pc[j] \in {"read", "update", "running"} => exists

\* The version of the row never decreases
SeenIsPast ==
    \A j \in Jobs : pc[j] \in {"read", "update"} => seenVersion[j] <= version

\* The two assumed bounds
ReadIsRecent ==
    \A j \in Jobs :
        pc[j] = "read" =>
            readTime[j] <= now /\ now <= readTime[j] + ReadDelay

BeatIsRecent ==
    \A j \in Jobs :
        pc[j] = "running" =>
            /\ beatTime[j] <= now /\ now <= beatTime[j] + BeatDelay
            /\ updatedAt >= Epoch + beatTime[j]

\* While a job runs, one that saw the current version saw a recent timestamp
ReaderSkips ==
    \A i, j \in Jobs :
        pc[i] = "running" /\ pc[j] = "read" /\ seenVersion[j] = version =>
            seenAt[j] + BeatDelay >= Epoch + readTime[j]

\* While a job runs, one that is about to update has an old version
UpdaterFails ==
    \A i, j \in Jobs :
        pc[i] = "running" /\ pc[j] = "update" => seenVersion[j] < version

\* What holds once the rule was executed
StartedInv ==
    lastStart # -1 =>
        /\ exists /\ version > 0
        /\ lastStart <= now
        /\ updatedAt >= Epoch + lastStart

\* After an execution, a job that saw the current version saw its timestamp
StartSeen ==
    \A j \in Jobs :
        lastStart # -1 /\ seenVersion[j] = version =>
            /\ pc[j] = "read" => seenAt[j] >= Epoch + lastStart
            /\ pc[j] = "update" =>
                   now + MaxSkew > lastStart + 2 * updateInterval

Inv ==
    /\ TypeOK /\ RowExists /\ SeenIsPast /\ ReadIsRecent /\ BeatIsRecent
    /\ SingleExecution /\ ReaderSkips /\ UpdaterFails
    /\ StartedInv /\ StartSeen

-------------------------------------------------------------------------------
\* The clock of an instance is ahead of the time by the skew at most, and it
\* is a positive number of milliseconds
LEMMA ClockBounds ==
    ASSUME TypeOK, NEW j \in Jobs
    PROVE  /\ Clock(j) \in Nat
           /\ Clock(j) >= Epoch + now
           /\ Clock(j) <= Epoch + now + MaxSkew
           /\ Epoch \in Nat
  BY DelaysAssumption DEF TypeOK, Clock, Epoch

\* When the program starts no job has looked for the task
LEMMA InitInv ==
    ASSUME Init
    PROVE  Inv
  <1>1. TypeOK
    BY Zenon DEF Init, TypeOK, States
  <1>2. lastStart = -1 /\ \A j \in Jobs : pc[j] = "idle"
    BY DEF Init
  <1>3. RowExists /\ SeenIsPast /\ ReadIsRecent /\ BeatIsRecent
    BY <1>2 DEF RowExists, SeenIsPast, ReadIsRecent, BeatIsRecent
  <1>4. SingleExecution /\ ReaderSkips /\ UpdaterFails
    BY <1>2 DEF SingleExecution, ReaderSkips, UpdaterFails
  <1>5. StartedInv /\ StartSeen
    BY <1>2 DEF StartedInv, StartSeen
  <1> QED BY <1>1, <1>3, <1>4, <1>5 DEF Inv

\* A Run that returns, leaving the row as it is, keeps the invariant
LEMMA ReturnInv ==
    ASSUME Inv, NEW j \in Jobs, return(j), UNCHANGED <<now, row, lastStart>>
    PROVE  Inv'
  <1> USE DelaysAssumption DEF return, row, Epoch
  <1>1. TypeOK'
    BY DEF Inv, TypeOK, States
  <1>2. pc'[j] = "idle" /\ \A k \in Jobs \ {j} :
            /\ pc'[k] = pc[k] /\ seenAt'[k] = seenAt[k]
            /\ seenVersion'[k] = seenVersion[k]
            /\ readTime'[k] = readTime[k] /\ beatTime'[k] = beatTime[k]
    BY DEF Inv, TypeOK
  <1>3. RowExists' /\ SeenIsPast' /\ ReadIsRecent' /\ BeatIsRecent'
    BY <1>2 DEF Inv, RowExists, SeenIsPast, ReadIsRecent, BeatIsRecent
  <1>4. SingleExecution' /\ ReaderSkips' /\ UpdaterFails'
    BY <1>2 DEF Inv, SingleExecution, ReaderSkips, UpdaterFails
  <1>5. StartedInv' /\ StartSeen'
    BY <1>2 DEF Inv, StartedInv, StartSeen
  <1> QED BY <1>1, <1>3, <1>4, <1>5 DEF Inv

\* A job that reads the row while another runs sees a recent timestamp
LEMMA GetTaskInv ==
    ASSUME Inv, NEW j \in Jobs, getTask(j)
    PROVE  Inv'
  <1> USE DelaysAssumption DEF getTask, row, Epoch
  <1>1. TypeOK'
    BY DEF Inv, TypeOK, States
  <1>2. /\ pc'[j] = "read" /\ seenAt'[j] = updatedAt
        /\ seenVersion'[j] = version /\ readTime'[j] = now
        /\ \A k \in Jobs \ {j} :
               /\ pc'[k] = pc[k] /\ seenAt'[k] = seenAt[k]
               /\ seenVersion'[k] = seenVersion[k]
               /\ readTime'[k] = readTime[k]
    BY DEF Inv, TypeOK
  <1>3. RowExists' /\ SeenIsPast' /\ ReadIsRecent' /\ BeatIsRecent'
    BY <1>2 DEF Inv, TypeOK, RowExists, SeenIsPast, ReadIsRecent, BeatIsRecent
  <1>4. SingleExecution' /\ UpdaterFails'
    BY <1>2 DEF Inv, SingleExecution, UpdaterFails
  <1>5. ReaderSkips'
    <2> SUFFICES ASSUME NEW i \in Jobs, NEW k \in Jobs,
                        pc'[i] = "running", pc'[k] = "read",
                        seenVersion'[k] = version
                 PROVE  seenAt'[k] + BeatDelay >= Epoch + readTime'[k]
      BY DEF ReaderSkips
    <2>1. pc[i] = "running" /\ updatedAt >= Epoch + beatTime[i]
          /\ now <= beatTime[i] + BeatDelay
      BY <1>2 DEF Inv, BeatIsRecent
    <2>2. CASE k = j
      BY <1>2, <2>1, <2>2 DEF Inv, TypeOK
    <2>3. CASE k # j
      BY <1>2, <2>1, <2>3 DEF Inv, ReaderSkips
    <2> QED BY <2>2, <2>3
  <1>6. StartedInv' /\ StartSeen'
    BY <1>2 DEF Inv, TypeOK, StartedInv, StartSeen
  <1> QED BY <1>1, <1>3, <1>4, <1>5, <1>6 DEF Inv

\* A job that finds no row holds nothing the invariant speaks of
LEMMA GetTaskNotFoundInv ==
    ASSUME Inv, NEW j \in Jobs, getTaskNotFound(j)
    PROVE  Inv'
  <1> USE DelaysAssumption DEF getTaskNotFound, row, Epoch
  <1>1. TypeOK'
    BY DEF Inv, TypeOK, States
  <1>2. pc'[j] = "add" /\ \A k \in Jobs \ {j} : pc'[k] = pc[k]
    BY DEF Inv, TypeOK
  <1>3. RowExists' /\ SeenIsPast' /\ ReadIsRecent' /\ BeatIsRecent'
    BY <1>2 DEF Inv, RowExists, SeenIsPast, ReadIsRecent, BeatIsRecent
  <1>4. SingleExecution' /\ ReaderSkips' /\ UpdaterFails'
    BY <1>2 DEF Inv, SingleExecution, ReaderSkips, UpdaterFails
  <1>5. StartedInv' /\ StartSeen'
    BY <1>2 DEF Inv, StartedInv, StartSeen
  <1> QED BY <1>1, <1>3, <1>4, <1>5 DEF Inv

\* A row that is added is the first one: nobody has read it, nobody runs
LEMMA NoRow ==
    ASSUME Inv, ~ exists
    PROVE  /\ lastStart = -1
           /\ \A k \in Jobs : pc[k] \notin {"read", "update", "running"}
  BY DEF Inv, RowExists, StartedInv

\* The job that adds the row is the only one past the lookup
LEMMA AddTaskInv ==
    ASSUME Inv, NEW j \in Jobs, AddTask(j)
    PROVE  Inv'
  <1> USE DelaysAssumption, ClockBounds, NoRow DEF AddTask
  <1>1. TypeOK'
    BY DEF Inv, TypeOK, States
  <1>2. /\ lastStart' = -1 /\ pc'[j] = "update" /\ seenVersion'[j] = 0
        /\ \A k \in Jobs \ {j} :
               pc'[k] \notin {"read", "update", "running"}
    BY DEF Inv, TypeOK
  <1>3. RowExists' /\ SeenIsPast' /\ ReadIsRecent' /\ BeatIsRecent'
    BY <1>2 DEF RowExists, SeenIsPast, ReadIsRecent, BeatIsRecent
  <1>4. SingleExecution' /\ ReaderSkips' /\ UpdaterFails'
    BY <1>2 DEF SingleExecution, ReaderSkips, UpdaterFails
  <1>5. StartedInv' /\ StartSeen'
    BY <1>2 DEF StartedInv, StartSeen
  <1> QED BY <1>1, <1>3, <1>4, <1>5 DEF Inv

\* An AddTask that reports an error may have added the row all the same
LEMMA AddTaskFailsInv ==
    ASSUME Inv, NEW j \in Jobs, AddTaskFails(j)
    PROVE  Inv'
  <1>1. CASE UNCHANGED row
    BY <1>1, ReturnInv DEF AddTaskFails
  <1>2. CASE ~ exists /\ exists' = TRUE /\ updatedAt' = Clock(j)
             /\ version' = 0
    <2> USE DelaysAssumption, ClockBounds, NoRow, <1>2
        DEF AddTaskFails, return
    <2>1. TypeOK'
      BY DEF Inv, TypeOK, States
    <2>2. /\ lastStart' = -1
          /\ \A k \in Jobs : pc'[k] \notin {"read", "update", "running"}
      BY DEF Inv, TypeOK
    <2>3. RowExists' /\ SeenIsPast' /\ ReadIsRecent' /\ BeatIsRecent'
      BY <2>2 DEF RowExists, SeenIsPast, ReadIsRecent, BeatIsRecent
    <2>4. SingleExecution' /\ ReaderSkips' /\ UpdaterFails'
      BY <2>2 DEF SingleExecution, ReaderSkips, UpdaterFails
    <2>5. StartedInv' /\ StartSeen'
      BY <2>2 DEF StartedInv, StartSeen
    <2> QED BY <2>1, <2>3, <2>4, <2>5 DEF Inv
  <1> QED BY <1>1, <1>2 DEF AddTaskFails

\* A job that passes the check while another runs saw an old version, and
\* one that saw the current version passes it two intervals after the start
LEMMA CheckTaskInv ==
    ASSUME Inv, NEW j \in Jobs, checkTask(j)
    PROVE  Inv'
  <1> USE DelaysAssumption DEF checkTask, row, Epoch
  <1>1. TypeOK'
    BY DEF Inv, TypeOK, States
  <1>2. /\ pc[j] = "read" /\ pc'[j] = "update"
        /\ \A k \in Jobs \ {j} : pc'[k] = pc[k]
    BY DEF Inv, TypeOK
  <1>3. RowExists' /\ SeenIsPast' /\ ReadIsRecent' /\ BeatIsRecent'
    BY <1>2 DEF Inv, RowExists, SeenIsPast, ReadIsRecent, BeatIsRecent
  <1>4. SingleExecution' /\ ReaderSkips'
    BY <1>2 DEF Inv, SingleExecution, ReaderSkips
  <1>5. seenAt[j] + 2 * updateInterval < Epoch + now + MaxSkew
    BY ClockBounds DEF Inv, TypeOK, TooRecent
  <1>6. UpdaterFails'
    <2> SUFFICES ASSUME NEW i \in Jobs, pc[i] = "running"
                 PROVE  seenVersion[j] < version
      BY <1>2 DEF Inv, UpdaterFails
    <2>1. now <= readTime[j] + ReadDelay
      BY <1>2 DEF Inv, ReadIsRecent
    <2>2. CASE seenVersion[j] = version
      <3>1. seenAt[j] + BeatDelay >= Epoch + readTime[j]
        BY <1>2, <2>2 DEF Inv, ReaderSkips
      <3> QED BY <1>5, <2>1, <3>1 DEF Inv, TypeOK
    <2> QED BY <1>2, <2>2 DEF Inv, SeenIsPast, TypeOK
  <1>7. StartSeen'
    <2> SUFFICES ASSUME lastStart # -1, seenVersion[j] = version
                 PROVE  now + MaxSkew > lastStart + 2 * updateInterval
      BY <1>2 DEF Inv, StartSeen
    <2>1. seenAt[j] >= Epoch + lastStart
      BY <1>2 DEF Inv, StartSeen
    <2> QED BY <1>5, <2>1 DEF Inv, TypeOK
  <1>8. StartedInv'
    BY DEF Inv, StartedInv
  <1> QED BY <1>1, <1>3, <1>4, <1>6, <1>7, <1>8 DEF Inv

\* The version is only stored when nobody runs, and makes all versions that
\* were seen old
LEMMA StoreVersionAlone ==
    ASSUME Inv, NEW j \in Jobs, pc[j] = "update", StoreVersion(j)
    PROVE  /\ \A i \in Jobs : pc[i] # "running"
           /\ \A k \in Jobs : pc[k] \in {"read", "update"} =>
                                  seenVersion[k] < version'
           /\ version' \in Nat /\ version' > 0 /\ exists'
           /\ updatedAt' \in Nat /\ updatedAt' >= Epoch + now
  <1>1. \A i \in Jobs : pc[i] # "running"
    BY DEF Inv, TypeOK, UpdaterFails, StoreVersion
  <1>2. version' = version + 1 /\ updatedAt' = Clock(j) /\ exists'
    BY DEF StoreVersion
  <1>3. \A k \in Jobs : pc[k] \in {"read", "update"} =>
                            seenVersion[k] < version'
    BY <1>2 DEF Inv, TypeOK, SeenIsPast
  <1>4. version' \in Nat /\ version' > 0
    BY <1>2 DEF Inv, TypeOK
  <1>5. updatedAt' \in Nat /\ updatedAt' >= Epoch + now
    BY <1>2, ClockBounds DEF Inv
  <1> QED BY <1>1, <1>2, <1>3, <1>4, <1>5

\* The job that stores the version is the only one that runs
LEMMA UpdateTaskInv ==
    ASSUME Inv, NEW j \in Jobs, UpdateTask(j)
    PROVE  Inv'
  <1> USE DelaysAssumption DEF UpdateTask, Epoch
  <1>1. /\ \A i \in Jobs : pc[i] # "running"
        /\ \A k \in Jobs : pc[k] \in {"read", "update"} =>
                               seenVersion[k] < version'
        /\ version' \in Nat /\ version' > 0 /\ exists'
        /\ updatedAt' \in Nat /\ updatedAt' >= Epoch + now
    BY StoreVersionAlone
  <1>2. TypeOK'
    BY <1>1 DEF Inv, TypeOK, States
  <1>3. /\ pc'[j] = "running" /\ beatTime'[j] = now
        /\ \A k \in Jobs \ {j} : pc'[k] = pc[k] /\ pc'[k] # "running"
    BY <1>1 DEF Inv, TypeOK
  <1>4. RowExists' /\ ReadIsRecent'
    BY <1>1, <1>3 DEF Inv, RowExists, ReadIsRecent
  <1>5. \A k \in Jobs : pc'[k] \in {"read", "update"} =>
                            seenVersion'[k] < version'
    BY <1>1, <1>3
  <1>6. SeenIsPast' /\ UpdaterFails' /\ ReaderSkips' /\ StartSeen'
    BY <1>2, <1>5
       DEF TypeOK, SeenIsPast, UpdaterFails, ReaderSkips, StartSeen
  <1>7. BeatIsRecent'
    BY <1>1, <1>3 DEF Inv, TypeOK, BeatIsRecent
  <1>8. SingleExecution' /\ StartedInv'
    BY <1>1, <1>3 DEF Inv, TypeOK, SingleExecution, StartedInv
  <1> QED BY <1>2, <1>4, <1>6, <1>7, <1>8 DEF Inv

\* An UpdateTask that reports an error may have stored the version
LEMMA UpdateTaskFailsInv ==
    ASSUME Inv, NEW j \in Jobs, UpdateTaskFails(j)
    PROVE  Inv'
  <1>1. CASE UNCHANGED row
    BY <1>1, ReturnInv DEF UpdateTaskFails
  <1>2. CASE StoreVersion(j)
    <2> USE DelaysAssumption DEF UpdateTaskFails, return, Epoch
    <2>1. /\ \A i \in Jobs : pc[i] # "running"
          /\ \A k \in Jobs : pc[k] \in {"read", "update"} =>
                                 seenVersion[k] < version'
          /\ version' \in Nat /\ version' > 0 /\ exists'
          /\ updatedAt' \in Nat /\ updatedAt' >= Epoch + now
      BY <1>2, StoreVersionAlone
    <2>2. TypeOK'
      BY <2>1 DEF Inv, TypeOK, States
    <2>3. /\ pc'[j] = "idle"
          /\ \A k \in Jobs \ {j} :
                 /\ pc'[k] = pc[k] /\ pc'[k] # "running"
                 /\ seenVersion'[k] = seenVersion[k]
                 /\ readTime'[k] = readTime[k]
      BY <2>1 DEF Inv, TypeOK
    <2>4. RowExists' /\ ReadIsRecent' /\ BeatIsRecent' /\ SingleExecution'
      BY <2>1, <2>3
         DEF Inv, RowExists, ReadIsRecent, BeatIsRecent, SingleExecution
    <2>5. \A k \in Jobs : pc'[k] \in {"read", "update"} =>
                              seenVersion'[k] < version'
      BY <2>1, <2>3
    <2>6. SeenIsPast' /\ UpdaterFails' /\ ReaderSkips' /\ StartSeen'
      BY <2>2, <2>5
         DEF TypeOK, SeenIsPast, UpdaterFails, ReaderSkips, StartSeen
    <2>7. StartedInv'
      BY <2>1 DEF Inv, TypeOK, StartedInv
    <2> QED BY <2>2, <2>4, <2>6, <2>7 DEF Inv
  <1> QED BY <1>1, <1>2 DEF UpdateTaskFails

\* The timestamp of the running job only makes the row more recent
LEMMA UpdateTaskTimestampInv ==
    ASSUME Inv, NEW j \in Jobs, UpdateTaskTimestamp(j)
    PROVE  Inv'
  <1> USE DelaysAssumption DEF UpdateTaskTimestamp, Epoch
  <1>1. updatedAt' \in Nat /\ updatedAt' >= Epoch + now
    BY ClockBounds DEF Inv
  <1>2. TypeOK'
    BY <1>1 DEF Inv, TypeOK, States
  <1>3. beatTime'[j] = now
    BY DEF Inv, TypeOK
  <1>4. \A k \in Jobs : pc[k] = "running" => k = j
    BY DEF Inv, SingleExecution
  <1>5. BeatIsRecent'
    BY <1>1, <1>3, <1>4 DEF Inv, TypeOK, BeatIsRecent
  <1>6. StartedInv' /\ StartSeen'
    BY <1>1 DEF Inv, TypeOK, StartedInv, StartSeen
  <1>7. RowExists' /\ SeenIsPast' /\ ReadIsRecent'
    BY DEF Inv, RowExists, SeenIsPast, ReadIsRecent
  <1>8. SingleExecution' /\ ReaderSkips' /\ UpdaterFails'
    BY DEF Inv, SingleExecution, ReaderSkips, UpdaterFails
  <1> QED BY <1>2, <1>5, <1>6, <1>7, <1>8 DEF Inv

\* Time passes no further than the two bounds allow
LEMMA TickInv ==
    ASSUME Inv, tick
    PROVE  Inv'
  <1> USE DelaysAssumption DEF tick, row, Epoch
  <1>1. TypeOK'
    BY DEF Inv, TypeOK, States
  <1>2. ReadIsRecent' /\ BeatIsRecent'
    BY DEF Inv, TypeOK, ReadIsRecent, BeatIsRecent
  <1>3. StartedInv' /\ StartSeen'
    BY DEF Inv, TypeOK, StartedInv, StartSeen
  <1>4. RowExists' /\ SeenIsPast'
    BY DEF Inv, RowExists, SeenIsPast
  <1>5. SingleExecution' /\ ReaderSkips' /\ UpdaterFails'
    BY DEF Inv, SingleExecution, ReaderSkips, UpdaterFails
  <1> QED BY <1>1, <1>2, <1>3, <1>4, <1>5 DEF Inv

\* Every step of every job, and of time, keeps the invariant
LEMMA NextInv ==
    ASSUME Inv, [Next]_vars
    PROVE  Inv'
  <1>1. ASSUME NEW j \in Jobs,
               \/ getTask(j) \/ getTaskNotFound(j) \/ AddTask(j)
               \/ AddTaskFails(j) \/ checkTask(j) \/ UpdateTask(j)
               \/ UpdateTaskFails(j) \/ UpdateTaskTimestamp(j)
        PROVE  Inv'
    BY <1>1, GetTaskInv, GetTaskNotFoundInv, AddTaskInv, AddTaskFailsInv,
       CheckTaskInv, UpdateTaskInv, UpdateTaskFailsInv, UpdateTaskTimestampInv
  <1>2. ASSUME NEW j \in Jobs, skipTask(j) \/ stop(j) \/ crash(j)
        PROVE  Inv'
    <2>1. return(j) /\ UNCHANGED <<now, row, lastStart>>
      BY <1>2 DEF skipTask, stop, crash
    <2> QED BY <2>1, ReturnInv
  <1>3. CASE tick
    BY <1>3, TickInv
  <1>4. CASE UNCHANGED vars
    BY <1>4
       DEF vars, Inv, TypeOK, RowExists, SeenIsPast, ReadIsRecent,
           BeatIsRecent, SingleExecution, ReaderSkips, UpdaterFails,
           StartedInv, StartSeen
  <1> QED BY <1>1, <1>2, <1>3, <1>4 DEF Next

\* The variables of the task and of the jobs of eventCronJob.Run keep their
\* types, however many jobs there are
THEOREM TypeCorrect == Spec => []TypeOK
  <1>1. Init => Inv
    BY InitInv
  <1>2. Inv /\ [Next]_vars => Inv'
    BY NextInv
  <1>3. Inv => TypeOK
    BY DEF Inv
  <1> QED BY <1>1, <1>2, <1>3, PTL DEF Spec

\* At most one job executes the rule at any time, for any number of instances
\* and any clocks, as long as the delays and the skew stay within the two
\* update intervals that Run waits
THEOREM SingleExecutionCorrect == Spec => []SingleExecution
  <1>1. Init => Inv
    BY InitInv
  <1>2. Inv /\ [Next]_vars => Inv'
    BY NextInv
  <1>3. Inv => SingleExecution
    BY DEF Inv
  <1> QED BY <1>1, <1>2, <1>3, PTL DEF Spec

\* Two executions of a rule start more than two update intervals apart, up to
\* the skew of the clocks: a schedule that fires on all instances executes it
\* once
THEOREM OncePerScheduleCorrect == Spec => OncePerSchedule
  <1> DEFINE Apart == lastStart' # lastStart /\ lastStart # -1 =>
                          lastStart' + MaxSkew > lastStart + 2 * updateInterval
  <1>1. Init => Inv
    BY InitInv
  <1>2. Inv /\ [Next]_vars => Inv'
    BY NextInv
  <1>3. Inv /\ [Next]_vars => [Apart]_vars
    <2> SUFFICES ASSUME Inv, Next, lastStart' # lastStart, lastStart # -1
                 PROVE  lastStart' + MaxSkew > lastStart + 2 * updateInterval
      OBVIOUS
    <2>1. PICK j \in Jobs : UpdateTask(j)
      BY DEF Next, getTask, getTaskNotFound, AddTask, AddTaskFails, checkTask,
             skipTask, UpdateTaskFails, UpdateTaskTimestamp, stop, crash, tick
    <2>2. lastStart' = now /\ pc[j] = "update" /\ seenVersion[j] = version
      BY <2>1 DEF UpdateTask, StoreVersion
    <2> QED BY <2>2 DEF Inv, StartSeen
  <1> QED BY <1>1, <1>2, <1>3, PTL DEF Spec, OncePerSchedule
=============================================================================
