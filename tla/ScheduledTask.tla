---------------------------- MODULE ScheduledTask ----------------------------
(***************************************************************************)
(* The execution of one scheduled event rule that must not run on two      *)
(* instances at a time (eventCronJob of internal/common/eventmanager.go    *)
(* and the tasks table of internal/dataprovider).  A job is one schedule   *)
(* of the rule on one instance: cron runs every job in a goroutine of its  *)
(* own.  The jobs share nothing but the row of the task, whose version     *)
(* decides who executes the rule and whose timestamp, written again and    *)
(* again while the rule is executed, keeps the others away.                *)
(* The two waits the code cannot rule out are bounded by assumption: a job *)
(* looks at the clock at most ReadDelay after it read the row, and a       *)
(* running job writes the timestamp at least every BeatDelay.              *)
(***************************************************************************)
EXTENDS Integers

CONSTANTS
    Jobs,
    updateInterval,   \* the interval between two timestamps, 5 minutes
    ReadDelay, BeatDelay,
    Skew,             \* what the clock of the instance of a job is ahead
    MaxSkew,
    MaxTime           \* bound: the clock stops here

ASSUME DelaysAssumption ==
    /\ updateInterval \in Nat /\ ReadDelay \in Nat /\ BeatDelay \in Nat
    /\ MaxSkew \in Nat /\ Skew \in [Jobs -> 0 .. MaxSkew]
    /\ ReadDelay + BeatDelay + MaxSkew <= 2 * updateInterval

VARIABLES
    now,
    exists, updatedAt, version,   \* the row of the task
    pc,                           \* where Run is
    seenAt, seenVersion,          \* the task Run holds
    readTime,                     \* when it was read
    beatTime,                     \* when the running job last wrote it
    lastStart                     \* history: the last execution, or -1

vars == <<now, exists, updatedAt, version, pc, seenAt, seenVersion, readTime,
          beatTime, lastStart>>
row == <<exists, updatedAt, version>>

\* time.Now() on the instance of a job; it is never near the zero time
Epoch == 2 * updateInterval + 1
Clock(j) == Epoch + now + Skew[j]

Init ==
    /\ now = 0
    /\ exists = FALSE /\ updatedAt = 0 /\ version = 0
    /\ pc = [j \in Jobs |-> "idle"]
    /\ seenAt = [j \in Jobs |-> 0]
    /\ seenVersion = [j \in Jobs |-> 0]
    /\ readTime = [j \in Jobs |-> 0]
    /\ beatTime = [j \in Jobs |-> 0]
    /\ lastStart = -1

-------------------------------------------------------------------------------
\* Run returns, and what it held is gone
return(j) ==
    /\ pc' = [pc EXCEPT ![j] = "idle"]
    /\ seenAt' = [seenAt EXCEPT ![j] = 0]
    /\ seenVersion' = [seenVersion EXCEPT ![j] = 0]
    /\ readTime' = [readTime EXCEPT ![j] = 0]
    /\ beatTime' = [beatTime EXCEPT ![j] = 0]

\* Run: GetTaskByName finds the task
getTask(j) ==
    /\ pc[j] = "idle"
    /\ exists
    /\ pc' = [pc EXCEPT ![j] = "read"]
    /\ seenAt' = [seenAt EXCEPT ![j] = updatedAt]
    /\ seenVersion' = [seenVersion EXCEPT ![j] = version]
    /\ readTime' = [readTime EXCEPT ![j] = now]
    /\ UNCHANGED <<now, row, beatTime, lastStart>>

\* Run: GetTaskByName does not find the task
getTaskNotFound(j) ==
    /\ pc[j] = "idle"
    /\ ~ exists
    /\ pc' = [pc EXCEPT ![j] = "add"]
    /\ UNCHANGED <<now, row, seenAt, seenVersion, readTime, beatTime,
                   lastStart>>

AddTaskUnset(j) ==
    /\ pc[j] = "add"
    /\ ~ exists
    /\ exists' = TRUE /\ updatedAt' = Clock(j) /\ version' = -1
    /\ pc' = [pc EXCEPT ![j] = "update"]
    /\ seenAt' = [seenAt EXCEPT ![j] = 0]
    /\ seenVersion' = [seenVersion EXCEPT ![j] = 0]
    /\ UNCHANGED <<now, readTime, beatTime, lastStart>>
\* AddTask: Run goes on with a task of time and version 0
AddTask(j) ==
    /\ pc[j] = "add"
    /\ ~ exists
    /\ exists' = TRUE /\ updatedAt' = Clock(j) /\ version' = 0
    /\ pc' = [pc EXCEPT ![j] = "update"]
    /\ seenAt' = [seenAt EXCEPT ![j] = 0]
    /\ seenVersion' = [seenVersion EXCEPT ![j] = 0]
    /\ UNCHANGED <<now, readTime, beatTime, lastStart>>

\* AddTask fails: another job added the task, or the provider fails, before
\* or after it stored the row
AddTaskFails(j) ==
    /\ pc[j] = "add"
    /\ return(j)
    /\ \/ UNCHANGED row
       \/ ~ exists /\ exists' = TRUE /\ updatedAt' = Clock(j) /\ version' = 0
    /\ UNCHANGED <<now, lastStart>>

\* updatedAt.Add(updateInterval*2 + 1).After(time.Now()): to the resolution of
\* the clock this is "not later than two intervals"
TooRecent(j) == Clock(j) <= seenAt[j] + 2 * updateInterval

\* The task is not too recent
checkTask(j) ==
    /\ pc[j] = "read"
    /\ ~ TooRecent(j)
    /\ pc' = [pc EXCEPT ![j] = "update"]
    /\ UNCHANGED <<now, row, seenAt, seenVersion, readTime, beatTime,
                   lastStart>>

\* "task too recent, skip execution"
skipTask(j) ==
    /\ pc[j] = "read"
    /\ TooRecent(j)
    /\ return(j)
    /\ UNCHANGED <<now, row, lastStart>>

StoreVersionUnchecked(j) ==
    /\ exists
    /\ version' = version + 1
    /\ updatedAt' = Clock(j)
    /\ UNCHANGED exists
\* UpdateTask stores the next version if the version is still the one seen
StoreVersion(j) ==
    /\ exists
    /\ version = seenVersion[j]
    /\ version' = version + 1
    /\ updatedAt' = Clock(j)
    /\ UNCHANGED exists

UpdateTask(j) ==
    /\ pc[j] = "update"
    /\ StoreVersion(j)
    /\ pc' = [pc EXCEPT ![j] = "running"]
    /\ beatTime' = [beatTime EXCEPT ![j] = now]
    /\ lastStart' = now
    /\ UNCHANGED <<now, seenAt, seenVersion, readTime>>

\* UpdateTask changes no row, or fails before or after it stored the version:
\* "unable to update task timestamp, skip execution"
UpdateTaskFails(j) ==
    /\ pc[j] = "update"
    /\ StoreVersion(j) \/ UNCHANGED row
    /\ return(j)
    /\ UNCHANGED <<now, lastStart>>

\* The worker of the ticker; a timestamp that fails is a late one
UpdateTaskTimestamp(j) ==
    /\ pc[j] = "running"
    /\ updatedAt' = Clock(j)
    /\ beatTime' = [beatTime EXCEPT ![j] = now]
    /\ UNCHANGED <<now, exists, version, pc, seenAt, seenVersion, readTime,
                   lastStart>>

stopReleasing(j) ==
    /\ pc[j] = "running"
    /\ return(j)
    /\ updatedAt' = 0
    /\ UNCHANGED <<now, exists, version, lastStart>>
\* The actions are done, or the instance crashes: the worker stops with them
stop(j) ==
    /\ pc[j] = "running"
    /\ return(j)
    /\ UNCHANGED <<now, row, lastStart>>

\* An instance crashes before the rule is executed
crash(j) ==
    /\ pc[j] \in {"read", "add", "update"}
    /\ return(j)
    /\ UNCHANGED <<now, row, lastStart>>

\* Time passes unless somebody is late
tick ==
    /\ now < MaxTime
    /\ \A j \in Jobs :
           /\ pc[j] = "read" => now < readTime[j] + ReadDelay
           /\ pc[j] = "running" => now < beatTime[j] + BeatDelay
    /\ now' = now + 1
    /\ UNCHANGED <<row, pc, seenAt, seenVersion, readTime, beatTime,
                   lastStart>>

Next ==
    \/ \E j \in Jobs :
           \/ getTask(j) \/ getTaskNotFound(j) \/ AddTask(j) \/ AddTaskFails(j)
           \/ checkTask(j) \/ skipTask(j)
           \/ UpdateTask(j) \/ UpdateTaskFails(j) \/ UpdateTaskTimestamp(j)
           \/ stop(j) \/ crash(j)
    \/ tick

Spec == Init /\ [][Next]_vars

-------------------------------------------------------------------------------
States == {"idle", "add", "read", "update", "running"}

\* The values the variables of the task and of the jobs take
TypeOK ==
    /\ now \in Nat /\ exists \in BOOLEAN
    /\ updatedAt \in Nat /\ version \in Nat
    /\ pc \in [Jobs -> States]
    /\ seenAt \in [Jobs -> Nat] /\ seenVersion \in [Jobs -> Nat]
    /\ readTime \in [Jobs -> Nat] /\ beatTime \in [Jobs -> Nat]
    /\ lastStart \in Nat \cup {-1}

\* Only one instance executes the rule: at any time at most one job, of any
\* instance, is between its UpdateTask and the end of the actions
SingleExecution ==
    \A i, j \in Jobs : pc[i] = "running" /\ pc[j] = "running" => i = j

\* An execution starts more than two intervals, as the clocks of the instances
\* measure them, after the one before: the jobs that cron starts at the same
\* time on all instances execute the rule once between them
OncePerSchedule ==
    [][lastStart' # lastStart /\ lastStart # -1 =>
           lastStart' + MaxSkew > lastStart + 2 * updateInterval]_vars
==============================================================================
