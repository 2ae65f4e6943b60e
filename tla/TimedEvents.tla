---------------------------- MODULE TimedEvents -----------------------------
(***************************************************************************)
(* Timed events.  An event has a row in the catalog, with its schedule and *)
(* whether it is enabled, and, while it is to run, a job in the scheduler  *)
(* of the master.  The sessions of the interactive applications change     *)
(* both: the job first, by a request to the master, then the row.          *)
(*                                                                         *)
(* Each command is a sequence of steps, and the commands of different      *)
(* sessions interleave.  (A command whose ten seconds are over goes on by  *)
(* itself, as one of another session would.)                               *)
(***************************************************************************)
EXTENDS Naturals

CONSTANTS
  Session,
  Event,         \* names, of one organization
  Schedule,      \* cron expressions
  None,
  MaxCommands,   \* bound: commands of all sessions
  MaxRestarts    \* bound: masters that take over

Row == [schedule : Schedule, enable : BOOLEAN]

VARIABLES
  catalog,    \* [Event -> Row \cup {None}]
  jobs,       \* [Event -> Schedule \cup {None}], what the scheduler runs
  command,    \* [Session -> ...], what the session executes
  commands,   \* commands taken so far
  restarts    \* masters that have taken over

eventVars == <<catalog, jobs, command, commands, restarts>>

\* row: the row a command has been given, has read, or is going to write; to: a new name.
Idle == [op |-> "none", step |-> "idle", event |-> None, row |-> None, to |-> None]

EventsInit ==
  /\ catalog = [e \in Event |-> None]
  /\ jobs = [e \in Event |-> None]
  /\ command = [s \in Session |-> Idle]
  /\ commands = 0 /\ restarts = 0

-----------------------------------------------------------------------------
(* A session takes a command                                               *)

Begin(s, c) ==
  /\ command[s] = Idle
  /\ commands < MaxCommands
  /\ commands' = commands + 1
  /\ command' = [command EXCEPT ![s] = c]
  /\ UNCHANGED <<catalog, jobs, restarts>>

\* CREATE EVENT, for an event that is to run at once or not, whose procedure and definer are
\* there.
createTimedEvent(s, e, row) ==
  Begin(s, [op |-> "create", step |-> IF row.enable THEN "register" ELSE "run",
            event |-> e, row |-> row, to |-> None])

\* ALTER EVENT ENABLE registers the event as the catalog has it now.
enableTimedEvent(s, e) ==
  /\ catalog[e] # None
  /\ Begin(s, [op |-> "enable", step |-> "register",
               event |-> e, row |-> catalog[e], to |-> None])

disableTimedEvent(s, e) ==
  Begin(s, [op |-> "disable", step |-> "unregister",
            event |-> e, row |-> None, to |-> None])

renameTimedEvent(s, e, name) ==
  Begin(s, [op |-> "rename", step |-> "run", event |-> e, row |-> None, to |-> name])

\* ALTER EVENT ON SCHEDULE; the definer of an event is altered in the same way.
alterSchedule(s, e, schedule) ==
  Begin(s, [op |-> "schedule", step |-> "run", event |-> e,
            row |-> [schedule |-> schedule, enable |-> FALSE], to |-> None])

dropTimedEvent(s, e) ==
  Begin(s, [op |-> "drop", step |-> "run", event |-> e, row |-> None, to |-> None])

-----------------------------------------------------------------------------
(* The master                                                              *)

Goes(s, step) == command' = [command EXCEPT ![s].step = step]
Over(s) == command' = [command EXCEPT ![s] = Idle]

\* RegisterTimedEvent: timedEventExists.  The master refuses an event that has a job, and
\* every event if its timer is out of service.
RegisterTimedEvent(s) ==
  /\ command[s].step = "register"
  /\ \/ jobs[command[s].event] = None /\ Goes(s, "add")
     \/ Over(s)
  /\ UNCHANGED <<catalog, jobs, commands, restarts>>

\* addTimedEvent.  A job that has come since is replaced; or the cron expression is not one, or
\* the scheduler refuses.
addTimedEvent(s) ==
  /\ command[s].step = "add"
  /\ LET e == command[s].event IN
       \/ /\ jobs' = [jobs EXCEPT ![e] = command[s].row.schedule]
          /\ Goes(s, "run")
       \/ Over(s) /\ UNCHANGED jobs
  /\ UNCHANGED <<catalog, commands, restarts>>

UnregisterTimedEvent(s) ==
  /\ command[s].step = "unregister"
  /\ \/ /\ jobs' = [jobs EXCEPT ![command[s].event] = None]
        /\ Goes(s, "run")
     \/ Over(s) /\ UNCHANGED jobs
  /\ UNCHANGED <<catalog, commands, restarts>>

\* The scheduler keeps its jobs in memory, and a master that takes over starts with none.
MasterRestarts ==
  /\ restarts < MaxRestarts
  /\ restarts' = restarts + 1
  /\ jobs' = [e \in Event |-> None]
  /\ UNCHANGED <<catalog, command, commands>>

-----------------------------------------------------------------------------
(* The command's run on the catalog: it reads the row ...                  *)

Refused(c) ==
  LET row == catalog[c.event] IN
  IF c.op = "create" THEN row # None
  ELSE row = None \/ (c.op \in {"schedule", "rename", "drop"} /\ row.enable)

\* The row to write.
Changed(c) ==
  LET row == catalog[c.event] IN
  CASE c.op = "create" -> c.row
    [] c.op = "schedule" -> [row EXCEPT !.schedule = c.row.schedule]
    [] c.op = "enable" -> [row EXCEPT !.enable = TRUE]
    [] c.op = "disable" -> [row EXCEPT !.enable = FALSE]
    [] c.op = "rename" -> row
    [] c.op = "drop" -> None

\* With IF NOT EXISTS the refusal of a creation counts as success: either way it is over.
run(s) ==
  /\ command[s].step = "run"
  /\ IF Refused(command[s]) THEN Over(s)
     ELSE command' = [command EXCEPT ![s].step = "write", ![s].row = Changed(command[s])]
  /\ UNCHANGED <<catalog, jobs, commands, restarts>>

\* ... and writes it, if the event is still there; a new name has to be free.  A second row of
\* a name changes nothing: the first is read and altered, a drop deletes both.
write(s) ==
  /\ command[s].step = "write"
  /\ LET c == command[s]
         there == catalog[c.event] # None
     IN  catalog' = IF (c.op = "create" <=> there) \/ (c.op = "rename" /\ catalog[c.to] # None)
                    THEN catalog
                    ELSE IF c.op = "rename"
                    THEN [catalog EXCEPT ![c.to] = catalog[c.event], ![c.event] = None]
                    ELSE [catalog EXCEPT ![c.event] = c.row]
  /\ Over(s)
  /\ UNCHANGED <<jobs, commands, restarts>>

-----------------------------------------------------------------------------

Takes(s, e) ==
  \/ \E row \in Row : createTimedEvent(s, e, row)
  \/ enableTimedEvent(s, e) \/ disableTimedEvent(s, e) \/ dropTimedEvent(s, e)
  \/ \E schedule \in Schedule : alterSchedule(s, e, schedule)
  \/ \E name \in Event : renameTimedEvent(s, e, name)

EventsNext ==
  \/ \E s \in Session :
       \/ \E e \in Event : Takes(s, e)
       \/ RegisterTimedEvent(s) \/ addTimedEvent(s) \/ UnregisterTimedEvent(s)
       \/ run(s) \/ write(s)
  \/ MasterRestarts

EventsSpec == EventsInit /\ [][EventsNext]_eventVars

-----------------------------------------------------------------------------

\* "Can't delete schedule of Event $name, while it is running.": what has been dropped is
\* not running.  When no command is under way, every job is the job of an event.
DroppedNotRunning ==
  (\A s \in Session : command[s] = Idle) => \A e \in Event : jobs[e] # None => catalog[e] # None
=============================================================================
