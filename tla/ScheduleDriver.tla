--------------------------- MODULE ScheduleDriver ---------------------------
(***************************************************************************)
(* ScheduleDriver (drivers/schedule_driver.cpp) and its ScheduleTracker: a *)
(* device that writes to other devices the values a daily schedule asks    *)
(* for.  In the mode "action" (SingleShot) every occurrence of an event is *)
(* to be written once, a dose of a pump say.  The tracker remembers, per   *)
(* channel, the time of the WEEK of the last write, in RAM and in a state  *)
(* file that every write replaces; a second file holds the schedule and is *)
(* rewritten by every boot.  Both are replaced by safeWriteToFile          *)
(* (utils/filesystem_utils.cpp): write a temporary file, remove the old    *)
(* one, rename; nobody reads the temporary file.                           *)
(*                                                                         *)
(* `now' is the local time since some Sunday, on a line that does not      *)
(* wrap; the code sees only now % Week.                                    *)
(***************************************************************************)
EXTENDS WeekSchedule

CONSTANTS
  Channels,   \* the channels with a name and a device
  Schedules,  \* the schedules a request may bring
  Modes,      \* ... and the transition modes; "hold" stands for "interpolate" too,
              \* which writes as often (for the values see Interpolation)
  MaxTime,    \* bound on now
  Absent      \* no such file

ASSUME ScheduleAssumption ==
  /\ Schedules \subseteq [Channels -> SUBSET TimesOfDay]
  /\ Modes \subseteq {"single shot", "hold"}
  /\ MaxTime \in Nat

\* What the state file can hold; `written' is no part of it but history, the
\* moments its times stand for.
StateFiles == [time : [Channels -> WeekTimes], written : [Channels -> Int]]

ASSUME AbsentAssumption ==
  /\ Absent \notin Schedules
  /\ Absent \notin StateFiles

VARIABLES
  now,
  configured,    \* the device table has the device
  mode,          \* ScheduleDriverData::type
  scheduleFile,
  stateFile,
  schedule,      \* in RAM: ScheduleDriver::schedule
  channelTime,   \* in RAM: ScheduleTracker::mChannelTimes
  pc,            \* what the driver is doing
  written,       \* history: the moment each channelTime stands for
  lastWrite,     \* history: the moment of a channel's last write
  forgot,        \* history: channels whose last write is on no file, lost or unread
  served,        \* history: the update at `now' had no failing write
  again          \* history: what the last update wrote a second time

files == <<scheduleFile, stateFile>>
ram   == <<mode, schedule, channelTime>>
hist  == <<lastWrite, forgot, served, again>>
vars  == <<now, configured, files, ram, pc, written, hist>>

Never   == -1
Nothing == [c \in Channels |-> Never]

Running == pc \in {"idle", "sync", "swap"}

\* The controller is up and its clock is set, no schedule was ever stored.
Init ==
  /\ now \in Slots .. Slots + Week - 1
  /\ configured = FALSE /\ mode \in Modes
  /\ scheduleFile = Absent /\ stateFile = Absent
  /\ schedule \in Schedules
  /\ channelTime = [c \in Channels |-> 0]
  /\ pc = "down"
  /\ written = Nothing /\ lastWrite = Nothing
  /\ forgot = {} /\ served = FALSE /\ again = {}

-----------------------------------------------------------------------------
\* The time of the week, as localtime tells it.
Today == now % Week

\* Mutant: times are compared as if weeks did not end.
AfterOnly(time, event, today) == time < event
\* SingleShotTracker: whether an event is later than a channel's last write,
\* where a time greater than today's is one of the last week.
IsDue(time, event, today) ==
  \/ (time > today) = (event > today) /\ time < event
  \/ time > today /\ ~ (event > today)

\* The channels that getCurrentChannelValues has a value for.
Due == {c \in Channels :
          /\ schedule[c] # {}
          /\ \/ mode = "hold"
             \/ IsDue(channelTime[c], CurrentEvent(schedule[c], Today), Today)}

\* setChannelTimes: clip a time to the event current at it.
Clip(c, time) ==
  IF schedule[c] = {} THEN 0 ELSE CurrentEvent(schedule[c], time)

\* readChannelTimes: what is not read stays zero.
StoredTime(c, unread) == IF c \in unread THEN 0 ELSE stateFile.time[c]

\* History: the moment a clipped time stands for.
StoredWritten(c, unread) ==
  IF c \in unread \/ schedule[c] = {} THEN Never
  ELSE IF stateFile.written[c] = Never THEN Never
  ELSE Occurrence(schedule[c], stateFile.written[c])

\* The state file tells which occurrence the channel wrote last.
Saved(c) ==
  \/ lastWrite[c] = Never
  \/ /\ stateFile # Absent /\ schedule[c] # {}
     /\ Occurrence(schedule[c], lastWrite[c]) <= stateFile.written[c]

\* The channels whose events another schedule moves.
Changed(other) == {c \in Channels : other[c] # schedule[c]}

\* What is in RAM only is gone.
ForgetRAM ==
  /\ channelTime' = [c \in Channels |-> 0]
  /\ written' = Nothing
  /\ forgot' = forgot \cup {c \in Channels : ~ Saved(c)}
  /\ served' = FALSE
  /\ UNCHANGED <<mode, schedule, lastWrite, again>>

-----------------------------------------------------------------------------
\* A request creates the device: its schedule is parsed and the temporary
\* schedule file written, the old one (a former device's) removed.  Where that
\* write fails the request does, and leaves everything as it was.  The times
\* in a former device's state file will be clipped to the new events and then
\* say nothing of the old ones.
Create ==
  /\ pc = "down" /\ ~ configured
  /\ schedule' \in Schedules /\ mode' \in Modes
  /\ scheduleFile' = Absent
  /\ stateFile' = IF stateFile = Absent THEN Absent
                  ELSE [stateFile EXCEPT !.written = [c \in Channels |->
                          IF c \in Changed(schedule') THEN Never ELSE @[c]]]
  /\ forgot' = forgot \cup Changed(schedule')
  /\ pc' = "write"
  /\ UNCHANGED <<now, configured, channelTime, written, lastWrite, served, again>>

\* Boot without the device or without its schedule file, or the temporary
\* file cannot be written: there is no driver until the next boot.
BootWithout ==
  /\ pc = "off"
  /\ pc' = "down"
  /\ UNCHANGED <<now, configured, files, ram, written, hist>>

\* Boot with the schedule file, which loadAndUpdateSchedule writes anew.
Boot ==
  /\ pc = "off" /\ configured /\ scheduleFile # Absent
  /\ schedule' = scheduleFile
  /\ scheduleFile' = Absent
  /\ pc' = "write"
  /\ UNCHANGED <<now, configured, stateFile, mode, channelTime, written, hist>>

\* Mutant: the result of safeWriteToFile is not looked at.
RunsAnyway == {"idle"}
\* What a failing rename makes of a creation or a boot.
AfterFailedRename == {"down"}

\* The schedule file is there again and the channel times are read; only now
\* the device enters the table.  `unread' are the channels whose times are not:
\* all of them when there is no state file or it cannot be opened, which counts
\* as read (-1), or those that a short file or a short read leaves out.
Start ==
  /\ pc = "write"
  /\ scheduleFile' = schedule
  /\ \E unread \in SUBSET Channels :
       /\ stateFile = Absent => unread = Channels
       /\ channelTime' = [c \in Channels |-> Clip(c, StoredTime(c, unread))]
       /\ written' = [c \in Channels |-> StoredWritten(c, unread)]
       /\ forgot' = forgot \cup {c \in unread : lastWrite[c] # Never}
  /\ configured' = TRUE
  /\ pc' = "idle"
  /\ UNCHANGED <<now, stateFile, mode, schedule, lastWrite, served, again>>

\* Only where not one byte is read there is no driver, now that the schedule
\* file is written.
NothingRead ==
  /\ pc = "write" /\ stateFile # Absent
  /\ scheduleFile' = schedule
  /\ pc' = "down"
  /\ UNCHANGED <<now, configured, stateFile, ram, written, hist>>

StartFails ==
  /\ pc = "write"
  /\ pc' \in AfterFailedRename
  /\ UNCHANGED <<now, configured, files, ram, written, hist>>

-----------------------------------------------------------------------------
\* Mutant: the channel keeps its time after a write.
KeepTime(c, done) == channelTime[c]
\* updateChannelTime for the channels that were written.
NewTime(c, done) == IF c \in done THEN Today ELSE channelTime[c]

\* updateValues, at one reading of the clock: every channel that is due is
\* written, `done' are those whose device accepts the value.
Update ==
  /\ pc = "idle"
  /\ \E done \in SUBSET Due :
       /\ channelTime' = [c \in Channels |-> NewTime(c, done)]
       /\ written' = [c \in Channels |-> IF c \in done THEN now ELSE written[c]]
       /\ lastWrite' = [c \in Channels |->
                          IF c \in done THEN now ELSE lastWrite[c]]
       /\ again' = {c \in done : /\ mode = "single shot" /\ c \notin forgot
                                 /\ Occurrence(schedule[c], now) <= lastWrite[c]}
       /\ forgot' = forgot \ done
       /\ served' = (done = Due)
       /\ pc' = IF done = {} THEN "idle" ELSE "sync"
  /\ UNCHANGED <<now, configured, files, mode, schedule>>

\* synchronizeChannelTimesToFile: the temporary file cannot be written ...
SyncFails ==
  /\ pc = "sync"
  /\ pc' = "idle"
  /\ UNCHANGED <<now, configured, files, ram, written, hist>>

\* ... or it is, and the old file is removed.
SyncRemove ==
  /\ pc = "sync"
  /\ stateFile' = Absent
  /\ pc' = "swap"
  /\ UNCHANGED <<now, configured, scheduleFile, ram, written, hist>>

SyncRename ==
  /\ pc = "swap"
  /\ stateFile' = [time |-> channelTime, written |-> written]
  /\ pc' = "idle"
  /\ UNCHANGED <<now, configured, scheduleFile, ram, written, hist>>

SyncRenameFails ==
  /\ pc = "swap"
  /\ pc' = "idle"
  /\ UNCHANGED <<now, configured, files, ram, written, hist>>

-----------------------------------------------------------------------------
\* The device is removed; its two files stay.
Remove ==
  /\ pc = "idle"
  /\ configured' = FALSE
  /\ pc' = "down"
  /\ ForgetRAM
  /\ UNCHANGED <<now, files>>

PowerFail ==
  /\ pc # "off"
  /\ pc' = "off"
  /\ ForgetRAM
  /\ UNCHANGED <<now, configured, files>>

\* Time goes on, whatever the driver does: an update may come late.
Tick ==
  /\ now < MaxTime
  /\ now' = now + 1
  /\ served' = FALSE
  /\ UNCHANGED <<configured, files, ram, pc, written, lastWrite, forgot, again>>

\* The end of summer time, or a correction by the time server: no step of the
\* specification proper, see SpecAnyClock.
SetClockBack ==
  /\ now > Slots
  /\ now' = now - 1
  /\ served' = FALSE
  /\ UNCHANGED <<configured, files, ram, pc, written, lastWrite, forgot, again>>

Next ==
  \/ Create \/ BootWithout \/ Boot \/ Start \/ NothingRead \/ StartFails
  \/ Update \/ SyncFails \/ SyncRemove \/ SyncRename \/ SyncRenameFails
  \/ Remove \/ PowerFail \/ Tick

Spec == Init /\ [][Next]_vars

\* The same program where local time may also go back.
NextAnyClock == Next \/ SetClockBack
SpecAnyClock == Init /\ [][NextAnyClock]_vars

-----------------------------------------------------------------------------

\* Types: above all, every time a tracker holds or stores is one of the week.
TypeOK ==
  /\ now \in Nat
  /\ configured \in BOOLEAN
  /\ mode \in Modes
  /\ scheduleFile \in Schedules \cup {Absent}
  /\ stateFile \in StateFiles \cup {Absent}
  /\ schedule \in Schedules
  /\ channelTime \in [Channels -> WeekTimes]
  /\ pc \in {"off", "down", "write", "idle", "sync", "swap"}
  /\ written \in [Channels -> Int]
  /\ lastWrite \in [Channels -> Nat \cup {Never}]
  /\ forgot \in SUBSET Channels
  /\ served \in BOOLEAN
  /\ again \in SUBSET Channels

\* A driver runs only with its schedule on file: no failing step of
\* loadAndUpdateSchedule leaves a driver that the next boot could not build
\* again.
RunningIsStored == Running => configured /\ scheduleFile = schedule

\* SingleShot: an occurrence of an event is written to a channel's device at
\* most once, however late updates come and whatever restarts, creations and
\* failing writes lie between, unless the record of the write was lost with
\* the power or not read when the driver was made, or the schedule was
\* replaced.  The code knows only times of the week.
OncePerOccurrence == again = {}

\* And none is skipped: after an update without a failing write, the event in
\* effect occurred no later than the last write the driver remembers of the
\* channel, unless that is a week ago.
NoneSkipped ==
  served => \A c \in Channels :
    schedule[c] # {} /\ written[c] # Never /\ now - written[c] < Week
      => Occurrence(schedule[c], now) <= written[c]
=============================================================================
