------------------------ MODULE ScheduleDriverProofs ------------------------
(***************************************************************************)
(* The tracker's times of the week stand for moments of the history: with  *)
(* that, what it compares modulo a week is what the properties compare on  *)
(* the line of time.                                                       *)
(***************************************************************************)
EXTENDS ScheduleDriver, WeekScheduleProofs

LEMMA WeekIs == Week \in Nat \ {0} /\ Slots \in Nat \ {0} /\ Slots <= Week
<1>1. Week = Slots * Days
  BY WeekAssumption DEF Week
<1>2. Slots * Days >= Slots
  <2>1. Slots * Days >= Slots * 0 + Slots
    BY WeekAssumption, Multiples
  <2> QED BY <2>1, WeekAssumption
<1>3. Slots * Days \in Nat
  BY WeekAssumption
<1> QED BY <1>1, <1>2, <1>3, WeekAssumption

\* The comparison of the tracker is right when the last write is less than a
\* week ago.
LEMMA DueIffLater ==
  ASSUME NEW last \in Int, NEW event \in Int, NEW moment \in Int,
         last <= moment, moment - last < Week,
         event <= moment, moment - Slots < event
  PROVE  IsDue(last % Week, event % Week, moment % Week) <=> last < event
<1> DEFINE c == last % Week
           e == event % Week
           n == moment % Week
<1>1. c \in 0 .. Week - 1 /\ e \in 0 .. Week - 1 /\ n \in 0 .. Week - 1
  BY WeekIs, Division
<1>2. n - c = moment - last \/ n - c = moment - last - Week
  BY WeekIs, Remainders
<1>3. n - e = moment - event \/ n - e = moment - event - Week
  <2>1. moment - event < Week
    BY WeekIs
  <2> QED BY WeekIs, <2>1, Remainders
<1> HIDE DEF c, e, n
<1>4. c > n <=> n - c = moment - last - Week
  BY <1>1, <1>2, WeekIs
<1>5. e > n <=> n - e = moment - event - Week
  BY <1>1, <1>3, WeekIs
<1>6. IsDue(c, e, n) <=> last < event
  <2>1. CASE c > n /\ e > n
    <3>1. c - e = last - event
      BY <1>1, <1>4, <1>5, <2>1, WeekIs
    <3>2. IsDue(c, e, n) <=> c < e
      BY <2>1 DEF IsDue
    <3> QED BY <1>1, <3>1, <3>2
  <2>2. CASE ~ (c > n) /\ ~ (e > n)
    <3>1. c - e = last - event
      BY <1>1, <1>2, <1>3, <1>4, <1>5, <2>2, WeekIs
    <3>2. IsDue(c, e, n) <=> c < e
      BY <2>2 DEF IsDue
    <3> QED BY <1>1, <3>1, <3>2
  <2>3. CASE c > n /\ ~ (e > n)
    <3>1. last < event
      BY <1>1, <1>3, <1>4, <1>5, <2>3, WeekIs
    <3> QED BY <2>3, <3>1 DEF IsDue
  <2>4. CASE ~ (c > n) /\ e > n
    <3>1. ~ (last < event)
      BY <1>1, <1>2, <1>4, <1>5, <2>4, WeekIs
    <3> QED BY <2>4, <3>1 DEF IsDue
  <2> QED BY <2>1, <2>2, <2>3, <2>4
<1> QED BY <1>6 DEF c, e, n

\* The search at a time of the week gives a time of the week.
LEMMA CurrentIsTime ==
  ASSUME NEW events \in SUBSET TimesOfDay, events # {}, NEW time \in WeekTimes
  PROVE  CurrentEvent(events, time) \in WeekTimes
<1>1. time \in Int /\ time \in 0 .. Week - 1 /\ time = Week * 0 + time
  BY WeekIs DEF WeekTimes
<1>2. time % Week = time
  BY ONLY <1>1, WeekIs, DivisionUnique
<1>3. CurrentEvent(events, time % Week) \in WeekTimes
  BY <1>1, CurrentIsOccurrence
<1> QED BY <1>2, <1>3

LEMMA EventsOf ==
  ASSUME NEW s \in Schedules, NEW c \in Channels
  PROVE  s[c] \in SUBSET TimesOfDay
  BY ScheduleAssumption

LEMMA TodayIs == ASSUME now \in Nat PROVE Today \in WeekTimes
  BY WeekIs, Division DEF Today, WeekTimes

-----------------------------------------------------------------------------
LEMMA TypeInit == Init => TypeOK
<1> SUFFICES ASSUME Init PROVE TypeOK
  OBVIOUS
<1>1. now \in Nat /\ 0 \in WeekTimes
  BY WeekIs DEF Init, WeekTimes
<1>2. /\ channelTime \in [Channels -> WeekTimes]
      /\ written \in [Channels -> Int]
      /\ lastWrite \in [Channels -> Nat \cup {Never}]
  BY <1>1 DEF Init, Nothing, Never
<1> QED BY <1>1, <1>2 DEF Init, TypeOK

LEMMA ForgetTypes ==
  ASSUME TypeOK, ForgetRAM
  PROVE  /\ mode' \in Modes /\ schedule' \in Schedules
         /\ channelTime' \in [Channels -> WeekTimes]
         /\ written' \in [Channels -> Int]
         /\ lastWrite' \in [Channels -> Nat \cup {Never}]
         /\ forgot' \in SUBSET Channels /\ served' \in BOOLEAN
         /\ again' \in SUBSET Channels
<1>1. 0 \in WeekTimes
  BY WeekIs DEF WeekTimes
<1>2. channelTime' \in [Channels -> WeekTimes] /\ written' \in [Channels -> Int]
  BY <1>1 DEF ForgetRAM, Nothing, Never
<1>3. {c \in Channels : ~ Saved(c)} \in SUBSET Channels
  OBVIOUS
<1>4. forgot' \in SUBSET Channels
  BY <1>3 DEF ForgetRAM, TypeOK
<1> QED BY <1>2, <1>4 DEF TypeOK, ForgetRAM

LEMMA OccurrenceType ==
  ASSUME NEW s \in Schedules, NEW c \in Channels, s[c] # {}, NEW t \in Int
  PROVE  Occurrence(s[c], t) \in Int
<1>1. s[c] \in SUBSET TimesOfDay
  BY EventsOf
<1> QED BY <1>1, OccurrenceIs

LEMMA TypeNext == TypeOK /\ [NextAnyClock]_vars => TypeOK'
<1> SUFFICES ASSUME TypeOK, [NextAnyClock]_vars PROVE TypeOK'
  OBVIOUS
<1>1. CASE Create
  <2>1. stateFile' \in StateFiles \cup {Absent}
    <3>1. CASE stateFile = Absent
      BY <1>1, <3>1 DEF Create
    <3>2. CASE stateFile # Absent
      <4>1. stateFile \in StateFiles
        BY <3>2 DEF TypeOK
      <4>2. /\ stateFile' = [stateFile EXCEPT !.written = stateFile'.written]
            /\ stateFile'.written \in [Channels -> Int]
        BY <1>1, <3>2, <4>1 DEF Create, StateFiles, Never
      <4> QED BY <4>1, <4>2 DEF StateFiles
    <3> QED BY <3>1, <3>2
  <2>2. forgot' \in SUBSET Channels
    BY <1>1 DEF Create, Changed, TypeOK
  <2> QED BY <1>1, <2>1, <2>2 DEF Create, TypeOK
<1>2. CASE BootWithout
  BY <1>2 DEF BootWithout, TypeOK, files, ram, hist
<1>3. CASE Boot
  BY <1>3 DEF Boot, TypeOK, hist
<1>4. CASE Start
  <2> PICK unread \in SUBSET Channels :
        /\ stateFile = Absent => unread = Channels
        /\ channelTime' = [c \in Channels |-> Clip(c, StoredTime(c, unread))]
        /\ written' = [c \in Channels |-> StoredWritten(c, unread)]
        /\ forgot' = forgot \cup {c \in unread : lastWrite[c] # Never}
    BY <1>4 DEF Start
  <2>1. ASSUME NEW c \in Channels PROVE Clip(c, StoredTime(c, unread)) \in WeekTimes
    <3>1. StoredTime(c, unread) \in WeekTimes
      BY WeekIs DEF StoredTime, TypeOK, StateFiles, WeekTimes
    <3>2. 0 \in WeekTimes
      BY WeekIs DEF WeekTimes
    <3>3. schedule[c] \in SUBSET TimesOfDay
      BY EventsOf DEF TypeOK
    <3>4. schedule[c] # {} =>
            CurrentEvent(schedule[c], StoredTime(c, unread)) \in WeekTimes
      BY <3>1, <3>3, CurrentIsTime
    <3> QED BY <3>2, <3>4 DEF Clip
  <2>2. ASSUME NEW c \in Channels PROVE StoredWritten(c, unread) \in Int
    <3>1. stateFile # Absent => stateFile.written[c] \in Int
      BY DEF TypeOK, StateFiles
    <3>2. stateFile # Absent /\ schedule[c] # {} =>
            Occurrence(schedule[c], stateFile.written[c]) \in Int
      BY <3>1, OccurrenceType DEF TypeOK
    <3> QED BY <3>1, <3>2 DEF StoredWritten, Never
  <2>3. forgot' \in SUBSET Channels
    BY DEF TypeOK
  <2> QED BY <1>4, <2>1, <2>2, <2>3 DEF Start, TypeOK
<1>5. CASE StartFails
  BY <1>5 DEF StartFails, AfterFailedRename, TypeOK, files, ram, hist
<1>6. CASE Update
  <2>1. PICK done \in SUBSET Due :
          /\ channelTime' = [c \in Channels |-> NewTime(c, done)]
          /\ written' = [c \in Channels |-> IF c \in done THEN now ELSE written[c]]
          /\ lastWrite' = [c \in Channels |->
                             IF c \in done THEN now ELSE lastWrite[c]]
          /\ again' \subseteq done
          /\ forgot' = forgot \ done
          /\ served' = (done = Due)
          /\ pc' = IF done = {} THEN "idle" ELSE "sync"
    BY <1>6 DEF Update
  <2>2. done \subseteq Channels
    BY DEF Due
  <2>3. channelTime' \in [Channels -> WeekTimes]
    BY <2>1, TodayIs DEF NewTime, TypeOK
  <2>4. written' \in [Channels -> Int] /\ lastWrite' \in [Channels -> Nat \cup {Never}]
    BY <2>1 DEF TypeOK
  <2>5. served' \in BOOLEAN /\ again' \in SUBSET Channels /\ forgot' \in SUBSET Channels
    BY <2>1, <2>2 DEF TypeOK
  <2> QED BY <1>6, <2>1, <2>3, <2>4, <2>5 DEF Update, TypeOK, files
<1>7. CASE SyncFails
  BY <1>7 DEF SyncFails, TypeOK, files, ram, hist
<1>8. CASE SyncRemove
  BY <1>8 DEF SyncRemove, TypeOK, ram, hist
<1>9. CASE SyncRename
  <2>1. stateFile' \in StateFiles
    BY <1>9 DEF SyncRename, TypeOK, StateFiles
  <2> QED BY <1>9, <2>1 DEF SyncRename, TypeOK, ram, hist
<1>10. CASE SyncRenameFails
  BY <1>10 DEF SyncRenameFails, TypeOK, files, ram, hist
<1>11. CASE Remove
  BY <1>11, ForgetTypes DEF Remove, TypeOK, files
<1>12. CASE PowerFail
  BY <1>12, ForgetTypes DEF PowerFail, TypeOK, files
<1>13. CASE Tick
  <2>1. now' \in Nat
    BY <1>13 DEF Tick, TypeOK
  <2> QED BY <1>13, <2>1 DEF Tick, TypeOK, files, ram
<1>14. CASE SetClockBack
  <2>1. now - 1 \in Nat
    BY <1>14, WeekIs DEF SetClockBack, TypeOK
  <2> QED BY <1>14, <2>1 DEF SetClockBack, TypeOK, files, ram
<1>15. CASE NothingRead
  BY <1>15 DEF NothingRead, TypeOK, ram, hist
<1>16. CASE UNCHANGED vars
  BY <1>16 DEF vars, TypeOK, files, ram, hist
<1> QED BY <1>1, <1>2, <1>3, <1>4, <1>5, <1>6, <1>7, <1>8, <1>9, <1>10, <1>11,
           <1>12, <1>13, <1>14, <1>15, <1>16 DEF Next, NextAnyClock

\* Every time the tracker holds or stores is a time of the week, for every
\* length of day and week and every set of schedules, whatever the clock does.
THEOREM TypeCorrect == SpecAnyClock => []TypeOK
<1> QED BY TypeInit, TypeNext, PTL DEF SpecAnyClock

-----------------------------------------------------------------------------
\* The invariant.  Records of writes are of the past, in their order ...
Past ==
  /\ Slots <= now
  /\ \A c \in Channels :
       /\ lastWrite[c] # Never => Slots <= lastWrite[c] /\ lastWrite[c] <= now
       /\ written[c] # Never => lastWrite[c] # Never /\ written[c] <= lastWrite[c]
       /\ stateFile # Absent /\ stateFile.written[c] # Never
            => lastWrite[c] # Never /\ stateFile.written[c] <= lastWrite[c]

\* ... the times are those moments in their weeks ...
Stands ==
  \A c \in Channels :
    /\ Running /\ written[c] # Never => channelTime[c] = written[c] % Week
    /\ stateFile # Absent /\ stateFile.written[c] # Never
         => stateFile.time[c] = stateFile.written[c] % Week

\* ... and the driver, or while there is none the file, knows the occurrence
\* each channel wrote last, but for the channels in forgot.
Remembers(c) == /\ schedule[c] # {} /\ written[c] # Never
                /\ Occurrence(schedule[c], lastWrite[c]) <= written[c]

Kept ==
  /\ scheduleFile # Absent => scheduleFile = schedule
  /\ ~ Running => ~ served
  /\ \A c \in Channels \ forgot :
       /\ ~ Running => Saved(c)
       /\ Running /\ lastWrite[c] # Never => Remembers(c)

Rest == RunningIsStored /\ Past /\ Stands /\ Kept /\ OncePerOccurrence /\ NoneSkipped
IInv == TypeOK /\ Rest

LEMMA InitRest == Init => Rest
<1> SUFFICES ASSUME Init PROVE Rest
  OBVIOUS
<1>1. ~ Running /\ \A c \in Channels : lastWrite[c] = Never /\ written[c] = Never
  BY DEF Init, Running, Nothing
<1>2. Slots <= now
  BY WeekIs DEF Init
<1> QED BY <1>1, <1>2 DEF Init, Rest, RunningIsStored, Past, Stands, Kept, Saved,
           OncePerOccurrence, NoneSkipped

\* A step of the driver that touches nothing else.
LEMMA Quiet ==
  ASSUME Rest, Running' <=> Running,
         UNCHANGED <<now, configured, files, ram, written, hist>>
  PROVE  Rest'
<1> USE DEF files, ram, hist
<1>1. RunningIsStored' /\ Past' /\ Stands'
  BY DEF Rest, RunningIsStored, Past, Stands
<1>2. \A c \in Channels : (Saved(c)' <=> Saved(c)) /\ (Remembers(c)' <=> Remembers(c))
  BY DEF Saved, Remembers
<1>3. Kept'
  BY <1>2 DEF Rest, Kept
<1>4. OncePerOccurrence' /\ NoneSkipped'
  BY DEF Rest, OncePerOccurrence, NoneSkipped
<1> QED BY <1>1, <1>3, <1>4 DEF Rest

\* Of a channel the driver has a recent record of, it is due exactly when
\* something occurred after that record.
LEMMA DueIs ==
  ASSUME TypeOK, Rest, Running, NEW c \in Channels, mode # "hold",
         schedule[c] # {}, written[c] # Never, now - written[c] < Week
  PROVE  c \in Due <=> written[c] < Occurrence(schedule[c], now)
<1> DEFINE o == Occurrence(schedule[c], now)
<1>1. schedule[c] \in SUBSET TimesOfDay /\ now \in Int /\ written[c] \in Int
  BY EventsOf DEF TypeOK
<1>2. o \in Int /\ o <= now /\ now - Slots < o
  BY <1>1, OccurrenceIs
<1>3. CurrentEvent(schedule[c], Today) = o % Week
  BY <1>1, CurrentIsOccurrence DEF Today
<1>4. channelTime[c] = written[c] % Week
  BY DEF Rest, Stands
<1>5. written[c] <= now
  <2>1. written[c] <= lastWrite[c] /\ lastWrite[c] <= now /\ lastWrite[c] \in Int
    BY DEF Rest, Past, TypeOK, Never
  <2> QED BY <1>1, <2>1
<1> HIDE DEF o
<1>6. IsDue(written[c] % Week, o % Week, now % Week) <=> written[c] < o
  BY <1>1, <1>2, <1>5, DueIffLater
<1>7. c \in Due <=> IsDue(channelTime[c], CurrentEvent(schedule[c], Today), Today)
  BY DEF Due
<1> QED BY <1>3, <1>4, <1>6, <1>7 DEF o, Today

\* So an occurrence is not written again ...
LEMMA NotAgain ==
  ASSUME TypeOK, Rest, Running, NEW c \in Due, mode # "hold", c \notin forgot,
         Occurrence(schedule[c], now) <= lastWrite[c]
  PROVE  FALSE
<1> DEFINE o == Occurrence(schedule[c], now)
<1>1. c \in Channels /\ schedule[c] # {}
  BY DEF Due
<1>2. /\ schedule[c] \in SUBSET TimesOfDay /\ now \in Int /\ written[c] \in Int
      /\ lastWrite[c] \in Int
  BY <1>1, EventsOf DEF TypeOK, Never
<1>3. o \in Int /\ o <= now /\ now - Slots < o /\ Slots <= now
  BY <1>1, <1>2, OccurrenceIs DEF Rest, Past
<1>4. lastWrite[c] # Never
  BY <1>2, <1>3, WeekIs DEF Never
<1>5. lastWrite[c] <= now
  BY <1>1, <1>4 DEF Rest, Past
<1>6. Occurrence(schedule[c], lastWrite[c]) = o
  BY <1>1, <1>2, <1>5, OccurrenceStays
<1>7. written[c] # Never /\ o <= written[c]
  BY <1>1, <1>4, <1>6 DEF Rest, Kept, Remembers
<1>8. now - written[c] < Week
  <2> HIDE DEF o
  <2> QED BY <1>2, <1>3, <1>7, WeekIs
<1>9. written[c] < o
  BY <1>1, <1>7, <1>8, DueIs
<1> HIDE DEF o
<1> QED BY <1>2, <1>3, <1>7, <1>9

\* ... and none is skipped.
LEMMA NotSkipped ==
  ASSUME TypeOK, Rest, Running, NEW c \in Channels, c \notin Due,
         schedule[c] # {}, written[c] # Never, now - written[c] < Week
  PROVE  Occurrence(schedule[c], now) <= written[c]
<1>1. mode # "hold"
  BY DEF Due
<1>2. ~ (written[c] < Occurrence(schedule[c], now))
  BY <1>1, DueIs
<1>3. written[c] \in Int /\ Occurrence(schedule[c], now) \in Int
  BY OccurrenceType DEF TypeOK
<1> QED BY <1>2, <1>3

\* What remains when the RAM is lost: Forgotten channels apart, the file.
LEMMA ForgetRest ==
  ASSUME TypeOK, Rest, ForgetRAM, ~ Running', UNCHANGED <<now, files>>
  PROVE  Rest'
<1> USE DEF files
<1>1. Past'
  BY DEF Past, Rest, ForgetRAM, Nothing
<1>2. Stands' /\ RunningIsStored'
  BY DEF Stands, Rest, ForgetRAM, RunningIsStored
<1>3. \A c \in Channels : Saved(c)' <=> Saved(c)
  BY DEF Saved, ForgetRAM
<1>4. \A c \in Channels \ forgot' : Saved(c)
  BY DEF ForgetRAM
<1>5. Kept'
  BY <1>3, <1>4 DEF Kept, Rest, ForgetRAM
<1>6. OncePerOccurrence' /\ NoneSkipped'
  BY DEF Rest, OncePerOccurrence, NoneSkipped, ForgetRAM
<1> QED BY <1>1, <1>2, <1>5, <1>6 DEF Rest

LEMMA CreateRest == ASSUME TypeOK, Rest, Create PROVE Rest'
<1>1. ~ Running /\ ~ Running' /\ UNCHANGED <<now, lastWrite, written, served, again>>
  BY DEF Create, Running
<1>2. /\ (stateFile = Absent) <=> (stateFile' = Absent)
      /\ stateFile # Absent =>
           /\ stateFile'.time = stateFile.time
           /\ \A c \in Channels :
                stateFile'.written[c] = IF c \in Changed(schedule')
                                        THEN Never ELSE stateFile.written[c]
  <2>1. CASE stateFile = Absent
    BY <2>1 DEF Create
  <2>2. CASE stateFile # Absent
    <3>1. stateFile \in StateFiles
      BY <2>2 DEF TypeOK
    <3>2. stateFile' \in StateFiles
      BY <2>2, <3>1 DEF Create, StateFiles, Never
    <3>3. stateFile' # Absent
      BY <3>2, AbsentAssumption
    <3> QED BY <2>2, <3>1, <3>3 DEF Create, StateFiles
  <2> QED BY <2>1, <2>2
<1>3. Past' /\ Stands' /\ RunningIsStored'
  BY <1>1, <1>2 DEF Past, Stands, RunningIsStored, Rest
<1>4. ASSUME NEW c \in Channels, c \notin forgot' PROVE Saved(c)'
  <2>1. c \notin forgot /\ schedule'[c] = schedule[c] /\ c \notin Changed(schedule')
    BY <1>4 DEF Create, Changed
  <2>2. Saved(c)
    BY <1>1, <2>1 DEF Rest, Kept
  <2> QED BY <1>1, <1>2, <2>1, <2>2 DEF Saved
<1>5. Kept'
  BY <1>1, <1>4 DEF Kept, Rest, Create
<1>6. OncePerOccurrence' /\ NoneSkipped'
  BY <1>1 DEF Rest, Kept, OncePerOccurrence, NoneSkipped
<1> QED BY <1>3, <1>5, <1>6 DEF Rest

LEMMA BootRest == ASSUME TypeOK, Rest, Boot PROVE Rest'
<1> USE DEF hist
<1>1. schedule' = schedule
  BY DEF Boot, Rest, Kept
<1>2. ~ Running /\ ~ Running'
  BY DEF Boot, Running
<1>3. Past' /\ Stands' /\ RunningIsStored'
  BY <1>2 DEF Past, Stands, RunningIsStored, Rest, Boot
<1>4. \A c \in Channels : Saved(c)' <=> Saved(c)
  BY <1>1 DEF Saved, Boot
<1>5. Kept'
  BY <1>2, <1>4 DEF Kept, Rest, Boot
<1>6. OncePerOccurrence' /\ NoneSkipped'
  BY <1>2 DEF Rest, Kept, OncePerOccurrence, NoneSkipped, Boot
<1> QED BY <1>3, <1>5, <1>6 DEF Rest

LEMMA NothingReadRest == ASSUME TypeOK, Rest, NothingRead PROVE Rest'
<1> USE DEF ram, hist
<1>1. ~ Running /\ ~ Running'
  BY DEF NothingRead, Running
<1>2. Past' /\ Stands' /\ RunningIsStored'
  BY <1>1 DEF Past, Stands, RunningIsStored, Rest, NothingRead
<1>3. \A c \in Channels : Saved(c)' <=> Saved(c)
  BY DEF Saved, NothingRead
<1>4. Kept'
  BY <1>1, <1>3 DEF Kept, Rest, NothingRead
<1>5. OncePerOccurrence' /\ NoneSkipped'
  BY <1>1 DEF Rest, Kept, OncePerOccurrence, NoneSkipped, NothingRead
<1> QED BY <1>2, <1>4, <1>5 DEF Rest

\* Reading the times: clipping moves a moment to its occurrence.
LEMMA StartRest == ASSUME TypeOK, Rest, Start PROVE Rest'
<1>1. ~ Running /\ Running' /\ ~ served
  BY DEF Start, Running, Rest, Kept
<1> PICK unread \in SUBSET Channels :
      /\ stateFile = Absent => unread = Channels
      /\ channelTime' = [c \in Channels |-> Clip(c, StoredTime(c, unread))]
      /\ written' = [c \in Channels |-> StoredWritten(c, unread)]
      /\ forgot' = forgot \cup {c \in unread : lastWrite[c] # Never}
  BY DEF Start
<1>2. ASSUME NEW c \in Channels, written'[c] # Never
      PROVE  /\ stateFile # Absent /\ schedule[c] # {} /\ c \notin unread
             /\ stateFile.written[c] # Never /\ stateFile.written[c] \in Int
             /\ written'[c] = Occurrence(schedule[c], stateFile.written[c])
             /\ written'[c] \in Int /\ written'[c] <= stateFile.written[c]
  <2>1. written'[c] = StoredWritten(c, unread)
    OBVIOUS
  <2>2. /\ stateFile # Absent /\ schedule[c] # {} /\ stateFile.written[c] # Never
        /\ c \notin unread
        /\ written'[c] = Occurrence(schedule[c], stateFile.written[c])
    BY <1>2, <2>1 DEF StoredWritten
  <2>3. stateFile.written[c] \in Int /\ schedule[c] \in SUBSET TimesOfDay
    BY <2>2, EventsOf DEF TypeOK, StateFiles
  <2>4. /\ Occurrence(schedule[c], stateFile.written[c]) \in Int
        /\ Occurrence(schedule[c], stateFile.written[c]) <= stateFile.written[c]
    BY <2>2, <2>3, OccurrenceIs
  <2> QED BY <2>2, <2>3, <2>4
<1>3. Past'
  <2>1. ASSUME NEW c \in Channels, written'[c] # Never
        PROVE  lastWrite[c] # Never /\ written'[c] <= lastWrite[c]
    <3>1. lastWrite[c] # Never /\ stateFile.written[c] <= lastWrite[c]
      BY <1>2, <2>1 DEF Rest, Past
    <3>2. lastWrite[c] \in Int
      BY DEF TypeOK, Never
    <3> QED BY <1>2, <2>1, <3>1, <3>2
  <2> QED BY <2>1 DEF Past, Rest, Start
<1>4. Stands'
  <2>1. ASSUME NEW c \in Channels, written'[c] # Never
        PROVE  channelTime'[c] = written'[c] % Week
    <3>1. channelTime'[c] = CurrentEvent(schedule[c], stateFile.time[c])
      BY <1>2, <2>1 DEF Clip, StoredTime
    <3>2. stateFile.time[c] = stateFile.written[c] % Week
      BY <1>2, <2>1 DEF Rest, Stands
    <3>3. schedule[c] \in SUBSET TimesOfDay
      BY EventsOf DEF TypeOK
    <3> QED BY <1>2, <2>1, <3>1, <3>2, <3>3, CurrentIsOccurrence
  <2> QED BY <2>1 DEF Stands, Rest, Start
<1>5. RunningIsStored'
  BY DEF RunningIsStored, Start
<1>6. ASSUME NEW c \in Channels \ forgot', lastWrite[c] # Never
      PROVE  Remembers(c)'
  <2>0. c \notin forgot /\ c \notin unread
    BY <1>6
  <2> DEFINE o == Occurrence(schedule[c], lastWrite[c])
             w == stateFile.written[c]
  <2>1. stateFile # Absent /\ schedule[c] # {} /\ o <= w
    BY <1>1, <1>6, <2>0 DEF Rest, Kept, Saved
  <2>2. schedule[c] \in SUBSET TimesOfDay /\ lastWrite[c] \in Int /\ w \in Int
    BY <2>1, EventsOf DEF TypeOK, StateFiles, Never
  <2>3. o \in Int /\ lastWrite[c] - Slots < o /\ o <= lastWrite[c] /\ Slots <= lastWrite[c]
    BY <1>6, <2>1, <2>2, OccurrenceIs DEF Rest, Past
  <2>4. o <= Occurrence(schedule[c], w)
    <3>1. Occurrence(schedule[c], o) = o
      BY <2>1, <2>2, OccurrenceIdempotent
    <3>2. Occurrence(schedule[c], o) <= Occurrence(schedule[c], w)
      BY <2>1, <2>2, <2>3, OccurrenceMonotone
    <3> QED BY <3>1, <3>2
  <2>5. Occurrence(schedule[c], w) \in Int
    BY <2>1, <2>2, OccurrenceIs
  <2>6. w # Never
    <3> HIDE DEF o, w
    <3> QED BY <2>1, <2>2, <2>3, WeekIs DEF Never
  <2>7. written'[c] = Occurrence(schedule[c], w)
    BY <2>0, <2>1, <2>6 DEF StoredWritten
  <2>8. Occurrence(schedule[c], w) # Never
    <3> DEFINE v == Occurrence(schedule[c], w)
    <3>1. o <= v /\ v \in Int
      BY <2>4, <2>5
    <3> HIDE DEF o, v
    <3>2. v # Never
      BY <2>2, <2>3, <3>1, WeekIs DEF Never
    <3> QED BY <3>2 DEF v
  <2>9. schedule' = schedule /\ lastWrite' = lastWrite
    BY DEF Start
  <2> QED BY <2>1, <2>4, <2>7, <2>8, <2>9 DEF Remembers
<1>7. Kept'
  BY <1>1, <1>6 DEF Kept, Start
<1>8. OncePerOccurrence' /\ NoneSkipped'
  BY <1>1 DEF Rest, OncePerOccurrence, NoneSkipped, Start
<1> QED BY <1>3, <1>4, <1>5, <1>7, <1>8 DEF Rest

LEMMA UpdateRest == ASSUME TypeOK, Rest, Update PROVE Rest'
<1> USE DEF files
<1>1. PICK done \in SUBSET Due :
        /\ channelTime' = [c \in Channels |-> NewTime(c, done)]
        /\ written' = [c \in Channels |-> IF c \in done THEN now ELSE written[c]]
        /\ lastWrite' = [c \in Channels |->
                           IF c \in done THEN now ELSE lastWrite[c]]
        /\ again' = {c \in done : /\ mode = "single shot" /\ c \notin forgot
                                  /\ Occurrence(schedule[c], now) <= lastWrite[c]}
        /\ forgot' = forgot \ done
        /\ served' = (done = Due)
        /\ pc' = IF done = {} THEN "idle" ELSE "sync"
  BY DEF Update
<1>2. /\ Running /\ Running'
      /\ UNCHANGED <<now, configured, scheduleFile, stateFile, mode, schedule>>
  BY <1>1 DEF Update, Running
<1>3. \A c \in done : c \in Channels /\ schedule[c] # {}
  BY DEF Due
<1>4. /\ now \in Nat /\ Slots <= now /\ now # Never
      /\ \A c \in Channels : written[c] \in Int /\ lastWrite[c] \in Int
  BY WeekIs DEF TypeOK, Rest, Past, Never
<1>5. ASSUME NEW c \in Channels, schedule[c] # {}
       PROVE  Occurrence(schedule[c], now) <= now
  <2>1. schedule[c] \in SUBSET TimesOfDay /\ now \in Int
    BY <1>4, EventsOf DEF TypeOK
  <2> QED BY <1>5, <2>1, OccurrenceIs
<1>6. Past'
  <2>1. ASSUME NEW c \in Channels
        PROVE  /\ lastWrite'[c] # Never => Slots <= lastWrite'[c] /\ lastWrite'[c] <= now
               /\ written'[c] # Never =>
                    lastWrite'[c] # Never /\ written'[c] <= lastWrite'[c]
    <3>1. CASE c \in done
      <4>1. written'[c] = now /\ lastWrite'[c] = now
        BY <1>1, <3>1
      <4> QED BY <1>4, <4>1
    <3>2. CASE c \notin done
      BY <1>1, <3>2 DEF Rest, Past
    <3> QED BY <3>1, <3>2
  <2>2. ASSUME NEW c \in Channels, stateFile # Absent, stateFile.written[c] # Never
        PROVE  lastWrite'[c] # Never /\ stateFile.written[c] <= lastWrite'[c]
    <3>1. lastWrite[c] # Never /\ stateFile.written[c] <= lastWrite[c] /\ lastWrite[c] <= now
      BY <2>2 DEF Rest, Past
    <3>2. stateFile.written[c] \in Int
      BY <2>2 DEF TypeOK, StateFiles
    <3>3. lastWrite'[c] = now \/ lastWrite'[c] = lastWrite[c]
      BY <1>1
    <3> QED BY <1>4, <3>1, <3>2, <3>3
  <2> QED BY <1>2, <1>4, <2>1, <2>2 DEF Past
<1>7. Stands'
  <2>1. ASSUME NEW c \in Channels, written'[c] # Never
        PROVE  channelTime'[c] = written'[c] % Week
    <3>1. CASE c \in done
      BY <1>1, <3>1 DEF NewTime, Today
    <3>2. CASE c \notin done
      BY <1>1, <1>2, <2>1, <3>2 DEF NewTime, Rest, Stands
    <3> QED BY <3>1, <3>2
  <2> QED BY <1>2, <2>1 DEF Stands, Rest
<1>8. RunningIsStored'
  BY <1>2 DEF RunningIsStored, Rest
<1>9. ASSUME NEW c \in Channels \ forgot', lastWrite'[c] # Never
      PROVE  Remembers(c)'
  <2>1. CASE c \in done
    <3>1. written'[c] = now /\ lastWrite'[c] = now
      BY <1>1, <2>1
    <3>2. Occurrence(schedule[c], now) <= now
      BY <1>3, <1>5, <2>1
    <3> QED BY <1>2, <1>3, <1>4, <2>1, <3>1, <3>2 DEF Remembers
  <2>2. CASE c \notin done
    <3>1. c \notin forgot /\ written'[c] = written[c] /\ lastWrite'[c] = lastWrite[c]
      BY <1>1, <2>2
    <3>2. Remembers(c)
      BY <1>2, <1>9, <3>1 DEF Rest, Kept
    <3> QED BY <1>2, <3>1, <3>2 DEF Remembers
  <2> QED BY <2>1, <2>2
<1>10. Kept'
  BY <1>2, <1>9 DEF Kept, Rest
<1>11. OncePerOccurrence'
  <2>1. SUFFICES ASSUME NEW c \in again' PROVE FALSE
    BY DEF OncePerOccurrence
  <2>2. /\ c \in Due /\ mode # "hold" /\ c \notin forgot
        /\ Occurrence(schedule[c], now) <= lastWrite[c]
    BY <1>1
  <2> QED BY <1>2, <2>2, NotAgain
<1>12. NoneSkipped'
  <2>1. SUFFICES ASSUME done = Due, NEW c \in Channels, schedule[c] # {},
                        written'[c] # Never, now - written'[c] < Week
                 PROVE  Occurrence(schedule[c], now) <= written'[c]
    BY <1>1, <1>2 DEF NoneSkipped
  <2>2. CASE c \in done
    <3>1. written'[c] = now
      BY <1>1, <2>2
    <3> QED BY <1>5, <2>1, <3>1
  <2>3. CASE c \notin done
    <3>1. written'[c] = written[c]
      BY <1>1, <2>3
    <3> QED BY <1>2, <2>1, <2>3, <3>1, NotSkipped
  <2> QED BY <2>2, <2>3
<1> QED BY <1>6, <1>7, <1>8, <1>10, <1>11, <1>12 DEF Rest

LEMMA SyncRemoveRest == ASSUME TypeOK, Rest, SyncRemove PROVE Rest'
<1> USE DEF ram, hist
<1>1. Running /\ Running'
  BY DEF SyncRemove, Running
<1>2. Past' /\ Stands' /\ RunningIsStored'
  BY <1>1 DEF SyncRemove, Past, Stands, RunningIsStored, Rest
<1>3. \A c \in Channels : Remembers(c)' <=> Remembers(c)
  BY DEF SyncRemove, Remembers
<1>4. Kept' /\ OncePerOccurrence' /\ NoneSkipped'
  BY <1>1, <1>3 DEF SyncRemove, Kept, OncePerOccurrence, NoneSkipped, Rest
<1> QED BY <1>2, <1>4 DEF Rest

LEMMA SyncRenameRest == ASSUME TypeOK, Rest, SyncRename PROVE Rest'
<1> USE DEF ram, hist
<1>1. Running /\ Running'
  BY DEF SyncRename, Running
<1>2. stateFile'.time = channelTime /\ stateFile'.written = written
  BY DEF SyncRename
<1>3. Past' /\ Stands' /\ RunningIsStored'
  BY <1>1, <1>2 DEF SyncRename, Past, Stands, RunningIsStored, Rest
<1>4. \A c \in Channels : Remembers(c)' <=> Remembers(c)
  BY DEF SyncRename, Remembers
<1>5. Kept' /\ OncePerOccurrence' /\ NoneSkipped'
  BY <1>1, <1>4 DEF SyncRename, Kept, OncePerOccurrence, NoneSkipped, Rest
<1> QED BY <1>3, <1>5 DEF Rest

LEMMA TickRest == ASSUME TypeOK, Rest, Tick PROVE Rest'
<1> USE DEF files, ram
<1>1. Running' <=> Running
  BY DEF Tick, Running
<1>2. Past'
  <2>1. now' = now + 1 /\ now \in Nat /\ \A c \in Channels : lastWrite[c] \in Int
    BY DEF Tick, TypeOK, Never
  <2>2. Slots <= now' /\ \A c \in Channels : lastWrite[c] <= now => lastWrite[c] <= now'
    BY <2>1, WeekIs DEF Rest, Past
  <2> QED BY <2>2 DEF Tick, Rest, Past
<1>3. Stands' /\ RunningIsStored'
  BY <1>1 DEF Tick, Stands, RunningIsStored, Rest
<1>4. \A c \in Channels : (Saved(c)' <=> Saved(c)) /\ (Remembers(c)' <=> Remembers(c))
  BY DEF Tick, Saved, Remembers
<1>5. Kept' /\ OncePerOccurrence' /\ NoneSkipped'
  BY <1>1, <1>4 DEF Tick, Kept, OncePerOccurrence, NoneSkipped, Rest
<1> QED BY <1>2, <1>3, <1>5 DEF Rest

-----------------------------------------------------------------------------
LEMMA RestNext == IInv /\ [Next]_vars => Rest'
<1> SUFFICES ASSUME TypeOK, Rest, [Next]_vars PROVE Rest'
  BY DEF IInv
<1>1. CASE Create          BY <1>1, CreateRest
<1>2. CASE BootWithout
  BY <1>2, Quiet DEF BootWithout, Running
<1>3. CASE Boot            BY <1>3, BootRest
<1>4. CASE Start           BY <1>4, StartRest
<1>5. CASE StartFails
  BY <1>5, Quiet DEF StartFails, AfterFailedRename, Running
<1>6. CASE Update          BY <1>6, UpdateRest
<1>7. CASE SyncFails
  BY <1>7, Quiet DEF SyncFails, Running
<1>8. CASE SyncRemove      BY <1>8, SyncRemoveRest
<1>9. CASE SyncRename      BY <1>9, SyncRenameRest
<1>10. CASE SyncRenameFails
  BY <1>10, Quiet DEF SyncRenameFails, Running
<1>11. CASE Remove
  BY <1>11, ForgetRest DEF Remove, Running
<1>12. CASE PowerFail
  BY <1>12, ForgetRest DEF PowerFail, Running
<1>13. CASE Tick           BY <1>13, TickRest
<1>14. CASE NothingRead    BY <1>14, NothingReadRest
<1>15. CASE UNCHANGED vars
  BY <1>15, Quiet DEF vars, Running
<1> QED BY <1>1, <1>2, <1>3, <1>4, <1>5, <1>6, <1>7, <1>8, <1>9, <1>10, <1>11,
           <1>12, <1>13, <1>14, <1>15 DEF Next

LEMMA Invariant == Spec => []IInv
<1>1. Init => IInv
  BY TypeInit, InitRest DEF IInv
<1>2. IInv /\ [Next]_vars => IInv'
  BY TypeNext, RestNext DEF IInv, NextAnyClock
<1> QED BY <1>1, <1>2, PTL DEF Spec

\* A driver runs only with its schedule on file, whatever the clock does.
THEOREM StoredSchedule == SpecAnyClock => []RunningIsStored
<1>1. Init => RunningIsStored
  BY DEF Init, RunningIsStored, Running
<1>2. RunningIsStored /\ [NextAnyClock]_vars => RunningIsStored'
  <2> SUFFICES ASSUME RunningIsStored, [NextAnyClock]_vars PROVE RunningIsStored'
    OBVIOUS
  <2> USE DEF RunningIsStored, Running, files, ram, hist
  <2>1. CASE Create \/ BootWithout \/ Boot \/ Start \/ NothingRead \/ StartFails
    BY <2>1 DEF Create, BootWithout, Boot, Start, NothingRead, StartFails,
               AfterFailedRename
  <2>2. CASE Update \/ SyncFails \/ SyncRemove \/ SyncRename \/ SyncRenameFails
    BY <2>2 DEF Update, SyncFails, SyncRemove, SyncRename, SyncRenameFails
  <2>3. CASE Remove \/ PowerFail
    BY <2>3 DEF Remove, PowerFail
  <2>4. CASE Tick \/ SetClockBack \/ UNCHANGED vars
    BY <2>4 DEF Tick, SetClockBack, vars
  <2> QED BY <2>1, <2>2, <2>3, <2>4 DEF Next, NextAnyClock
<1> QED BY <1>1, <1>2, PTL DEF SpecAnyClock

\* While local time never goes back, no occurrence of an event is written twice
\* unless its record was lost, could not be read when the driver was made or
\* was of another schedule: for any schedules, any channels, any length of day
\* and week, however late updates come and whatever fails between them.
THEOREM NoDoubleDose == Spec => []OncePerOccurrence
<1>1. IInv => OncePerOccurrence
  BY DEF IInv, Rest
<1> QED BY <1>1, Invariant, PTL

\* And none is skipped by an update less than a week after the last write the
\* driver remembers.
THEOREM NoMissedDose == Spec => []NoneSkipped
<1>1. IInv => NoneSkipped
  BY DEF IInv, Rest
<1> QED BY <1>1, Invariant, PTL
=============================================================================
