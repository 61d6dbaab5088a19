----------------------------- MODULE BackupAgenda -----------------------------
(***************************************************************************)
(* When the backup agent runs a job: the agenda the owner stores in        *)
(* backup_schedule, the floors it may not go under, the merge with the     *)
(* environment's baseline, and the loop that sleeps until the next slot    *)
(* and is woken when the agenda changes under it.                          *)
(*                                                                         *)
(* Time is counted in ticks, DayTicks to a day and WeekDays days to a week *)
(* so that a whole week fits; a wall time is a tick of the day.            *)
(***************************************************************************)
EXTENDS FiniteSets, FiniteSetsExt, Integers, Sequences, SequencesExt

CONSTANTS
    WeekDays, DayTicks,       \* the week's grid
    MinInterval, MaxInterval, MaxTimes,
    AgendaScenarios   \* [protective: the job may not be switched off, floor: its minWeekdays,
                      \*  capable, env: the baseline, docs: documents a row may get,
                      \*  last: success, starts: the agent boots now, or has long been waiting,
                      \*  edits, until: bounds on the edits and on time]

BadTime == -1    \* does not parse
DayTime == -2    \* a time with a weekday of its own
Clocks  == 0..(DayTicks - 1)
Days    == 0..(WeekDays - 1)

Documents == [mode : {"no row", "none", "times", "interval"}, times : Seq(Clocks \cup {BadTime, DayTime}),
              days : Seq(Int), every : Int, enabled : {"absent", "true", "false"},
              time : Seq(Clocks \cup {BadTime, DayTime}), weekday : Seq(Int)]
Timings == [at : SUBSET Clocks, days : SUBSET Days, every : Nat, source : {"env", "db"}]

ASSUME AgendaAssumption ==
    /\ WeekDays \in Nat \ {0} /\ DayTicks \in Nat \ {0}
    /\ MaxInterval \in Nat /\ MinInterval \in 1..MaxInterval
    /\ \A s \in AgendaScenarios :
          /\ s.docs \subseteq Documents /\ s.env \in Timings /\ s.env.source = "env"
          /\ s.floor \in Nat /\ s.last \in Int /\ s.until \in Nat

VARIABLES
    job,        \* the scenario
    row,        \* the job's document in backup_schedule, or NoDoc
    edits,      \* how often it was written
    timing,     \* the agent's timings[job]
    schedChange,\* the channel setTimings closes: its generation
    sleeper,    \* scheduleLoop: pc, the channel and the timing it has read, its next slot
    now

agendaVars == <<job, row, edits, timing, schedChange, sleeper, now>>

Doc(mode, times, days, every, enabled, time, weekday) ==
    [mode |-> mode, times |-> times, days |-> days, every |-> every, enabled |-> enabled,
     time |-> time, weekday |-> weekday]
\* No mode and nothing else: also what Load makes of a document it cannot decode.
EmptyDoc == Doc("none", <<>>, <<>>, 0, "absent", <<>>, <<>>)
NoDoc    == [EmptyDoc EXCEPT !.mode = "no row"]

-----------------------------------------------------------------------------
(* Documents and their floors *)

carriesAgendaDays(d) == d.times # <<>> \/ d.days # <<>>

rejectShape(d) ==
    \/ d.time # <<>> \/ d.weekday # <<>>
    \/ d.mode \notin {"times", "interval"}
    \/ d.enabled # "absent" /\ job.protective
    \/ d.enabled = "false" /\ (carriesAgendaDays(d) \/ d.every # 0)

validateTimes(ts) ==
    /\ Len(ts) \in 1..MaxTimes
    /\ \A i \in DOMAIN ts : ts[i] \notin {BadTime, DayTime}
    /\ IsInjective(ts)

validateWeekdaysByLength(ds) ==
    /\ ds # <<>> /\ Len(ds) >= job.floor
    /\ \A i \in DOMAIN ds : ds[i] \in Days

validateWeekdays(ds) ==
    /\ ds # <<>> /\ Cardinality(ToSet(ds)) >= job.floor
    /\ \A i \in DOMAIN ds : ds[i] \in Days
    /\ IsInjective(ds)

validateAgenda(d) ==
    IF d.mode = "times" THEN d.every = 0 /\ validateTimes(d.times) /\ validateWeekdays(d.days)
    ELSE ~carriesAgendaDays(d) /\ d.every \in MinInterval..MaxInterval

ValidateJobConfig(d) == ~rejectShape(d) /\ (d.enabled = "false" \/ validateAgenda(d))

EveryDay == [i \in 1..WeekDays |-> i - 1]

\* A document of the previous vocabulary, which carried no mode.
normalized(d) ==
    LET enabled == IF job.protective THEN "absent" ELSE d.enabled
        out     == [EmptyDoc EXCEPT !.mode = "times", !.enabled = enabled]
    IN  IF d.mode # "none" THEN d
        ELSE IF enabled = "false" THEN out
        ELSE IF d.every # 0 THEN [out EXCEPT !.mode = "interval", !.every = d.every]
        ELSE IF d.times # <<>> THEN [out EXCEPT !.times = d.times, !.days = EveryDay]
        ELSE IF d.time = <<>> THEN out
        ELSE [out EXCEPT !.times = d.time,
                         !.days = IF d.weekday # <<>> THEN d.weekday ELSE EveryDay]

-----------------------------------------------------------------------------
(* Timings: wall times crossed with weekdays, or an interval *)

Timing(at, days, every, src) == [at |-> at, days |-> days, every |-> every, source |-> src]
Enabled(t) == t.at # {} \/ t.every > 0
DaySet(t)  == IF t.days = {} THEN Days ELSE t.days

TimingFromConfig(d) ==
    IF d.enabled = "false" THEN Timing({}, {}, 0, "db")
    ELSE IF d.mode = "interval" THEN Timing({}, {}, d.every, "db")
    ELSE Timing(ToSet(d.times), ToSet(d.days), 0, "db")

EffectiveTiming(d) ==
    IF d = NoDoc \/ ~ValidateJobConfig(d) THEN job.env ELSE TimingFromConfig(d)

timingForJob(d) ==
    IF job.capable THEN EffectiveTiming(d) ELSE Timing({}, {}, 0, "env")

Midnight(at) == (at \div DayTicks) * DayTicks
Weekday(at)  == (at \div DayTicks) % WeekDays

\* The first of at most steps days, from today on (dir 1) or back (dir -1), on which wall
\* time a lies on the wanted side of now; none after that.
Candidates(t, n, a, dir, steps) ==
    {c \in {Midnight(n) + a + dir * i * DayTicks : i \in 0..(steps - 1)} :
        /\ Weekday(c) \in DaySet(t)
        /\ IF dir = 1 THEN c > n ELSE c <= n}

NextInAWeek(t, n) ==
    LET found == UNION {Candidates(t, n, a, 1, WeekDays) : a \in t.at}
    IN  IF found = {} THEN n ELSE Min(found)

\* The zero time, when no candidate was found, has long passed: the timer fires at once.
Next(t, n) ==
    LET found == UNION {Candidates(t, n, a, 1, WeekDays + 1) : a \in t.at}
    IN  IF found = {} THEN n ELSE Min(found)

PreviousSlot(t, n) ==
    LET found == UNION {Candidates(t, n, a, -1, WeekDays + 1) : a \in t.at}
    IN  IF found = {} THEN n ELSE Max(found)

\* The week's grid, and the way from one of its cells to the next, round the week's end.
Grid(t) == {d * DayTicks + a : d \in DaySet(t), a \in t.at}
GapAfter(t, g) ==
    Min({h - g : h \in {k \in Grid(t) : k > g} \cup {k + WeekDays * DayTicks : k \in Grid(t)}})

\* Mutant: the way round the week's end is left out.
GapInWeek(t, g) == Min({DayTicks} \cup {h - g : h \in {k \in Grid(t) : k > g}})

\* The widest gap.
MaxGap(t) ==
    IF t.every > 0 THEN t.every
    ELSE IF t.at = {} THEN 0
    ELSE Max({GapAfter(t, g) : g \in Grid(t)})

\* The grace is a quarter of the gap; the job never ran if last is below any time.
Never == -1000
DueEarly(t, n, last) == Enabled(t) /\ (last = Never \/ 2 * (n - last) > MaxGap(t))
Due(t, n, last) == Enabled(t) /\ (last = Never \/ 4 * (n - last) > 5 * MaxGap(t))

-----------------------------------------------------------------------------
(* The owner and the agent's sync *)

AgendaInit ==
    /\ job \in AgendaScenarios
    /\ row = NoDoc /\ edits = 0 /\ schedChange = 0
    /\ now \in 0..Min({job.until, WeekDays * DayTicks - 1})
    /\ timing = timingForJob(NoDoc)
    /\ sleeper = [pc |-> IF job.starts THEN "boot" ELSE "park", held |-> 0, uses |-> timing, fireAt |-> 0, slot |-> Never,
                  lastFire |-> Never, waitFrom |-> Never]

Written(d) ==
    /\ edits < job.edits /\ edits' = edits + 1
    /\ row' = d
    /\ UNCHANGED <<job, timing, schedChange, sleeper, now>>

PutSchedule(d) == ValidateJobConfig(d) /\ Written(d)

\* A row written before this vocabulary or by hand in SQL.
ForeignRow(d)  == ~ValidateJobConfig(d) /\ Written(d)
DeleteSchedule == row # NoDoc /\ Written(NoDoc)

setTimings(t) ==
    /\ timing' = t
    /\ schedChange' = schedChange + 1

\* Load, merge and, if anything changed, swap the agenda and close the channel.
syncSchedule ==
    LET next == timingForJob(IF row = NoDoc THEN NoDoc ELSE normalized(row))
    IN  /\ next # timing
        /\ setTimings(next)
        /\ UNCHANGED <<job, row, edits, sleeper, now>>

\* The agenda of another job changes: the channel is shared.
OtherJobChanges ==
    /\ edits < job.edits /\ edits' = edits + 1
    /\ setTimings(timing)
    /\ UNCHANGED <<job, row, sleeper, now>>

Tick ==
    /\ now < job.until
    /\ now' = now + 1
    /\ UNCHANGED <<job, row, edits, timing, schedChange, sleeper>>

-----------------------------------------------------------------------------
(* scheduleLoop *)

Sleeps(s) == sleeper' = s /\ UNCHANGED <<job, row, edits, timing, schedChange, now>>

\* Once, before the loop: a run for the slot that was missed.
bootCatchUp ==
    /\ sleeper.pc = "boot"
    /\ Sleeps(IF Due(timing, now, job.last)
              THEN [sleeper EXCEPT !.pc = "run",
                        !.slot = IF timing.every = 0 THEN PreviousSlot(timing, now) ELSE now]
              ELSE [sleeper EXCEPT !.pc = "channel"])

nextFireAtFromStart(t, s) ==
    LET base == IF s.waitFrom # Never THEN s.waitFrom ELSE now
    IN  IF t.every = 0 THEN Next(t, now)
        ELSE IF base + t.every <= now THEN now ELSE base + t.every

\* The base of an interval is the last firing, or when the loop first waited for one.
nextFireAt(t, s) ==
    LET base == IF s.lastFire # Never THEN s.lastFire
                ELSE IF s.waitFrom # Never THEN s.waitFrom ELSE now
    IN  IF t.every = 0 THEN Next(t, now)
        ELSE IF base + t.every <= now THEN now ELSE base + t.every

Waits(t, s) ==
    IF ~Enabled(t) THEN [s EXCEPT !.pc = "park", !.uses = t]
    ELSE [s EXCEPT !.pc = "wait", !.uses = t, !.fireAt = nextFireAt(t, s),
                   !.waitFrom = IF t.every > 0 /\ s.lastFire = Never /\ @ = Never THEN now ELSE @]

timingBeforeChannel ==
    \/ sleeper.pc = "channel" /\ Sleeps([sleeper EXCEPT !.pc = "timing", !.uses = timing])
    \/ sleeper.pc = "timing" /\ Sleeps(Waits(sleeper.uses, [sleeper EXCEPT !.held = schedChange]))

\* changeCh, then timing.
readAgenda ==
    \/ sleeper.pc = "channel" /\ Sleeps([sleeper EXCEPT !.pc = "timing", !.held = schedChange])
    \/ sleeper.pc = "timing" /\ Sleeps(Waits(timing, sleeper))

\* waitForChange, and the channel's branch of waitForSlot.
waitForChange ==
    /\ sleeper.pc \in {"park", "wait"} /\ schedChange # sleeper.held
    /\ Sleeps([sleeper EXCEPT !.pc = "channel"])

waitForSlot ==
    /\ sleeper.pc = "wait" /\ now >= sleeper.fireAt
    /\ Sleeps([sleeper EXCEPT !.pc = "run", !.slot = sleeper.fireAt, !.lastFire = now])

\* execute returns.
RunEnds ==
    /\ sleeper.pc = "run"
    /\ Sleeps([sleeper EXCEPT !.pc = "channel"])

LoopNext == bootCatchUp \/ readAgenda \/ waitForChange \/ waitForSlot \/ RunEnds

AgendaNext ==
    \/ \E d \in job.docs : PutSchedule(d) \/ ForeignRow(d)
    \/ DeleteSchedule
    \/ syncSchedule \/ OtherJobChanges \/ Tick \/ LoopNext

\* The sync has its ticker, and the loop's goroutine is scheduled.
AgendaFairness == WF_agendaVars(syncSchedule) /\ WF_agendaVars(LoopNext)

AgendaSpec == AgendaInit /\ [][AgendaNext]_agendaVars /\ AgendaFairness

-----------------------------------------------------------------------------
(* Properties *)

\* Next and PreviousSlot agree with their definition on the week's grid and bracket now, and no
\* silence is longer than MaxGap, which the catch-up at boot and the staleness alarm compare with.
OnGrid(t, c) == Weekday(c) \in DaySet(t) /\ c % DayTicks \in t.at
SlotsBracketNow ==
    (timing.every = 0 /\ timing.at # {}) =>
        LET nxt == Next(timing, now)
            prv == PreviousSlot(timing, now)
        IN  /\ OnGrid(timing, nxt) /\ OnGrid(timing, prv)
            /\ prv <= now /\ now < nxt
            /\ \A c \in (prv + 1)..(nxt - 1) : ~OnGrid(timing, c)
            /\ nxt - prv <= MaxGap(timing)

\* The catch-up at boot never repeats a slot that was served: it is due only if a slot lies
\* between the last success and now.
CatchUpIsMissed ==
    (timing.every = 0 /\ job.last # Never /\ Due(timing, now, job.last)) =>
        job.last < PreviousSlot(timing, now)

\* Whatever is stored, by the API, by an older version or by hand: an agenda that comes from the
\* database keeps a protective job running on as many days as its floor, or at an interval in bounds.
ProtectionFloor ==
    (timing.source = "db" /\ job.protective) =>
        \/ timing.every \in MinInterval..MaxInterval
        \/ timing.at # {} /\ Cardinality(DaySet(timing)) >= job.floor

\* No slot is fired twice, however the agenda is swapped while the loop waits or runs.
SlotOnce ==
    [][(sleeper.pc = "wait" /\ sleeper'.pc = "run") => sleeper'.slot > sleeper.slot]_agendaVars

\* The loop never sleeps on an old agenda: it comes back, again and again, to waiting by the row
\* that is stored.
AgendaFollowed ==
    []<>(/\ sleeper.pc \in {"park", "wait"}
         /\ sleeper.uses = timingForJob(IF row = NoDoc THEN NoDoc ELSE normalized(row)))

\* The agenda's arithmetic, its catch-up and its floor, whatever document is stored.
AgendaSound == SlotsBracketNow /\ CatchUpIsMissed /\ ProtectionFloor

\* The loop serves the stored agenda, each of its slots at most once.
AgendaServed == SlotOnce /\ AgendaFollowed
===============================================================================
