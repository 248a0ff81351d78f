----------------------------- MODULE LogRotation -----------------------------
(***************************************************************************)
(* class FileAppender and _log of src/src/simple_log.cpp: the threads of   *)
(* the server write lines to one file, which the first line of a day       *)
(* renames after the day before, and old files are deleted. A signal       *)
(* handler reads the configuration again, and the program may be restarted.*)
(*                                                                         *)
(* Time is a number of days: the clock is read once per line, and what is  *)
(* decided on it is decided later. There are two counts of days. The names *)
(* of files are by localtime_r, the day here; whether the day has changed  *)
(* is reckoned from tz_minuteswest, which gettimeofday leaves 0 on current *)
(* systems, so that it is the day of UTC. The two are one where they agree *)
(* (same_zone). The lines before a file is configured go to stdout and are  *)
(* left out, and so are the log level and summer time.                     *)
(***************************************************************************)
EXTENDS Integers, Sequences, SequencesExt, FiniteSets

CONSTANTS
    Threads,        \* that call log_error, log_warn, log_info, log_debug
    Absent,         \* contents of a file that does not exist
    Firsts,         \* the days that begin a month
    Retains,        \* values of retain_day in the configuration
    MayFail,        \* whether mkdir, rename and open may fail for any reason
    MaxDay,         \* bound: days
    MaxLines,       \* bound: lines
    MaxRestarts     \* bound: restarts

Days == 0..MaxDay
Line == [id : 1..MaxLines, day : Days]

ASSUME LogAssumption ==
    /\ IsFiniteSet(Threads)
    /\ Retains \subseteq Nat /\ MayFail \in BOOLEAN
    /\ MaxDay \in Nat \ {0} /\ MaxLines \in Nat /\ MaxRestarts \in Nat
    /\ Absent \notin Seq(Line)

VARIABLES
    now,        \* the day it is, as the files are named
    tested,     \* the day it is for shift_file_if_need
    same_zone,  \* whether the two are the same where the program runs
    \* the files, each its lines in order
    current,    \* _log_file, Absent until it is opened
    dated,      \* dated[d]: _log_file.<d>
    \* the program
    use_file,   \* use_file_appender
    inited,     \* _is_inited
    named,      \* whether _log_file_path is set
    open,       \* _fs.is_open()
    last,       \* the tested day of _last_sec, 0 when it is not set
    retain,     \* _retain_day, 0 when it is off
    reload,     \* whether the signal handler is about to call init
    pc, tv, tz, \* where each thread is in _log, and the two days it has read
    \* bounds and histories
    count,      \* lines written
    restarts,
    deleted,    \* lines of deleted files, with what was asked for
    missed,     \* the days whose name a rename has failed to give
    crossed     \* whether midnight came in the middle of a call, before its stamp

store == <<current, dated>>
config == <<use_file, inited, named, retain, reload>>
history == <<count, restarts, deleted>>
days == <<now, tested, same_zone>>
calls == <<pc, tv, tz>>
vars == <<days, store, config, open, last, calls, history, missed, crossed>>

Init ==
    /\ now = 1 /\ tested = 1 /\ same_zone \in BOOLEAN
    /\ current = Absent /\ dated = [d \in Days |-> Absent]
    /\ use_file = FALSE /\ inited = FALSE /\ named = FALSE
    /\ open = FALSE /\ last = 0 /\ retain = 0 /\ reload = FALSE
    /\ pc = [t \in Threads |-> "idle"] /\ tv = [t \in Threads |-> 0]
    /\ tz = [t \in Threads |-> 0]
    /\ count = 0 /\ restarts = 0 /\ deleted = {} /\ missed = {} /\ crossed = FALSE

\* Of the two counts either may be ahead, in zones east and west of UTC.
Midnight ==
    /\ now < MaxDay
    /\ now <= tested
    /\ now' = now + 1
    /\ tested' = IF same_zone THEN now' ELSE tested
    /\ crossed' = (crossed \/ \E t \in Threads : pc[t] \notin {"idle", "write"})
    /\ UNCHANGED <<same_zone, store, config, open, last, calls, history, missed>>

\* Midnight of UTC.
Turn ==
    /\ ~same_zone
    /\ tested < MaxDay
    /\ tested <= now
    /\ tested' = tested + 1
    /\ UNCHANGED <<now, same_zone, store, config, open, last, calls, history, missed, crossed>>

\* The program ends anywhere and is started again; the files stay.
Restart ==
    /\ restarts < MaxRestarts
    /\ restarts' = restarts + 1
    /\ use_file' = FALSE /\ inited' = FALSE /\ named' = FALSE
    /\ open' = FALSE /\ last' = 0 /\ retain' = 0 /\ reload' = FALSE
    /\ pc' = [t \in Threads |-> "idle"]
    /\ tv' = [t \in Threads |-> 0] /\ tz' = [t \in Threads |-> 0]
    /\ UNCHANGED <<days, store, count, deleted, missed, crossed>>

-----------------------------------------------------------------------------
(* _check_config_file, from log_init or from the signal handler *)

\* The file is used from here on, also by the threads that log before init is
\* done.
Configure ==
    /\ ~reload
    /\ \E r \in Retains \cup {retain} : retain' = r
    /\ \E file \in BOOLEAN :
          /\ use_file' = (use_file \/ file)
          /\ reload' = (file /\ ~inited)
    /\ UNCHANGED <<days, store, inited, named, open, last, calls, history, missed, crossed>>

\* fstream::open, to append: afterwards there is a file, as it was if it was there.
Opens(file, ok) ==
    /\ open' = ok
    /\ current' = IF ok /\ file = Absent THEN <<>> ELSE file

\* FileAppender::init. It is not tried again when mkdir fails, which leaves no
\* path, or open.
InitAppender ==
    /\ reload
    /\ inited' = TRUE
    /\ \E ok \in {TRUE, ~MayFail} : named' = ok
    /\ \E ok \in {TRUE, ~MayFail} : Opens(current, named' /\ ok)
    /\ reload' = FALSE
    /\ UNCHANGED <<days, dated, use_file, last, retain, calls, history, missed, crossed>>

-----------------------------------------------------------------------------
(* _log, in thread t *)

Busy == {t \in Threads : pc[t] # "idle"}

Goes(t, from, to) ==
    /\ pc[t] = from
    /\ pc' = [pc EXCEPT ![t] = to]

\* gettimeofday.
Log(t) ==
    /\ use_file
    /\ count + Cardinality(Busy) < MaxLines
    /\ Goes(t, "idle", "check")
    /\ tv' = [tv EXCEPT ![t] = now] /\ tz' = [tz EXCEPT ![t] = tested]
    /\ UNCHANGED <<days, store, config, open, last, history, missed, crossed>>

\* Mutant: seconds are compared, not days.
CheckSeconds(t) ==
    /\ \E to \in {"stamp", "shift"} : (to = "stamp" <=> last = 0) /\ Goes(t, "check", to)
    /\ UNCHANGED <<days, store, config, open, last, tv, tz, history, missed, crossed>>

\* shift_file_if_need up to the lock: is it another day than that of _last_sec?
Check(t) ==
    /\ Goes(t, "check", IF last \in {0, tz[t]} THEN "stamp" ELSE "shift")
    /\ UNCHANGED <<days, store, config, open, last, tv, tz, history, missed, crossed>>

\* A day before the clock t has read, by localtime_r.
Yesterday(t) == tv[t] - 1

\* Mutant: rename over whatever is there.
ShiftOverwrites(t) ==
    /\ Goes(t, "shift", "delete")
    /\ dated' = [dated EXCEPT ![Yesterday(t)] = current]
    /\ Opens(Absent, TRUE)
    /\ UNCHANGED <<days, config, last, tv, tz, history, missed, crossed>>

\* rename of the current file, which fails at least when there is none.
Rename(day, done) ==
    /\ IF done THEN named /\ current # Absent
               ELSE MayFail \/ ~named \/ current = Absent
    /\ dated' = IF done THEN [dated EXCEPT ![day] = current] ELSE dated
    /\ missed' = IF done THEN missed ELSE missed \cup {day}

\* shift_file, under the lock: unless the file of yesterday exists, the current
\* file is renamed to it, and, whatever came of that, opened anew.
Shift(t) ==
    /\ Goes(t, "shift", "delete")
    /\ IF dated[Yesterday(t)] # Absent
       THEN UNCHANGED <<store, open, missed>>
       ELSE \E done \in BOOLEAN, ok \in {TRUE, ~MayFail} :
               /\ Rename(Yesterday(t), done)
               /\ Opens(IF done THEN Absent ELSE current, named /\ ok)
    /\ UNCHANGED <<days, config, last, tv, tz, history, crossed>>

\* Mutant: the day is not counted down.
OldFileSameDay(day) == day - retain

\* The name delete_old_log makes up: the day of the month less one, so that on the
\* first of a month it is day 00, which no file has.
OldFile(day) == IF day - retain \in Firsts THEN -1 ELSE day - retain - 1

\* delete_old_log, after the lock.
Delete(t) ==
    /\ Goes(t, "delete", "stamp")
    /\ LET old == OldFile(tv[t])
       IN  IF retain > 0 /\ named /\ old \in Days /\ dated[old] # Absent
           THEN /\ dated' = [dated EXCEPT ![old] = Absent]
                /\ deleted' = deleted \cup
                     {[line |-> l, before |-> tv[t] - retain] : l \in ToSet(dated[old])}
           ELSE UNCHANGED <<dated, deleted>>
    /\ UNCHANGED <<days, current, config, open, last, tv, tz, count, restarts, missed, crossed>>

\* _last_sec = tv.tv_sec, without the lock.
Stamp(t) ==
    /\ Goes(t, "stamp", "write")
    /\ last' = tz[t]
    /\ UNCHANGED <<days, store, config, open, tv, tz, history, missed, crossed>>

\* Mutant: the line is written again after it was.
WriteAgain(t) ==
    /\ pc[t] = "write" /\ open
    /\ current' = Append(current, [id |-> count + 1, day |-> tv[t]])
    /\ count' = count + 1
    /\ UNCHANGED <<days, dated, config, open, last, calls, restarts, deleted, missed, crossed>>

\* write_log, under the lock; a line that finds no open file is dropped.
Write(t) ==
    /\ Goes(t, "write", "idle")
    /\ tv' = [tv EXCEPT ![t] = 0] /\ tz' = [tz EXCEPT ![t] = 0]
    /\ IF open
       THEN /\ current' = Append(current, [id |-> count + 1, day |-> tv[t]])
            /\ count' = count + 1
       ELSE UNCHANGED <<current, count>>
    /\ UNCHANGED <<days, dated, config, open, last, restarts, deleted, missed, crossed>>

LogStep(t) == Log(t) \/ Check(t) \/ Shift(t) \/ Delete(t) \/ Stamp(t) \/ Write(t)

Next ==
    \/ Midnight \/ Turn \/ Restart
    \/ Configure \/ InitAppender
    \/ \E t \in Threads : LogStep(t)

Spec == Init /\ [][Next]_vars

-----------------------------------------------------------------------------
(* Properties *)

TypeOK ==
    /\ {now, tested} \subseteq 1..MaxDay /\ tested - now \in -1..1
    /\ current \in Seq(Line) \cup {Absent} /\ dated \in [Days -> Seq(Line) \cup {Absent}]
    /\ open => current # Absent
    /\ {same_zone, use_file, inited, named, open, reload, crossed} \subseteq BOOLEAN
    /\ last \in Days /\ retain \in Retains \cup {0}
    /\ pc \in [Threads -> {"idle", "check", "shift", "delete", "stamp", "write"}]
    /\ tv \in [Threads -> Days] /\ tz \in [Threads -> Days] /\ missed \subseteq Days
    /\ \A t \in Threads : pc[t] # "idle" => tv[t] \in 1..now
    /\ count \in 0..MaxLines /\ restarts \in 0..MaxRestarts
    /\ deleted \subseteq [line : Line, before : Int]

Dated == {d \in Days : dated[d] # Absent}

\* The file that is written to has no day.
Today == -1
File(d) == IF d = Today THEN current ELSE dated[d]

Files == {d \in Days \cup {Today} : File(d) # Absent}

\* Where lines are: a file and a place in it.
Places == UNION {{d} \X DOMAIN File(d) : d \in Files}
IdAt(p) == File(p[1])[p[2]].id

\* Every line written is in one place of one file, or was in a file delete_old_log
\* removed: however the shifts of two threads interleave, before and after a restart, no
\* rename takes the place of a file.
NothingLost ==
    /\ {IdAt(p) : p \in Places} \cup {x.line.id : x \in deleted} = 1..count
    /\ \A p, q \in Places : IdAt(p) = IdAt(q) => p = q
    /\ \A x, y \in deleted : x.line.id = y.line.id => x = y
    /\ \A p \in Places : \A x \in deleted : IdAt(p) # x.line.id

\* A file takes lines of the day after as well where the two counts of days differ,
\* and where a rename to it has failed, so that a second thread which found the day
\* changed renames the file that the first has opened and written to.
Slack(d) == IF same_zone /\ d \notin missed THEN 0 ELSE 1

\* When no call was in progress at midnight, no line is in the file of a day before
\* its own, the exceptions of Slack aside, and then of no more than one: whoever looks
\* for a day finds its lines there or later.
NamedByDay ==
    ~crossed => \A d \in Dated : \A l \in ToSet(dated[d]) : l.day <= d + Slack(d)

\* When no call was in progress at midnight, no line is deleted on the retain_day
\* days after its own, or a day less for the files that Slack excepts.
Retained ==
    ~crossed => \A x \in deleted : x.line.day < x.before + Slack(x.before - 1)

=============================================================================
