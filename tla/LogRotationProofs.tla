-------------------------- MODULE LogRotationProofs --------------------------
(***************************************************************************)
(* Theorems about LogRotation, for any threads, days, months and settings: *)
(* type correctness, and by which day lines are filed and deleted.         *)
(***************************************************************************)
EXTENDS LogRotation, FiniteSetTheorems, TLAPS

\* Lines written and lines about to be: the bound of the model.
Bounded == count + Cardinality(Busy) <= MaxLines

TypeInv == TypeOK /\ Bounded

\* In one zone there is one day.
Zones == same_zone => tested = now /\ \A t \in Threads : tz[t] = tv[t]

\* No line is of a day to come.
Past == current # Absent => \A l \in ToSet(current) : l.day <= now

\* Yesterday's file is there, or there was a try to make it.
Moved == dated[now - 1] # Absent \/ now - 1 \in missed

\* The last stamp is of an earlier day.
NewDay == last \notin {0, now}

\* A call before its stamp is one of today.
Calls == \A t \in Threads : pc[t] \notin {"idle", "write"} => tv[t] = now

\* Whoever is about to rename the file has seen the stamp of an earlier day ...
Shifting == ~Moved /\ (\E t \in Threads : pc[t] = "shift") => NewDay

\* ... and until it is renamed no line of today is in it, or on its way.
NotYet ==
    ~Moved /\ NewDay =>
        /\ current # Absent => \A l \in ToSet(current) : l.day < now
        /\ \A t \in Threads : /\ pc[t] \notin {"delete", "stamp"}
                              /\ pc[t] = "write" => tv[t] < now

Filed == \A d \in Dated : \A l \in ToSet(dated[d]) : l.day <= d + Slack(d)
Kept == \A x \in deleted : x.line.day < x.before + Slack(x.before - 1)

\* All of it as long as midnight finds no call in progress.
Quiet == Calls /\ Filed /\ Kept /\ (same_zone => Shifting /\ NotYet)

DayInv == Past /\ Zones /\ (~crossed => Quiet)

-----------------------------------------------------------------------------
(* Types *)

\* A call that begins adds itself to the busy ones, one that ends leaves them.
LEMMA BusyCount ==
  ASSUME TypeOK, NEW t \in Threads, NEW to \in {"idle", "check", "shift", "delete", "stamp", "write"},
         pc' = [pc EXCEPT ![t] = to]
  PROVE  /\ IsFiniteSet(Busy) /\ Cardinality(Busy) \in Nat
         /\ pc[t] = "idle" /\ to # "idle" => Cardinality(Busy') = Cardinality(Busy) + 1
         /\ pc[t] # "idle" /\ to = "idle" => Cardinality(Busy') = Cardinality(Busy) - 1
         /\ pc[t] # "idle" /\ to # "idle" => Busy' = Busy
<1>1. IsFiniteSet(Busy)
  BY LogAssumption, FS_Subset DEF Busy
<1>2. Cardinality(Busy) \in Nat
  BY <1>1, FS_CardinalityType
<1>3. ASSUME pc[t] = "idle", to # "idle"
      PROVE  Cardinality(Busy') = Cardinality(Busy) + 1
  <2>1. Busy' = Busy \cup {t} /\ t \notin Busy
    BY <1>3 DEF Busy, TypeOK
  <2> QED
    BY <2>1, <1>1, FS_AddElement
<1>4. ASSUME pc[t] # "idle", to = "idle"
      PROVE  Cardinality(Busy') = Cardinality(Busy) - 1
  <2>1. Busy' = Busy \ {t} /\ t \in Busy
    BY <1>4 DEF Busy, TypeOK
  <2> QED
    BY <2>1, <1>1, FS_RemoveElement
<1>5. ASSUME pc[t] # "idle", to # "idle"
      PROVE  Busy' = Busy
  BY <1>5 DEF Busy, TypeOK
<1> QED
  BY <1>1, <1>2, <1>3, <1>4, <1>5

\* The files are sequences of lines, the new ones and those that grow.
LEMMA FileLines ==
  ASSUME NEW S
  PROVE  <<>> \in Seq(S) /\ \A f \in Seq(S), l \in S : Append(f, l) \in Seq(S)
OBVIOUS

LEMMA TypeInit == Init => TypeInv
<1> SUFFICES ASSUME Init PROVE TypeInv
  OBVIOUS
<1>1. TypeOK
  <2>1. /\ current = Absent /\ dated \in [Days -> Seq(Line) \cup {Absent}]
        /\ ~open /\ missed \subseteq Days
    BY FileLines DEF Init
  <2>2. {same_zone, use_file, inited, named, open, reload, crossed} \subseteq BOOLEAN
    BY Zenon DEF Init
  <2>3. /\ now \in 1..MaxDay /\ tested \in 1..MaxDay /\ tested - now \in -1..1 /\ last \in Days /\ retain \in Retains \cup {0}
        /\ count \in 0..MaxLines /\ restarts \in 0..MaxRestarts
        /\ deleted \subseteq [line : Line, before : Int]
    BY LogAssumption DEF Init, Days
  <2>4. /\ pc \in [Threads -> {"idle", "check", "shift", "delete", "stamp", "write"}]
        /\ tv \in [Threads -> Days] /\ tz \in [Threads -> Days]
        /\ \A t \in Threads : pc[t] # "idle" => tv[t] \in 1..now
    BY LogAssumption DEF Init, Days
  <2> QED
    BY <2>1, <2>2, <2>3, <2>4 DEF TypeOK
<1>2. Busy = {}
  BY DEF Init, Busy
<1>3. Bounded
  BY <1>2, FS_EmptySet, LogAssumption DEF Init, Bounded
<1> QED
  BY <1>1, <1>3 DEF TypeInv

\* What is written to has been opened.
LEMMA OpensFile ==
  ASSUME NEW file \in Seq(Line) \cup {Absent}, NEW ok \in BOOLEAN, Opens(file, ok)
  PROVE  /\ current' \in Seq(Line) \cup {Absent}
         /\ open' \in BOOLEAN /\ (open' => current' # Absent)
<1>1. <<>> \in Seq(Line)
  BY FileLines
<1>2. <<>> # Absent
  BY <1>1, LogAssumption
<1>3. CASE ok /\ file = Absent
  BY <1>1, <1>2, <1>3 DEF Opens
<1>4. CASE ~(ok /\ file = Absent)
  BY <1>4 DEF Opens
<1> QED
  BY <1>3, <1>4

\* Steps that are not of a thread.
LEMMA TypeOthers ==
  ASSUME TypeInv, Midnight \/ Turn \/ Restart \/ Configure \/ InitAppender
  PROVE  TypeInv'
<1> USE LogAssumption DEF TypeInv, TypeOK, Bounded, store, config, history, days, calls
<1>1. CASE Midnight \/ Turn
  <2>1. /\ now' \in 1..MaxDay /\ tested' \in 1..MaxDay /\ tested' - now' \in -1..1
        /\ now <= now' /\ now \in Int
    <3>1. CASE Midnight /\ same_zone
      BY <3>1 DEF Midnight
    <3>2. CASE Midnight /\ ~same_zone
      BY <3>2 DEF Midnight
    <3>3. CASE Turn
      BY <3>3 DEF Turn
    <3> QED
      BY <1>1, <3>1, <3>2, <3>3
  <2>2. /\ UNCHANGED <<same_zone, store, config, open, last, calls, history, missed>>
        /\ crossed' \in BOOLEAN
    BY <1>1, Zenon DEF Midnight, Turn
  <2>3. /\ pc' = pc /\ Busy' = Busy /\ tv' = tv
        /\ \A t \in Threads : pc'[t] # "idle" => tv'[t] \in 1..now'
    BY <2>1, <2>2 DEF Busy
  <2>4. /\ {same_zone', use_file', inited', named', open', reload', crossed'} \subseteq BOOLEAN
        /\ missed' \subseteq Days
    BY <2>2
  <2> QED
    BY <2>1, <2>2, <2>3, <2>4
<1>2. CASE Restart
  <2>1. Busy' = {}
    BY <1>2 DEF Restart, Busy
  <2>2. Cardinality(Busy') = 0
    BY <2>1, FS_EmptySet
  <2>3. {use_file', inited', named', open', reload', crossed'} \subseteq BOOLEAN
    BY <1>2, Zenon DEF Restart
  <2>4. /\ pc' \in [Threads -> {"idle", "check", "shift", "delete", "stamp", "write"}]
        /\ tv' \in [Threads -> Days] /\ tz' \in [Threads -> Days]
        /\ \A t \in Threads : pc'[t] = "idle"
    BY <1>2 DEF Restart, Days
  <2> QED
    BY <1>2, <2>2, <2>3, <2>4 DEF Restart, Days
<1>3. CASE Configure
  BY <1>3 DEF Configure, Busy
<1>4. CASE InitAppender
  <2>1. /\ current' \in Seq(Line) \cup {Absent}
        /\ open' \in BOOLEAN /\ (open' => current' # Absent)
    <3>1. PICK ok \in BOOLEAN : Opens(current, ok)
      BY <1>4, Zenon DEF InitAppender
    <3> QED
      BY <3>1, OpensFile
  <2>2. /\ UNCHANGED <<days, dated, use_file, last, retain, calls, history, missed, crossed>>
        /\ inited' /\ named' \in BOOLEAN /\ reload' = FALSE
    BY <1>4, Zenon DEF InitAppender
  <2> QED
    BY <2>1, <2>2 DEF Busy
<1> QED
  BY <1>1, <1>2, <1>3, <1>4

LEMMA TypeThread ==
  ASSUME TypeInv, NEW t \in Threads, LogStep(t)
  PROVE  TypeInv'
<1> USE LogAssumption DEF TypeInv, TypeOK, Bounded, store, config, history, days, calls, Goes
<1>1. CASE Log(t)
  <2>1. Cardinality(Busy') = Cardinality(Busy) + 1 /\ Cardinality(Busy) \in Nat
    BY <1>1, BusyCount DEF Log
  <2>2. count' + Cardinality(Busy') <= MaxLines
    BY <1>1, <2>1 DEF Log
  <2>3. TypeOK'
    BY <1>1 DEF Log, Days
  <2> QED
    BY <2>2, <2>3
<1>2. CASE Check(t)
  <2>1. Busy' = Busy
    BY <1>2, BusyCount DEF Check
  <2> QED
    BY <1>2, <2>1 DEF Check
<1>3. CASE Shift(t)
  <2>1. Busy' = Busy
    BY <1>3, BusyCount DEF Shift
  <2>2. tv[t] - 1 \in Days
    <3>1. tv[t] \in 1..now /\ now \in 1..MaxDay
      BY <1>3 DEF Shift
    <3> QED
      BY <3>1 DEF Days
  <2> DEFINE Typed ==
         /\ current' \in Seq(Line) \cup {Absent} /\ dated' \in [Days -> Seq(Line) \cup {Absent}]
         /\ missed' \subseteq Days /\ open' \in BOOLEAN /\ (open' => current' # Absent)
  <2>3. Typed
    <3>1. CASE UNCHANGED <<store, open, missed>>
      BY <3>1
    <3>2. ASSUME NEW done \in BOOLEAN, NEW ok \in BOOLEAN, Rename(tv[t] - 1, done),
                 Opens(IF done THEN Absent ELSE current, ok)
          PROVE  Typed
      <4>1. dated' \in [Days -> Seq(Line) \cup {Absent}] /\ missed' \subseteq Days
        BY <2>2, <3>2 DEF Rename
      <4>2. (IF done THEN Absent ELSE current) \in Seq(Line) \cup {Absent}
        OBVIOUS
      <4> QED
        BY <3>2, <4>1, <4>2, OpensFile
    <3>3. \/ UNCHANGED <<store, open, missed>>
          \/ \E done \in BOOLEAN, ok \in BOOLEAN :
                Rename(tv[t] - 1, done) /\ Opens(IF done THEN Absent ELSE current, ok)
      <4>1. ASSUME NEW done \in BOOLEAN, NEW ok \in {TRUE, ~MayFail},
                   Rename(tv[t] - 1, done),
                   Opens(IF done THEN Absent ELSE current, named /\ ok)
            PROVE  \E o \in BOOLEAN :
                      Rename(tv[t] - 1, done) /\ Opens(IF done THEN Absent ELSE current, o)
        <5>1. (named /\ ok) \in BOOLEAN
          OBVIOUS
        <5> QED
          BY <4>1, <5>1
      <4> QED
        BY <1>3, <4>1, Zenon DEF Shift, Yesterday
    <3> HIDE DEF Typed
    <3> QED
      BY <3>1, <3>2, <3>3, Zenon
  <2>4. UNCHANGED <<days, config, last, tv, tz, history, crossed>>
    BY <1>3 DEF Shift
  <2>5. pc' \in [Threads -> {"idle", "check", "shift", "delete", "stamp", "write"}]
        /\ \A u \in Threads : pc'[u] # "idle" => pc[u] # "idle"
    BY <1>3 DEF Shift
  <2> QED
    BY <2>1, <2>3, <2>4, <2>5
<1>4. CASE Delete(t)
  <2>1. Busy' = Busy
    BY <1>4, BusyCount DEF Delete
  <2> DEFINE old == OldFile(tv[t])
  <2>2. dated' \in [Days -> Seq(Line) \cup {Absent}]
    BY <1>4 DEF Delete
  <2>3. deleted' \subseteq [line : Line, before : Int]
    <3>1. tv[t] - retain \in Int
      BY DEF Days
    <3>2. ASSUME old \in Days, dated[old] # Absent
          PROVE  ToSet(dated[old]) \subseteq Line
      <4>1. dated[old] \in Seq(Line)
        BY <3>2
      <4> QED
        BY <4>1 DEF ToSet
    <3> QED
      BY <1>4, <3>1, <3>2 DEF Delete
  <2> QED
    BY <1>4, <2>1, <2>2, <2>3 DEF Delete
<1>5. CASE Stamp(t)
  <2>1. Busy' = Busy
    BY <1>5, BusyCount DEF Stamp
  <2> QED
    BY <1>5, <2>1 DEF Stamp
<1>6. CASE Write(t)
  <2>1. Cardinality(Busy') = Cardinality(Busy) - 1 /\ Cardinality(Busy) \in Nat
    BY <1>6, BusyCount DEF Write
  <2>2. count + 1 <= MaxLines /\ count' + Cardinality(Busy') <= MaxLines
    <3>1. Cardinality(Busy) > 0
      <4>1. t \in Busy /\ IsFiniteSet(Busy)
        BY <1>6, BusyCount DEF Write, Busy
      <4> QED
        BY <4>1, <2>1, FS_EmptySet
    <3> QED
      BY <1>6, <2>1, <3>1 DEF Write
  <2>3. /\ current' \in Seq(Line) \cup {Absent} /\ count' \in 0..MaxLines
        /\ (open => current' # Absent)
    <3>1. [id |-> count + 1, day |-> tv[t]] \in Line
      BY <2>2 DEF Line
    <3>2. open => Append(current, [id |-> count + 1, day |-> tv[t]]) \in Seq(Line)
      BY <3>1, FileLines
    <3>3. count + 1 \in 0..MaxLines
      BY <2>2
    <3>4. CASE open
      BY <1>6, <3>2, <3>3, <3>4, Zenon DEF Write
    <3>5. CASE ~open
      BY <1>6, <3>5, Zenon DEF Write
    <3> QED
      BY <3>4, <3>5
  <2>4. /\ pc' \in [Threads -> {"idle", "check", "shift", "delete", "stamp", "write"}]
        /\ tv' \in [Threads -> Days] /\ tz' \in [Threads -> Days]
        /\ \A u \in Threads : pc'[u] # "idle" => tv'[u] \in 1..now
    BY <1>6 DEF Write, Days
  <2> QED
    BY <1>6, <2>2, <2>3, <2>4 DEF Write
<1> QED
  BY <1>1, <1>2, <1>3, <1>4, <1>5, <1>6 DEF LogStep

LEMMA TypeNext == TypeInv /\ [Next]_vars => TypeInv'
<1> SUFFICES ASSUME TypeInv, [Next]_vars PROVE TypeInv'
  OBVIOUS
<1>1. CASE Midnight \/ Turn \/ Restart \/ Configure \/ InitAppender
  BY <1>1, TypeOthers
<1>2. ASSUME NEW t \in Threads, LogStep(t) PROVE TypeInv'
  BY <1>2, TypeThread
<1>3. CASE UNCHANGED vars
  BY <1>3 DEF vars, store, config, history, days, calls, TypeInv, TypeOK, Bounded, Busy
<1> QED
  BY <1>1, <1>2, <1>3 DEF Next

\* Type correctness of the files and the program: among others, that a shift names a
\* day there is and that a call in progress is not of a day to come.
THEOREM TypeCorrect == Spec => []TypeOK
<1>1. TypeInv => TypeOK
  BY DEF TypeInv
<1> QED
  BY <1>1, TypeInit, TypeNext, PTL DEF Spec

-----------------------------------------------------------------------------
(* Days *)

\* What is in a file: nothing in a new one, one line more after a write.
LEMMA LinesIn ==
  /\ ToSet(<<>>) = {}
  /\ \A f \in Seq(Line), l \in Line : ToSet(Append(f, l)) = ToSet(f) \cup {l}
  /\ \A f \in Seq(Line) : \A l \in ToSet(f) : l \in Line /\ l.day \in Days
<1>1. ToSet(<<>>) = {}
  BY DEF ToSet
<1>2. ASSUME NEW f \in Seq(Line), NEW l \in Line
      PROVE  ToSet(Append(f, l)) = ToSet(f) \cup {l}
  <2>1. /\ DOMAIN Append(f, l) = 1..(Len(f) + 1) /\ DOMAIN f = 1..Len(f) /\ Len(f) \in Nat
        /\ \A i \in 1..Len(f) : Append(f, l)[i] = f[i]
        /\ Append(f, l)[Len(f) + 1] = l
    OBVIOUS
  <2>2. ToSet(Append(f, l)) \subseteq ToSet(f) \cup {l}
    BY <2>1 DEF ToSet
  <2>3. ToSet(f) \subseteq ToSet(Append(f, l))
    BY <2>1 DEF ToSet
  <2>4. l \in ToSet(Append(f, l))
    <3>1. Len(f) + 1 \in DOMAIN Append(f, l)
      BY <2>1
    <3> QED
      BY <2>1, <3>1 DEF ToSet
  <2> QED
    BY <2>2, <2>3, <2>4
<1>3. ASSUME NEW f \in Seq(Line), NEW l \in ToSet(f)
      PROVE  l \in Line /\ l.day \in Days
  <2>1. l \in Line
    BY DEF ToSet
  <2> QED
    BY <2>1 DEF Line
<1> QED
  BY <1>1, <1>2, <1>3

LEMMA DayInit == Init => DayInv
<1> SUFFICES ASSUME Init PROVE DayInv
  OBVIOUS
<1>1. Past /\ Zones /\ Dated = {}
  BY DEF Init, Past, Zones, Dated
<1>2. Quiet
  BY <1>1 DEF Init, Quiet, Calls, Shifting, NotYet, NewDay, Filed, Kept
<1> QED
  BY <1>1, <1>2 DEF DayInv

\* Once a rename to it has failed the file of a day may take more, not less.
LEMMA SlackGrows ==
  ASSUME same_zone' = same_zone, missed \subseteq missed', NEW d
  PROVE  /\ Slack(d) \in 0..1 /\ Slack(d)' \in 0..1 /\ Slack(d) <= Slack(d)'
         /\ missed' = missed => Slack(d)' = Slack(d)
BY DEF Slack

\* What is said of the days needs these variables only.
LEMMA DayFrame ==
  ASSUME DayInv, UNCHANGED <<days, store, last, calls, deleted, missed, crossed>>
  PROVE  DayInv'
<1> USE DEF days, store, calls
<1>1. Past' /\ Zones'
  BY DEF DayInv, Past, Zones
<1>2. Moved' = Moved /\ NewDay' = NewDay
  BY DEF Moved, NewDay
<1>3. \A d : Slack(d)' = Slack(d)
  BY DEF Slack
<1>4. ASSUME ~crossed'
      PROVE  Quiet'
  <2>1. Filed' /\ Kept'
    BY <1>3, <1>4 DEF DayInv, Quiet, Filed, Kept, Dated
  <2>2. Calls' /\ (same_zone => Shifting' /\ NotYet')
    BY <1>2, <1>4 DEF DayInv, Quiet, Calls, Shifting, NotYet
  <2> QED
    BY <2>1, <2>2 DEF Quiet
<1> QED
  BY <1>1, <1>4 DEF DayInv

\* A midnight that finds no call in progress leaves every line of an earlier day.
LEMMA DayMidnight ==
  ASSUME TypeInv, DayInv, Midnight
  PROVE  DayInv'
<1> USE DEF Midnight, store, config, history, calls
<1>1. now \in Int /\ now' = now + 1
      /\ (current # Absent => \A l \in ToSet(current) : l.day \in Int /\ l.day < now')
  BY LinesIn DEF TypeInv, TypeOK, DayInv, Past, Days
<1>2. Past' /\ Zones'
  <2>1. Past'
    BY <1>1 DEF DayInv, Past
  <2>2. ASSUME same_zone' PROVE Zones'
    <3>1. same_zone /\ tested = now /\ \A t \in Threads : tz[t] = tv[t]
      BY <2>2 DEF DayInv, Zones
    <3> QED
      BY <3>1 DEF Zones
  <2> QED
    BY <2>1, <2>2 DEF Zones
<1>3. ASSUME ~crossed'
      PROVE  Quiet'
  <2>1. ~crossed /\ \A t \in Threads : pc[t] \in {"idle", "write"}
    BY <1>3
  <2>2. \A t \in Threads : pc[t] = "write" => tv[t] < now'
    BY <1>1 DEF TypeInv, TypeOK, Days
  <2>3. NotYet'
    BY <1>1, <2>1, <2>2 DEF NotYet
  <2>4. Calls' /\ Shifting'
    BY <2>1 DEF Calls, Shifting
  <2>5. \A d : Slack(d)' = Slack(d)
    BY DEF Slack
  <2>6. Filed' /\ Kept'
    BY <2>1, <2>5 DEF DayInv, Quiet, Filed, Kept, Dated
  <2> QED
    BY <2>3, <2>4, <2>6 DEF Quiet
<1> QED
  BY <1>2, <1>3 DEF DayInv

\* Where the test has a midnight of its own nothing is said of it.
LEMMA DayTurn ==
  ASSUME DayInv, Turn
  PROVE  DayInv'
<1> USE DEF Turn, store, history, calls
<1>1. Past' /\ Zones' /\ ~same_zone
  BY DEF DayInv, Past, Zones
<1>2. \A d : Slack(d)' = Slack(d)
  BY DEF Slack
<1>3. ASSUME ~crossed'
      PROVE  Quiet'
  <2>1. Calls' /\ Filed' /\ Kept'
    BY <1>2, <1>3 DEF DayInv, Quiet, Calls, Filed, Kept, Dated
  <2> QED
    BY <1>1, <2>1 DEF Quiet
<1> QED
  BY <1>1, <1>3 DEF DayInv

\* A program that has just started knows no day.
LEMMA DayRestart ==
  ASSUME TypeInv, DayInv, Restart
  PROVE  DayInv'
<1> USE DEF Restart, store, days
<1>1. Past' /\ Zones'
  BY DEF DayInv, Past, Zones
<1>2. ~NewDay' /\ \A t \in Threads : pc'[t] = "idle"
  BY DEF NewDay
<1>3. \A d : Slack(d)' = Slack(d)
  BY DEF Slack
<1>4. ASSUME ~crossed'
      PROVE  Quiet'
  <2>1. Calls' /\ Shifting' /\ NotYet'
    BY <1>2 DEF Calls, Shifting, NotYet
  <2>2. Filed' /\ Kept'
    BY <1>3, <1>4 DEF DayInv, Quiet, Filed, Kept, Dated
  <2> QED
    BY <2>1, <2>2 DEF Quiet
<1> QED
  BY <1>1, <1>4 DEF DayInv

\* A file that is opened has the lines it had, or none.
LEMMA OpensLines ==
  ASSUME NEW file, NEW ok, Opens(file, ok), current' # Absent
  PROVE  ToSet(current') = {} \/ (file # Absent /\ current' = file)
<1>1. CASE ok /\ file = Absent
  BY <1>1, LinesIn DEF Opens
<1>2. CASE ~(ok /\ file = Absent)
  BY <1>2 DEF Opens
<1> QED
  BY <1>1, <1>2

\* Opening the file brings no line into it.
LEMMA DayInitAppender ==
  ASSUME TypeInv, DayInv, InitAppender
  PROVE  DayInv'
<1> USE DEF InitAppender, history, days, calls
<1>1. ASSUME current' # Absent
      PROVE  ToSet(current') = {} \/ (current # Absent /\ current' = current)
  BY <1>1, OpensLines
<1>2. Past' /\ Zones'
  BY <1>1 DEF DayInv, Past, Zones
<1>3. Moved' = Moved /\ NewDay' = NewDay
  BY DEF Moved, NewDay
<1>4. \A d : Slack(d)' = Slack(d)
  BY DEF Slack
<1>5. ASSUME ~crossed'
      PROVE  Quiet'
  <2>1. Filed' /\ Kept'
    BY <1>4, <1>5 DEF DayInv, Quiet, Filed, Kept, Dated
  <2>2. Calls' /\ (same_zone => Shifting')
    BY <1>3, <1>5 DEF DayInv, Quiet, Calls, Shifting
  <2>3. same_zone => NotYet'
    BY <1>1, <1>3, <1>5 DEF DayInv, Quiet, NotYet
  <2> QED
    BY <2>1, <2>2, <2>3 DEF Quiet
<1> QED
  BY <1>2, <1>5 DEF DayInv

\* A call begins today.
LEMMA DayLog ==
  ASSUME TypeInv, DayInv, NEW t \in Threads, Log(t)
  PROVE  DayInv'
<1> USE DEF Log, Goes, store, config, history, days, TypeInv, TypeOK
<1>1. Past' /\ Zones'
  BY DEF DayInv, Past, Zones
<1>2. \A d : Slack(d)' = Slack(d)
  BY DEF Slack
<1>3. ASSUME ~crossed'
      PROVE  Quiet'
  <2>1. Moved' = Moved /\ NewDay' = NewDay
    BY DEF Moved, NewDay
  <2>2. Calls' /\ (same_zone => Shifting' /\ NotYet')
    BY <1>3, <2>1 DEF DayInv, Quiet, Calls, Shifting, NotYet
  <2>3. Filed' /\ Kept'
    BY <1>2, <1>3 DEF DayInv, Quiet, Filed, Kept, Dated
  <2> QED
    BY <2>2, <2>3 DEF Quiet
<1> QED
  BY <1>1, <1>3 DEF DayInv

\* A call goes on to shift only when the stamp is of an earlier day.
LEMMA DayCheck ==
  ASSUME TypeInv, DayInv, NEW t \in Threads, Check(t)
  PROVE  DayInv'
<1> USE DEF Check, Goes, store, config, history, days, TypeInv, TypeOK
<1>1. Past' /\ Zones'
  BY DEF DayInv, Past, Zones
<1>2. \A d : Slack(d)' = Slack(d)
  BY DEF Slack
<1>3. ASSUME ~crossed'
      PROVE  Quiet'
  <2>1. Moved' = Moved /\ NewDay' = NewDay
    BY DEF Moved, NewDay
  <2>2. tv[t] = now /\ (same_zone => pc'[t] = IF NewDay THEN "shift" ELSE "stamp")
    BY <1>3 DEF DayInv, Quiet, Calls, NewDay, Zones
  <2>3. Calls'
    BY <1>3 DEF DayInv, Quiet, Calls
  <2>4. same_zone => Shifting' /\ NotYet'
    BY <1>3, <2>1, <2>2 DEF DayInv, Quiet, Shifting, NotYet
  <2>5. Filed' /\ Kept'
    BY <1>2, <1>3 DEF DayInv, Quiet, Filed, Kept, Dated
  <2> QED
    BY <2>3, <2>4, <2>5 DEF Quiet
<1> QED
  BY <1>1, <1>3 DEF DayInv

\* A rename takes the lines of earlier days to the file of yesterday, and no other,
\* unless one to that file has failed before, or the days differ.
LEMMA DayRename ==
  ASSUME TypeInv, DayInv, ~crossed, tv' = tv, now' = now, same_zone' = same_zone,
         deleted' = deleted, NEW t \in Threads, pc[t] = "shift", dated[now - 1] = Absent,
         NEW done \in BOOLEAN, Rename(now - 1, done)
  PROVE  Moved' /\ Filed' /\ Kept'
<1>1. now \in Int /\ now - 1 \in Days
  BY LogAssumption DEF TypeInv, TypeOK, Days
<1>2. missed \subseteq missed'
  BY DEF Rename
<1>3. \A d : Slack(d) \in 0..1 /\ Slack(d)' \in 0..1 /\ Slack(d) <= Slack(d)'
  BY <1>2, SlackGrows
<1>4. Kept'
  <2>1. \A x \in deleted : x.line.day \in Int /\ x.before \in Int
    BY DEF TypeInv, TypeOK, Line, Days
  <2> QED
    BY <1>3, <2>1 DEF DayInv, Quiet, Kept
<1>5. ASSUME NEW d \in Dated
      PROVE  d \in Int /\ \A l \in ToSet(dated[d]) : l.day \in Int
  <2>1. d \in Days /\ d \in Int /\ dated[d] \in Seq(Line)
    BY <1>5 DEF Dated, TypeInv, TypeOK, Days
  <2> QED
    BY <2>1, LinesIn DEF Days
<1>6. CASE ~done
  <2>1. dated' = dated /\ now - 1 \in missed'
    BY <1>6 DEF Rename
  <2>2. Filed'
    BY <1>3, <1>5, <2>1 DEF DayInv, Quiet, Filed, Dated
  <2> QED
    BY <1>4, <2>1, <2>2 DEF Moved
<1>7. CASE done
  <2>1. /\ dated' = [dated EXCEPT ![now - 1] = current] /\ current # Absent
        /\ missed' = missed
    BY <1>7 DEF Rename
  <2>2. /\ dated'[now - 1] = current
        /\ \A d \in Days \ {now - 1} : dated'[d] = dated[d]
    BY <1>1, <2>1 DEF TypeInv, TypeOK
  <2>3. \A l \in ToSet(current) : l.day \in Int /\ l.day <= now
    BY <2>1, LinesIn DEF DayInv, Past, TypeInv, TypeOK, Days
  <2>4. \A l \in ToSet(current) : l.day <= (now - 1) + Slack(now - 1)
    <3>1. CASE Moved \/ ~same_zone
      <4>1. Slack(now - 1) = 1
        BY <3>1 DEF Slack, Moved
      <4> QED
        BY <1>1, <2>3, <4>1
    <3>2. CASE ~Moved /\ same_zone
      <4>1. \A l \in ToSet(current) : l.day < now
        BY <2>1, <3>2 DEF DayInv, Quiet, Shifting, NotYet
      <4>2. Slack(now - 1) \in 0..1
        BY <1>3
      <4> QED
        BY <1>1, <2>3, <4>1, <4>2
    <3> QED
      BY <3>1, <3>2
  <2>5. \A d : Slack(d)' = Slack(d)
    BY <2>1 DEF Slack
  <2>6. Filed'
    BY <2>2, <2>4, <2>5 DEF DayInv, Quiet, Filed, Dated
  <2> QED
    BY <1>4, <2>1, <2>2, <2>6 DEF Moved
<1> QED
  BY <1>6, <1>7

LEMMA DayShift ==
  ASSUME TypeInv, DayInv, NEW t \in Threads, Shift(t)
  PROVE  DayInv'
<1>1. /\ UNCHANGED <<now, tested, same_zone, last, tv, tz, deleted, crossed>>
      /\ pc[t] = "shift" /\ pc'[t] = "delete"
      /\ \A u \in Threads : u # t => pc'[u] = pc[u]
  BY DEF Shift, Yesterday, Goes, days, history, TypeInv, TypeOK
<1>2. ASSUME current' # Absent
      PROVE  ToSet(current') = {} \/ (current # Absent /\ current' = current)
  BY <1>2, OpensLines DEF Shift, store
<1>3. Past' /\ Zones'
  BY <1>1, <1>2 DEF DayInv, Past, Zones
<1>4. ASSUME ~crossed'
      PROVE  Quiet'
  <2>1. tv[t] = now
    BY <1>1, <1>4 DEF DayInv, Quiet, Calls
  <2>2. Moved' /\ Filed' /\ Kept'
    <3>1. CASE dated[now - 1] # Absent
      <4>1. UNCHANGED <<store, missed>>
        BY <2>1, <3>1 DEF Shift, Yesterday
      <4>2. \A d : Slack(d)' = Slack(d)
        BY <1>1, <4>1 DEF Slack
      <4>3. Filed' /\ Kept'
        BY <1>1, <1>4, <4>1, <4>2 DEF DayInv, Quiet, Filed, Kept, Dated, store
      <4> QED
        BY <1>1, <3>1, <4>1, <4>3 DEF Moved, store
    <3>2. CASE dated[now - 1] = Absent
      <4>1. PICK done \in BOOLEAN : Rename(now - 1, done)
        BY <2>1, <3>2 DEF Shift, Yesterday
      <4> QED
        BY <1>1, <1>4, <3>2, <4>1, DayRename
    <3> QED
      BY <3>1, <3>2
  <2>3. Calls'
    BY <1>1, <1>4 DEF DayInv, Quiet, Calls
  <2> QED
    BY <2>2, <2>3 DEF Quiet, Shifting, NotYet
<1> QED
  BY <1>3, <1>4 DEF DayInv

\* The file deleted is of a day before yesterday, and of one before those to keep.
LEMMA DayDelete ==
  ASSUME TypeInv, DayInv, NEW t \in Threads, Delete(t)
  PROVE  DayInv'
<1> USE DEF Delete, Goes, config, days
<1>1. Past' /\ Zones'
  BY DEF DayInv, Past, Zones
<1>2. \A d : Slack(d)' = Slack(d) /\ Slack(d) \in 0..1
  BY DEF Slack
<1>3. ASSUME ~crossed'
      PROVE  Quiet'
  <2> DEFINE old == OldFile(tv[t])
  <2>1. tv[t] = now /\ now \in Int /\ retain \in Nat
    BY <1>3, LogAssumption DEF DayInv, Quiet, Calls, TypeInv, TypeOK
  <2>2. CASE dated' = dated /\ deleted' = deleted
    <3>1. Moved' = Moved /\ NewDay' = NewDay
      BY <2>2 DEF Moved, NewDay
    <3>2. Calls' /\ (same_zone => Shifting' /\ NotYet')
      BY <1>3, <3>1 DEF DayInv, Quiet, Calls, Shifting, NotYet, TypeInv, TypeOK
    <3>3. Filed' /\ Kept'
      BY <1>2, <1>3, <2>2 DEF DayInv, Quiet, Filed, Kept, Dated
    <3> QED
      BY <3>2, <3>3 DEF Quiet
  <2>3. CASE /\ retain > 0 /\ old \in Days /\ dated[old] # Absent
             /\ dated' = [dated EXCEPT ![old] = Absent]
             /\ deleted' = deleted \cup
                  {[line |-> l, before |-> tv[t] - retain] : l \in ToSet(dated[old])}
    <3>1. old = now - retain - 1
      BY <2>1, <2>3 DEF OldFile, Days
    <3>2. old # now - 1 /\ old < now - retain
      BY <2>1, <2>3, <3>1
    <3>3. dated'[now - 1] = dated[now - 1] /\ Dated' \subseteq Dated
          /\ \A d \in Dated' : dated'[d] = dated[d]
      BY <2>1, <2>3, <3>2 DEF TypeInv, TypeOK, Dated, Days
    <3>4. Moved' = Moved /\ NewDay' = NewDay
      BY <3>3 DEF Moved, NewDay
    <3>5. Calls' /\ (same_zone => Shifting' /\ NotYet')
      BY <1>3, <3>4 DEF DayInv, Quiet, Calls, Shifting, NotYet, TypeInv, TypeOK
    <3>6. Filed'
      BY <1>2, <1>3, <3>3 DEF DayInv, Quiet, Filed
    <3>7. Kept'
      <4>1. \A l \in ToSet(dated[old]) : l.day \in Int /\ l.day <= old + Slack(old)
        BY <1>3, <2>3, LinesIn DEF DayInv, Quiet, Filed, Dated, TypeInv, TypeOK, Days
      <4>2. old = (tv[t] - retain) - 1
        BY <2>1, <3>1
      <4>3. \A l \in ToSet(dated[old]) :
               l.day < (tv[t] - retain) + Slack((tv[t] - retain) - 1)
        BY <1>2, <2>1, <4>1, <4>2
      <4> HIDE DEF old
      <4>4. \A x \in deleted' \ deleted :
               x.line.day < x.before + Slack(x.before - 1)
        BY <2>3, <4>3
      <4> QED
        BY <1>2, <1>3, <4>4 DEF DayInv, Quiet, Kept
    <3> QED
      BY <3>5, <3>6, <3>7 DEF Quiet
  <2> QED
    BY <2>2, <2>3
<1> QED
  BY <1>1, <1>3 DEF DayInv

\* Today is stamped when the file has been renamed, or nobody has to rename it.
LEMMA DayStamp ==
  ASSUME TypeInv, DayInv, NEW t \in Threads, Stamp(t)
  PROVE  DayInv'
<1> USE DEF Stamp, Goes, store, config, history, days
<1>1. Past' /\ Zones'
  BY DEF DayInv, Past, Zones
<1>2. \A d : Slack(d)' = Slack(d)
  BY DEF Slack
<1>3. ASSUME ~crossed'
      PROVE  Quiet'
  <2>1. Moved' = Moved /\ (same_zone => ~NewDay')
    BY <1>3 DEF DayInv, Quiet, Calls, NewDay, Moved, Zones
  <2>2. same_zone => Shifting'
    <3>1. same_zone => ~(~Moved /\ NewDay)
      BY <1>3 DEF DayInv, Quiet, NotYet
    <3> QED
      BY <1>3, <2>1, <3>1 DEF DayInv, Quiet, Shifting, TypeInv, TypeOK
  <2>3. Calls' /\ (same_zone => NotYet')
    BY <1>3, <2>1 DEF DayInv, Quiet, Calls, NotYet, TypeInv, TypeOK
  <2>4. Filed' /\ Kept'
    BY <1>2, <1>3 DEF DayInv, Quiet, Filed, Kept, Dated
  <2> QED
    BY <2>2, <2>3, <2>4 DEF Quiet
<1> QED
  BY <1>1, <1>3 DEF DayInv

\* The line written is of today, unless the file is still to be renamed.
LEMMA DayWrite ==
  ASSUME TypeInv, DayInv, NEW t \in Threads, Write(t)
  PROVE  DayInv'
<1> USE DEF Write, Goes, config, days
<1> DEFINE line == [id |-> count + 1, day |-> tv[t]]
<1>1. line \in Line /\ line.day = tv[t] /\ tv[t] <= now
  <2>1. count + 1 \in 1..MaxLines
    <3>1. IsFiniteSet(Busy) /\ Cardinality(Busy) \in Nat /\ t \in Busy
      BY BusyCount DEF TypeInv, Busy
    <3>2. Cardinality(Busy) # 0
      BY <3>1, FS_EmptySet
    <3> QED
      BY <3>1, <3>2, LogAssumption DEF TypeInv, TypeOK, Bounded
  <2> QED
    BY <2>1 DEF Line, TypeInv, TypeOK
<1>2. ASSUME current' # Absent
      PROVE  current # Absent /\ ToSet(current') \subseteq ToSet(current) \cup {line}
  <2>1. CASE open
    BY <1>1, <2>1, LinesIn DEF TypeInv, TypeOK
  <2>2. CASE ~open
    BY <1>2, <2>2
  <2> QED
    BY <2>1, <2>2 DEF TypeInv, TypeOK
<1>3. Past' /\ Zones'
  BY <1>1, <1>2 DEF DayInv, Past, Zones, TypeInv, TypeOK
<1>4. \A d : Slack(d)' = Slack(d)
  BY DEF Slack
<1>5. ASSUME ~crossed'
      PROVE  Quiet'
  <2>1. Moved' = Moved /\ NewDay' = NewDay
    BY DEF Moved, NewDay
  <2>2. same_zone => NotYet'
    BY <1>1, <1>2, <1>5, <2>1 DEF DayInv, Quiet, NotYet, TypeInv, TypeOK
  <2>3. Calls' /\ (same_zone => Shifting')
    BY <1>5, <2>1 DEF DayInv, Quiet, Calls, Shifting, TypeInv, TypeOK
  <2>4. Filed' /\ Kept'
    BY <1>4, <1>5 DEF DayInv, Quiet, Filed, Kept, Dated
  <2> QED
    BY <2>2, <2>3, <2>4 DEF Quiet
<1> QED
  BY <1>3, <1>5 DEF DayInv

LEMMA DayNext == TypeInv /\ DayInv /\ [Next]_vars => DayInv'
<1> SUFFICES ASSUME TypeInv, DayInv, [Next]_vars PROVE DayInv'
  OBVIOUS
<1>1. CASE Midnight \/ Turn \/ Restart \/ InitAppender
  BY <1>1, DayMidnight, DayTurn, DayRestart, DayInitAppender
<1>2. ASSUME NEW t \in Threads, LogStep(t) PROVE DayInv'
  BY <1>2, DayLog, DayCheck, DayShift, DayDelete, DayStamp, DayWrite DEF LogStep
<1>3. CASE Configure \/ UNCHANGED vars
  BY <1>3, DayFrame DEF Configure, vars, history
<1> QED
  BY <1>1, <1>2, <1>3 DEF Next

\* The file of a day has no line of a later one, unless midnight came in the middle of
\* a call: a thread renames the file only while it has no line of today in it. Where a
\* rename to that file has failed, or the days differ, it has none of the day after next.
THEOREM FiledByDay == Spec => []NamedByDay
<1>1. TypeInv /\ DayInv => NamedByDay
  BY DEF DayInv, Quiet, Filed, NamedByDay
<1> QED
  BY <1>1, TypeInit, TypeNext, DayInit, DayNext, PTL DEF Spec

\* With the same exceptions, what delete_old_log removes is older than the days asked
\* for, also when the settings change and the program restarts.
THEOREM KeptLongEnough == Spec => []Retained
<1>1. TypeInv /\ DayInv => Retained
  BY DEF DayInv, Quiet, Kept, Retained
<1> QED
  BY <1>1, TypeInit, TypeNext, DayInit, DayNext, PTL DEF Spec

-----------------------------------------------------------------------------
(* No line is lost *)

\* Line n is in file d at i, or in a file that was deleted.
HeldAt(d, i, n) == d \in Files /\ i \in DOMAIN File(d) /\ File(d)[i].id = n
Gone(n) == \E x \in deleted : x.line.id = n

\* NothingLost, place by place.
Once ==
    /\ \A n : n \in 1..count <=> (\E d, i : HeldAt(d, i, n)) \/ Gone(n)
    /\ \A d, e, i, j, n : HeldAt(d, i, n) /\ HeldAt(e, j, n) => d = e /\ i = j
    /\ \A x, y \in deleted : x.line.id = y.line.id => x = y
    /\ \A d, i, n : HeldAt(d, i, n) => ~Gone(n)

LEMMA OnceIsNothingLost == Once => NothingLost
<1> SUFFICES ASSUME Once PROVE NothingLost
  OBVIOUS
<1>1. \A d, i : <<d, i>> \in Places <=> d \in Files /\ i \in DOMAIN File(d)
  BY DEF Places
<1>2. \A p \in Places : p = <<p[1], p[2]>>
  BY DEF Places
<1>3. \A p \in Places : HeldAt(p[1], p[2], IdAt(p))
  BY <1>1, <1>2 DEF HeldAt, IdAt
<1>4. \A d, i, n : HeldAt(d, i, n) => <<d, i>> \in Places /\ IdAt(<<d, i>>) = n
  BY <1>1 DEF HeldAt, IdAt
<1>5. {IdAt(p) : p \in Places} \cup {x.line.id : x \in deleted} = 1..count
  <2>1. ASSUME NEW n
        PROVE  n \in {IdAt(p) : p \in Places} <=> \E d, i : HeldAt(d, i, n)
    <3>1. ASSUME NEW p \in Places, n = IdAt(p) PROVE \E d, i : HeldAt(d, i, n)
      BY <1>3, <3>1
    <3>2. ASSUME NEW d, NEW i, HeldAt(d, i, n) PROVE \E p \in Places : n = IdAt(p)
      BY <1>4, <3>2
    <3> QED
      BY <3>1, <3>2
  <2>2. \A n : n \in {x.line.id : x \in deleted} <=> Gone(n)
    BY DEF Gone
  <2> QED
    BY <2>1, <2>2 DEF Once
<1>6. \A p, q \in Places : IdAt(p) = IdAt(q) => p = q
  BY <1>2, <1>3 DEF Once
<1>7. \A p \in Places : \A x \in deleted : IdAt(p) # x.line.id
  BY <1>3 DEF Once, Gone
<1> QED
  BY <1>5, <1>6, <1>7 DEF Once, NothingLost

\* A file that is opened holds what it held.
LEMMA OpensHeld ==
  ASSUME NEW file \in Seq(Line) \cup {Absent}, NEW ok, Opens(file, ok)
  PROVE  \A i, n : HeldAt(Today, i, n)' <=> file # Absent /\ i \in DOMAIN file /\ file[i].id = n
<1>1. <<>> # Absent /\ DOMAIN <<>> = {}
  <2>1. <<>> \in Seq(Line) /\ DOMAIN <<>> = {}
    BY FileLines
  <2>2. <<>> # Absent
    BY <2>1, LogAssumption
  <2> QED
    BY <2>1, <2>2
<1>2. CASE ok /\ file = Absent
  BY <1>1, <1>2 DEF Opens, HeldAt, Files, File
<1>3. CASE ~(ok /\ file = Absent)
  BY <1>3 DEF Opens, HeldAt, Files, File
<1> QED
  BY <1>2, <1>3

\* What is held in the other files changes with the table of files.
LEMMA HeldFrame ==
  ASSUME UNCHANGED <<dated, deleted, count>>, Once,
         \A i, n : HeldAt(Today, i, n)' <=> HeldAt(Today, i, n)
  PROVE  Once'
<1>1. \A d, i, n : HeldAt(d, i, n)' <=> HeldAt(d, i, n)
  BY DEF HeldAt, Files, File
<1>2. \A n : Gone(n)' <=> Gone(n)
  BY DEF Gone
<1> QED
  BY <1>1, <1>2 DEF Once

LEMMA OnceInitAppender ==
  ASSUME TypeOK, Once, InitAppender
  PROVE  Once'
<1>1. \A i, n : HeldAt(Today, i, n) <=> current # Absent /\ i \in DOMAIN current /\ current[i].id = n
  BY DEF HeldAt, Files, File
<1>2. PICK ok : Opens(current, ok)
  BY DEF InitAppender
<1>3. \A i, n : HeldAt(Today, i, n)' <=> HeldAt(Today, i, n)
  BY <1>1, <1>2, OpensHeld DEF TypeOK
<1> QED
  BY <1>3, HeldFrame DEF InitAppender, history

\* The current file takes a name no file has, or keeps its own.
LEMMA OnceShift ==
  ASSUME TypeOK, Once, NEW t \in Threads, Shift(t)
  PROVE  Once'
<1>1. deleted' = deleted /\ count' = count
  BY DEF Shift, history
<1>2. \A i, n : HeldAt(Today, i, n) <=> current # Absent /\ i \in DOMAIN current /\ current[i].id = n
  BY DEF HeldAt, Files, File
<1>3. CASE UNCHANGED store
  BY <1>1, <1>3 DEF Once, HeldAt, Gone, Files, File, store
<1>4. ASSUME dated' = dated, NEW ok, Opens(current, ok)
      PROVE  Once'
  <2>1. \A i, n : HeldAt(Today, i, n)' <=> HeldAt(Today, i, n)
    BY <1>2, <1>4, OpensHeld DEF TypeOK
  <2> QED
    BY <1>1, <1>4, <2>1, HeldFrame
<1>5. ASSUME dated[tv[t] - 1] = Absent, current # Absent,
             dated' = [dated EXCEPT ![tv[t] - 1] = current],
             NEW ok, Opens(Absent, ok)
      PROVE  Once'
  <2> SUFFICES ASSUME NEW y, y = tv[t] - 1 PROVE Once'
    OBVIOUS
  <2>1. y \in Days /\ y # Today /\ Today \notin Days
    <3>1. tv[t] \in 1..now /\ now \in 1..MaxDay
      BY DEF TypeOK, Shift, Goes
    <3> QED
      BY <3>1, LogAssumption DEF Days, Today
  <2>2. /\ dated[y] = Absent /\ dated'[y] = current
        /\ \A d \in Days : d # y => dated'[d] = dated[d]
    BY <1>5, <2>1 DEF TypeOK
  <2>3. \A i, n : ~HeldAt(Today, i, n)'
    BY <1>5, OpensHeld
  <2>4. \A i, n : HeldAt(y, i, n)' <=> HeldAt(Today, i, n)
    BY <1>2, <1>5, <2>1, <2>2 DEF HeldAt, Files, File
  <2>5. \A d, i, n : d \notin {y, Today} => (HeldAt(d, i, n)' <=> HeldAt(d, i, n))
    BY <2>2 DEF HeldAt, Files, File
  <2>6. \A i, n : ~HeldAt(y, i, n)
    BY <2>1, <2>2 DEF HeldAt, Files, File
  <2>7. \A n : Gone(n)' <=> Gone(n)
    BY <1>1 DEF Gone
  <2>8. \A n : (\E d, i : HeldAt(d, i, n)') <=> \E d, i : HeldAt(d, i, n)
    BY <2>3, <2>4, <2>5, <2>6
  <2>9. \A d, e, i, j, n : HeldAt(d, i, n)' /\ HeldAt(e, j, n)' => d = e /\ i = j
    BY <2>1, <2>3, <2>4, <2>5 DEF Once
  <2>10. \A d, i, n : HeldAt(d, i, n)' => ~Gone(n)'
    BY <2>3, <2>4, <2>5, <2>7 DEF Once
  <2> QED
    BY <1>1, <2>7, <2>8, <2>9, <2>10 DEF Once
<1>6. ASSUME NEW done \in BOOLEAN, NEW ok, dated[tv[t] - 1] = Absent,
             Rename(tv[t] - 1, done), Opens(IF done THEN Absent ELSE current, ok)
      PROVE  Once'
  <2>1. CASE done
    BY <1>5, <1>6, <2>1 DEF Rename
  <2>2. CASE ~done
    BY <1>4, <1>6, <2>2 DEF Rename
  <2> QED
    BY <2>1, <2>2
<1> QED
  BY <1>3, <1>6 DEF Shift, Yesterday

\* The lines of a deleted file are gone.
LEMMA OnceDelete ==
  ASSUME TypeOK, Once, NEW t \in Threads, Delete(t)
  PROVE  Once'
<1>1. current' = current /\ count' = count
  BY DEF Delete
<1>2. CASE UNCHANGED <<dated, deleted>>
  BY <1>1, <1>2 DEF Once, HeldAt, Gone, Files, File
<1>3. ASSUME NEW y \in Days, dated[y] # Absent, dated' = [dated EXCEPT ![y] = Absent],
             NEW b, deleted' = deleted \cup {[line |-> l, before |-> b] : l \in ToSet(dated[y])}
      PROVE  Once'
  <2>1. y # Today /\ y \in Files
    BY <1>3 DEF Days, Today, Files, File
  <2>2. dated'[y] = Absent /\ \A d \in Days : d # y => dated'[d] = dated[d]
    BY <1>3 DEF TypeOK
  <2>3. y \notin Files' /\ \A d : d # y => (d \in Files' <=> d \in Files)
    BY <1>1, <2>1, <2>2 DEF Files, File
  <2>4. \A d, i, n : HeldAt(d, i, n)' <=> d # y /\ HeldAt(d, i, n)
    BY <1>1, <2>1, <2>2, <2>3 DEF HeldAt, File, Files
  <2>5. \A l : l \in ToSet(dated[y]) <=> \E i \in DOMAIN dated[y] : l = dated[y][i]
    BY DEF ToSet
  <2>6. \A i, n : HeldAt(y, i, n) <=> i \in DOMAIN dated[y] /\ dated[y][i].id = n
    BY <2>1 DEF HeldAt, File
  <2>7. \A n : Gone(n)' <=> Gone(n) \/ \E i : HeldAt(y, i, n)
    <3>1. \A x : x \in deleted' <=> x \in deleted
             \/ \E i \in DOMAIN dated[y] : x = [line |-> dated[y][i], before |-> b]
      BY <1>3, <2>5
    <3>2. \A n : Gone(n)' <=> Gone(n)
             \/ \E i \in DOMAIN dated[y] : [line |-> dated[y][i], before |-> b].line.id = n
      BY <3>1 DEF Gone
    <3> QED
      BY <2>6, <3>2
  <2>8. \A x, z \in deleted' : x.line.id = z.line.id => x = z
    <3>1. \A x \in deleted' \ deleted : \E i \in DOMAIN dated[y] :
             x = [line |-> dated[y][i], before |-> b] /\ HeldAt(y, i, x.line.id)
      BY <1>3, <2>5, <2>6
    <3>2. \A x \in deleted : Gone(x.line.id)
      BY DEF Gone
    <3>3. ASSUME NEW x \in deleted' \ deleted, NEW z \in deleted'\ deleted,
                 x.line.id = z.line.id
          PROVE  x = z
      BY <3>1, <3>3 DEF Once
    <3>4. ASSUME NEW x \in deleted' \ deleted, NEW z \in deleted PROVE x.line.id # z.line.id
      BY <3>1, <3>2 DEF Once
    <3> QED
      BY <3>3, <3>4 DEF Once
  <2>9. \A n : (\E d, i : HeldAt(d, i, n)) <=> (\E d, i : HeldAt(d, i, n)') \/ \E i : HeldAt(y, i, n)
    BY <2>4
  <2>10. \A d, i, n : HeldAt(d, i, n)' => ~Gone(n)'
    BY <2>4, <2>7 DEF Once
  <2>11. \A d, e, i, j, n : HeldAt(d, i, n)' /\ HeldAt(e, j, n)' => d = e /\ i = j
    BY <2>4 DEF Once
  <2>12. \A n : n \in 1..count' <=> (\E d, i : HeldAt(d, i, n)') \/ Gone(n)'
    BY <1>1, <2>7, <2>9 DEF Once
  <2> QED
    BY <2>8, <2>10, <2>11, <2>12 DEF Once
<1> QED
  BY <1>2, <1>3 DEF Delete

\* A line that is written is a new one.
LEMMA OnceWrite ==
  ASSUME TypeOK, Bounded, Once, NEW t \in Threads, Write(t)
  PROVE  Once'
<1>1. dated' = dated /\ deleted' = deleted
  BY DEF Write
<1>2. CASE UNCHANGED <<current, count>>
  BY <1>1, <1>2 DEF Once, HeldAt, Gone, Files, File
<1>3. ASSUME current \in Seq(Line), current' = Append(current, [id |-> count + 1, day |-> tv[t]]), count' = count + 1
      PROVE  Once'
  <2>1. /\ \A i \in DOMAIN current : i \in DOMAIN current' /\ current'[i] = current[i]
        /\ \A i \in DOMAIN current' : i \in DOMAIN current \/ i = Len(current) + 1
        /\ Len(current) + 1 \in DOMAIN current' /\ current'[Len(current) + 1].id = count + 1
        /\ Len(current) + 1 \notin DOMAIN current
    BY <1>3 DEF TypeOK
  <2>1a. current # Absent /\ current' # Absent
    <3>1. count + 1 \in 1..MaxLines
      <4>1. IsFiniteSet(Busy) /\ Cardinality(Busy) \in Nat /\ t \in Busy
        BY BusyCount DEF Busy, Write, Goes
      <4>2. Cardinality(Busy) # 0
        BY <4>1, FS_EmptySet
      <4> QED
        BY <4>1, <4>2, LogAssumption DEF TypeOK, Bounded
    <3>2. [id |-> count + 1, day |-> tv[t]] \in Line
      BY <3>1 DEF Line, TypeOK
    <3>3. current' \in Seq(Line)
      BY <1>3, <3>2, FileLines
    <3> QED
      BY <1>3, <3>3, LogAssumption
  <2>2. \A d, i, n : HeldAt(d, i, n)' <=>
           HeldAt(d, i, n) \/ (d = Today /\ i = Len(current) + 1 /\ n = count + 1)
    BY <1>1, <2>1, <2>1a DEF HeldAt, File, Files
  <2>3. \A n : Gone(n)' <=> Gone(n)
    BY <1>1 DEF Gone
  <2>4. count \in Nat /\ count + 1 \notin 1..count
    BY DEF TypeOK
  <2>5. \A n : n \in 1..count' <=> n \in 1..count \/ n = count + 1
    BY <1>3, <2>4
  <2>6. ~Gone(count + 1) /\ \A d, i : ~HeldAt(d, i, count + 1)
    BY <2>4 DEF Once
  <2>7. \A n : (\E d, i : HeldAt(d, i, n)') <=> (\E d, i : HeldAt(d, i, n)) \/ n = count + 1
    BY <2>2
  <2> QED
    BY <1>1, <2>2, <2>3, <2>5, <2>6, <2>7 DEF Once
<1>4. open => current \in Seq(Line)
  BY DEF TypeOK
<1> QED
  BY <1>2, <1>3, <1>4 DEF Write

\* Every line written is in one place of one file or was deleted with the file it was in:
\* no rename takes the place of a file, whatever the threads, the midnights and the
\* restarts in between.
THEOREM NoLineLost == Spec => []NothingLost
<1>1. Init => Once
  <2> SUFFICES ASSUME Init PROVE Once
    OBVIOUS
  <2>1. \A d, i, n : ~HeldAt(d, i, n)
    BY DEF Init, HeldAt, Files, File
  <2>2. \A n : ~Gone(n) /\ n \notin 1..count
    BY DEF Init, Gone
  <2> QED
    BY <2>1, <2>2 DEF Once, Init
<1>2. TypeInv /\ Once /\ [Next]_vars => Once'
  <2> SUFFICES ASSUME TypeOK, Bounded, Once, [Next]_vars PROVE Once'
    BY DEF TypeInv
  <2>1. CASE UNCHANGED <<current, dated, deleted, count>>
    BY <2>1 DEF Once, HeldAt, Gone, Files, File
  <2>2. \/ UNCHANGED <<current, dated, deleted, count>>
        \/ InitAppender
        \/ \E t \in Threads : Shift(t) \/ Delete(t) \/ Write(t)
    BY DEF Next, Midnight, Turn, Restart, Configure, LogStep, Log, Check, Stamp,
           vars, store, history
  <2> QED
    BY <2>1, <2>2, OnceInitAppender, OnceShift, OnceDelete, OnceWrite
<1> QED
  BY <1>1, <1>2, OnceIsNothingLost, TypeInit, TypeNext, PTL DEF Spec

=============================================================================
