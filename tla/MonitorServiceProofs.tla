------------------------ MODULE MonitorServiceProofs ------------------------
(***************************************************************************)
(* Proofs about MonitorService for every calendar, every choice of alarms  *)
(* and intervals and every limit of the log: the types, that no minute's   *)
(* alarm is reported twice and that check_file loses no line that reached  *)
(* its file; and, for settings that are not taken back, that the alarm     *)
(* goes off exactly when it is due.                                        *)
(***************************************************************************)
EXTENDS MonitorService, SequenceTheorems, TLAPS

-----------------------------------------------------------------------------
(* The calendar.                                                           *)

(* Division by a length.                                                   *)
LEMMA Division ==
  ASSUME NEW d \in Nat \ {0}, NEW a \in Nat, NEW b \in Nat
  PROVE  /\ a \div d \in Nat /\ a % d \in Nat
         /\ a =< b => a \div d =< b \div d
         /\ a % d = b % d /\ a \div d = b \div d => a = b
<1>1. a \div d \in Nat
  OBVIOUS
<1>2. a % d \in Nat
  OBVIOUS
<1>3. a =< b => a \div d =< b \div d
  OBVIOUS
<1>4. a % d = b % d /\ a \div d = b \div d => a = b
  OBVIOUS
<1> QED BY <1>1, <1>2, <1>3, <1>4, Zenon

LEMMA TimesAndDays ==
  ASSUME NEW t \in Nat
  PROVE  Minute(t) \in Nat /\ Hour(t) \in Nat /\ Day(t) \in Nat
<1>1. Minute(t) \in Nat
  BY CalendarAssumption, Division DEF Minute
<1>2. Hour(t) \in Nat
  BY <1>1, CalendarAssumption, Division DEF Hour
<1>3. Day(t) \in Nat
  BY <1>2, CalendarAssumption, Division DEF Day
<1> QED BY <1>1, <1>2, <1>3

(* Minutes and days go by with the time.                                   *)
LEMMA TimeGoesBy ==
  ASSUME NEW s \in Nat, NEW t \in Nat, s =< t
  PROVE  Minute(s) =< Minute(t) /\ Day(s) =< Day(t)
<1>1. Minute(s) =< Minute(t)
  BY CalendarAssumption, Division DEF Minute
<1>2. Hour(s) =< Hour(t)
  BY <1>1, CalendarAssumption, Division, TimesAndDays DEF Hour
<1>3. Day(s) =< Day(t)
  BY <1>2, CalendarAssumption, Division, TimesAndDays DEF Day
<1> QED BY <1>1, <1>3

LEMMA FieldIs ==
  ASSUME NEW t
  PROVE  /\ Field("minute", t) = Minute(t) % MinutesPerHour
         /\ Field("hour", t) = Hour(t) % HoursPerDay
         /\ Field("day", t) = 1 + (Day(t) % DaysPerMonth)
         /\ Field("month", t) = 1 + (Day(t) \div DaysPerMonth)
BY DEF Field

(* The fields tell minutes apart, and depend on nothing else.              *)
LEMMA SameMinuteMeans ==
  ASSUME NEW s \in Nat, NEW t \in Nat
  PROVE  SameMinute(s, t) <=> Minute(s) = Minute(t)
<1>1. ASSUME Minute(s) = Minute(t) PROVE SameMinute(s, t)
  BY <1>1, Zenon DEF SameMinute, Field, Hour, Day
<1>2. ASSUME SameMinute(s, t) PROVE Minute(s) = Minute(t)
  <2>1. \A f \in {"minute", "hour", "day", "month"} : Field(f, s) = Field(f, t)
    BY <1>2 DEF SameMinute, Fields
  <2>2. /\ Day(s) \in Nat /\ Day(t) \in Nat /\ Hour(s) \in Nat /\ Hour(t) \in Nat
        /\ Minute(s) \in Nat /\ Minute(t) \in Nat
    BY TimesAndDays
  <2>3. Day(s) = Day(t)
    <3>1. 1 + (Day(s) % DaysPerMonth) = 1 + (Day(t) % DaysPerMonth)
      BY <2>1, FieldIs, Zenon
    <3>2. 1 + (Day(s) \div DaysPerMonth) = 1 + (Day(t) \div DaysPerMonth)
      BY <2>1, FieldIs, Zenon
    <3>3. /\ Day(s) % DaysPerMonth \in Nat /\ Day(t) % DaysPerMonth \in Nat
          /\ Day(s) \div DaysPerMonth \in Nat /\ Day(t) \div DaysPerMonth \in Nat
      BY <2>2, CalendarAssumption, Division
    <3>4. /\ Day(s) % DaysPerMonth = Day(t) % DaysPerMonth
          /\ Day(s) \div DaysPerMonth = Day(t) \div DaysPerMonth
      BY <3>1, <3>2, <3>3
    <3> QED BY <2>2, <3>4, CalendarAssumption, Division
  <2>4. Hour(s) = Hour(t)
    <3>1. Hour(s) % HoursPerDay = Hour(t) % HoursPerDay
      BY <2>1, FieldIs, Zenon
    <3>2. Hour(s) \div HoursPerDay = Hour(t) \div HoursPerDay
      BY <2>3 DEF Day
    <3> QED BY <2>2, <3>1, <3>2, CalendarAssumption, Division
  <2>5. Minute(s) % MinutesPerHour = Minute(t) % MinutesPerHour
    BY <2>1, FieldIs, Zenon
  <2>6. Minute(s) \div MinutesPerHour = Minute(t) \div MinutesPerHour
    BY <2>4 DEF Hour
  <2> QED BY <2>2, <2>5, <2>6, CalendarAssumption, Division
<1> QED BY <1>1, <1>2

(* The fields of a minute are those of each of its moments.                *)
LEMMA FieldOfMinute ==
  ASSUME NEW t \in Nat, NEW f
  PROVE  Field(f, Minute(t) * UnitsPerMinute) = Field(f, t)
<1> DEFINE m == Minute(t)
<1>1. m \in Nat
  BY TimesAndDays
<1> HIDE DEF m
<1>2. (m * UnitsPerMinute) \div UnitsPerMinute = m
  BY <1>1, CalendarAssumption
<1>3. Minute(Minute(t) * UnitsPerMinute) = Minute(t)
  BY <1>2 DEF Minute, m
<1> QED BY <1>3, Zenon DEF Field, Hour, Day

-----------------------------------------------------------------------------
(* The files.  What is kept of a disk dk, whose names go up to day d:      *)
(* types; no minute's alarm twice; all lines from before t; and all of the *)
(* lines in kept in files with numbers below c, which no rename or remove  *)
(* of check_file takes away.                                               *)

Names(d) == (0 .. d) \X (0 .. MaxFiles - 1)

FileSystem(dk, d) == dk \in [DOMAIN dk -> Seq(Lines)] /\ DOMAIN dk \subseteq Names(d)

AlarmAt(dk, n, i) == n \in DOMAIN dk /\ i \in 1 .. Len(dk[n]) /\ dk[n][i].cause = "alarm"

Distinct(dk) ==
  \A m, n, i, j :
    /\ AlarmAt(dk, m, i) /\ AlarmAt(dk, n, j)
    /\ Minute(dk[m][i].at) = Minute(dk[n][j].at)
    => m = n /\ i = j

AllBefore(dk, t) == \A n \in DOMAIN dk : \A i \in 1 .. Len(dk[n]) : dk[n][i].at =< t

Holds(dk, n, line) == n \in DOMAIN dk /\ \E i \in 1 .. Len(dk[n]) : dk[n][i] = line

Carries(dk, kept, c) == \A line \in kept : \E n : Holds(dk, n, line) /\ n[2] < c

Sound(dk, d, kept, c, t) ==
  FileSystem(dk, d) /\ Distinct(dk) /\ AllBefore(dk, t) /\ Carries(dk, kept, c)

(* A new file is empty.                                                    *)
LEMMA SoundOpened ==
  ASSUME NEW dk, NEW d \in Nat, NEW kept, NEW c \in Nat, NEW t \in Nat,
         Sound(dk, d, kept, c, t), NEW n \in Names(d)
  PROVE  Sound(Opened(dk, n), d, kept, c, t) /\ n \in DOMAIN Opened(dk, n)
<1>1. CASE n \in DOMAIN dk
  BY <1>1 DEF Opened, HasFile
<1>2. CASE n \notin DOMAIN dk
  <2> DEFINE e == Opened(dk, n)
  <2>1. /\ e = [m \in DOMAIN dk \cup {n} |-> IF m = n THEN <<>> ELSE dk[m]]
        /\ DOMAIN e = DOMAIN dk \cup {n}
    BY <1>2 DEF Opened, HasFile, With
  <2> HIDE DEF e
  <2>2. e[n] = <<>> /\ \A m \in DOMAIN dk : e[m] = dk[m]
    BY <1>2, <2>1
  <2>3. FileSystem(e, d)
    BY <2>1, <2>2 DEF Sound, FileSystem
  <2>4. \A m, i : AlarmAt(e, m, i) => AlarmAt(dk, m, i) /\ e[m] = dk[m]
    <3>1. \A i : i \notin 1 .. Len(e[n])
      BY <2>2
    <3> QED BY <2>1, <2>2, <3>1 DEF AlarmAt
  <2>5. Distinct(e)
    <3> SUFFICES ASSUME NEW m, NEW k, NEW i, NEW j, AlarmAt(e, m, i), AlarmAt(e, k, j),
                        Minute(e[m][i].at) = Minute(e[k][j].at)
                 PROVE  m = k /\ i = j
      BY Zenon DEF Distinct
    <3>1. /\ AlarmAt(dk, m, i) /\ e[m] = dk[m]
         /\ AlarmAt(dk, k, j) /\ e[k] = dk[k]
      BY <2>4
    <3>2. Minute(dk[m][i].at) = Minute(dk[k][j].at)
      BY <3>1
    <3> QED BY <3>1, <3>2, Zenon DEF Sound, Distinct
  <2>6. AllBefore(e, t)
    BY <2>1, <2>2 DEF Sound, AllBefore
  <2>7. \A m, line : Holds(dk, m, line) => Holds(e, m, line)
    BY <2>1, <2>2 DEF Holds
  <2>8. Carries(e, kept, c)
    BY <2>7, Zenon DEF Sound, Carries
  <2> QED BY <2>1, <2>3, <2>5, <2>6, <2>8 DEF Sound, e
<1> QED BY <1>1, <1>2

(* A file that holds no line to be kept may be removed.                    *)
LEMMA SoundWithout ==
  ASSUME NEW dk, NEW d \in Nat, NEW kept, NEW rest \in SUBSET kept, NEW c \in Nat, NEW t \in Nat,
         Sound(dk, d, kept, c, t), NEW n,
         \A line \in rest : \A m : Holds(dk, m, line) /\ m[2] < c => m # n
  PROVE  Sound(Without(dk, n), d, rest, c, t)
<1> DEFINE e == Without(dk, n)
<1>1. DOMAIN e = DOMAIN dk \ {n} /\ \A m \in DOMAIN dk \ {n} : e[m] = dk[m]
  BY DEF Without
<1>2. FileSystem(e, d)
  BY DEF Sound, FileSystem, Without
<1> HIDE DEF e
<1>3. \A m, i : AlarmAt(e, m, i) => AlarmAt(dk, m, i) /\ e[m] = dk[m]
  BY <1>1 DEF AlarmAt
<1>4. Distinct(e)
  <2> SUFFICES ASSUME NEW m, NEW k, NEW i, NEW j, AlarmAt(e, m, i), AlarmAt(e, k, j),
                      Minute(e[m][i].at) = Minute(e[k][j].at)
               PROVE  m = k /\ i = j
    BY Zenon DEF Distinct
  <2>1. /\ AlarmAt(dk, m, i) /\ e[m] = dk[m]
       /\ AlarmAt(dk, k, j) /\ e[k] = dk[k]
    BY <1>3
  <2>2. Minute(dk[m][i].at) = Minute(dk[k][j].at)
    BY <2>1
  <2> QED BY <2>1, <2>2, Zenon DEF Sound, Distinct
<1>5. AllBefore(e, t)
  BY <1>1 DEF Sound, AllBefore
<1>6. \A m, line : Holds(dk, m, line) /\ m # n => Holds(e, m, line)
  BY <1>1 DEF Holds
<1>7. Carries(e, rest, c)
  BY <1>6, Zenon DEF Sound, Carries
<1> QED BY <1>2, <1>4, <1>5, <1>7 DEF Sound, e

(* A file is moved to a name that is free.                                 *)
LEMMA SoundMoved ==
  ASSUME NEW dk, NEW d \in Nat, NEW kept, NEW c \in Nat, NEW t \in Nat,
         Sound(dk, d, kept, c, t), NEW from \in DOMAIN dk, NEW to \in Names(d) \ DOMAIN dk,
         to[2] = c
  PROVE  Sound(With(Without(dk, from), to, dk[from]), d, kept, c + 1, t)
<1> DEFINE e == With(Without(dk, from), to, dk[from])
<1>1. /\ DOMAIN e = (DOMAIN dk \ {from}) \cup {to}
      /\ e = [m \in (DOMAIN dk \ {from}) \cup {to} |-> IF m = to THEN dk[from] ELSE dk[m]]
  BY DEF With, Without
<1> HIDE DEF e
<1>2. e[to] = dk[from] /\ \A m \in DOMAIN dk \ {from} : e[m] = dk[m] /\ m # to
  BY <1>1
<1>3. FileSystem(e, d)
  BY <1>1, <1>2 DEF Sound, FileSystem
<1> DEFINE Old(m) == IF m = to THEN from ELSE m
<1>4. \A m, i : AlarmAt(e, m, i) => AlarmAt(dk, Old(m), i) /\ e[m] = dk[Old(m)]
  BY <1>1, <1>2 DEF AlarmAt
<1>5. \A m, n \in DOMAIN e : Old(m) = Old(n) => m = n
  BY <1>1, <1>2
<1>6. \A m, i : AlarmAt(e, m, i) => m \in DOMAIN e
  BY DEF AlarmAt
<1> HIDE DEF Old
<1>7. Distinct(e)
  <2> SUFFICES ASSUME NEW m, NEW k, NEW i, NEW j, AlarmAt(e, m, i), AlarmAt(e, k, j),
                      Minute(e[m][i].at) = Minute(e[k][j].at)
               PROVE  m = k /\ i = j
    BY Zenon DEF Distinct
  <2>1. /\ AlarmAt(dk, Old(m), i) /\ e[m] = dk[Old(m)]
       /\ AlarmAt(dk, Old(k), j) /\ e[k] = dk[Old(k)]
    BY <1>4
  <2>2. Minute(dk[Old(m)][i].at) = Minute(dk[Old(k)][j].at)
    BY <2>1
  <2>3. Old(m) = Old(k) /\ i = j
    BY <2>1, <2>2, Zenon DEF Sound, Distinct
  <2> QED BY <1>5, <1>6, <2>3, Zenon
<1>8. AllBefore(e, t)
  BY <1>1, <1>2 DEF Sound, AllBefore
<1>9. ASSUME NEW line \in kept PROVE \E n : Holds(e, n, line) /\ n[2] < c + 1
  <2>1. PICK n : Holds(dk, n, line) /\ n[2] < c
    BY DEF Sound, Carries
  <2>2. n \in Names(d)
    BY <2>1 DEF Sound, FileSystem, Holds
  <2>3. n[2] \in Nat
    BY <2>2 DEF Names
  <2>4. CASE n = from
    <3>1. Holds(e, to, line)
      BY <1>1, <1>2, <2>1, <2>4 DEF Holds
    <3> QED BY <3>1
  <2>5. CASE n # from
    <3>1. Holds(e, n, line)
      BY <1>1, <1>2, <2>1, <2>5 DEF Holds
    <3> QED BY <2>1, <2>3, <3>1
  <2> QED BY <2>4, <2>5
<1> QED BY <1>3, <1>7, <1>8, <1>9 DEF Sound, Carries, e

(* A line is written that is no alarm, or one of a later minute.           *)
LEMMA SoundWritten ==
  ASSUME NEW dk, NEW d \in Nat, NEW kept, NEW c \in Nat, NEW t \in Nat,
         Sound(dk, d, kept, c, t), NEW n \in Names(d), n[2] < c,
         NEW line \in Lines, t =< line.at,
         line.cause = "alarm" => \A s \in 0 .. t : Minute(s) # Minute(line.at)
  PROVE  Sound(Written(dk, n, <<line>>), d, kept \cup {line}, c, line.at)
<1> DEFINE o == Opened(dk, n)
           e == Written(dk, n, <<line>>)
<1>1. Sound(o, d, kept, c, t) /\ n \in DOMAIN o
  BY SoundOpened
<1> HIDE DEF o
<1>3. o \in [DOMAIN o -> Seq(Lines)] /\ DOMAIN o \subseteq Names(d) /\ o[n] \in Seq(Lines)
  BY <1>1 DEF Sound, FileSystem
<1>2. e = [o EXCEPT ![n] = Append(o[n], line)]
  <2>1. e = [o EXCEPT ![n] = o[n] \o <<line>>]
    BY DEF Written, o
  <2>2. o[n] \o <<line>> = Append(o[n], line)
    BY <1>3, AppendIsConcat
  <2> QED BY <2>1, <2>2, Zenon
<1> HIDE DEF e
<1> DEFINE l == Len(o[n]) + 1
<1>4. /\ DOMAIN e = DOMAIN o /\ \A m \in DOMAIN o \ {n} : e[m] = o[m]
      /\ e[n] = Append(o[n], line)
  BY <1>1, <1>2, <1>3
<1>5. /\ Len(e[n]) = l /\ l \in 1 .. Len(e[n]) /\ e[n][l] = line
      /\ \A i \in 1 .. Len(o[n]) : e[n][i] = o[n][i] /\ i \in 1 .. Len(e[n])
      /\ \A i \in 1 .. Len(e[n]) : i \in 1 .. Len(o[n]) \/ i = l
  BY <1>3, <1>4
<1>6. FileSystem(e, d)
  <2>1. Append(o[n], line) \in Seq(Lines)
    BY <1>3
  <2> QED BY <1>2, <1>3, <2>1 DEF FileSystem
<1> HIDE DEF l
<1>7. \A m, i : AlarmAt(e, m, i) =>
        \/ AlarmAt(o, m, i) /\ e[m][i] = o[m][i]
        \/ m = n /\ i = l /\ e[m][i] = line /\ line.cause = "alarm"
  <2> SUFFICES ASSUME NEW m, NEW i, AlarmAt(e, m, i)
               PROVE  \/ AlarmAt(o, m, i) /\ e[m][i] = o[m][i]
                      \/ m = n /\ i = l /\ e[m][i] = line /\ line.cause = "alarm"
    OBVIOUS
  <2>1. CASE m # n
    BY <1>4, <2>1, Zenon DEF AlarmAt
  <2>2. CASE m = n
    BY <1>1, <1>4, <1>5, <2>2, Zenon DEF AlarmAt
  <2> QED BY <2>1, <2>2
<1>8. \A m, i : AlarmAt(o, m, i) => o[m][i].at \in 0 .. t
  <2> SUFFICES ASSUME NEW m, NEW i, AlarmAt(o, m, i) PROVE o[m][i].at \in 0 .. t
    OBVIOUS
  <2>1. o[m] \in Seq(Lines) /\ i \in 1 .. Len(o[m]) /\ o[m][i].at =< t
    BY <1>1, <1>3 DEF AlarmAt, Sound, AllBefore
  <2>2. o[m][i] \in Lines
    BY <2>1
  <2>3. o[m][i].at \in Nat
    BY <2>2, CalendarAssumption DEF Lines
  <2> QED BY <2>1, <2>3
<1>9. Distinct(e)
  <2> SUFFICES ASSUME NEW m, NEW n2, NEW i, NEW j, AlarmAt(e, m, i), AlarmAt(e, n2, j),
                      Minute(e[m][i].at) = Minute(e[n2][j].at)
               PROVE  m = n2 /\ i = j
    BY DEF Distinct
  <2>1. CASE AlarmAt(o, m, i) /\ e[m][i] = o[m][i] /\ AlarmAt(o, n2, j) /\ e[n2][j] = o[n2][j]
    BY <1>1, <2>1, Zenon DEF Sound, Distinct
  <2>2. CASE AlarmAt(o, m, i) /\ e[m][i] = o[m][i] /\ e[n2][j] = line /\ line.cause = "alarm"
    BY <1>8, <2>2, Zenon
  <2>3. CASE AlarmAt(o, n2, j) /\ e[n2][j] = o[n2][j] /\ e[m][i] = line /\ line.cause = "alarm"
    BY <1>8, <2>3, Zenon
  <2>4. \/ AlarmAt(o, m, i) /\ e[m][i] = o[m][i]
        \/ m = n /\ i = l /\ e[m][i] = line /\ line.cause = "alarm"
    BY <1>7, Zenon
  <2>5. \/ AlarmAt(o, n2, j) /\ e[n2][j] = o[n2][j]
        \/ n2 = n /\ j = l /\ e[n2][j] = line /\ line.cause = "alarm"
    BY <1>7, Zenon
  <2> QED BY <2>1, <2>2, <2>3, <2>4, <2>5, Zenon
<1>10. AllBefore(e, line.at)
  <2> SUFFICES ASSUME NEW m \in DOMAIN e, NEW i \in 1 .. Len(e[m]) PROVE e[m][i].at =< line.at
    BY DEF AllBefore
  <2>1. line.at \in Nat
    BY CalendarAssumption DEF Lines
  <2>2. CASE m \in DOMAIN o /\ i \in 1 .. Len(o[m]) /\ e[m][i] = o[m][i]
    <3>1. o[m][i] \in Lines /\ o[m][i].at =< t
      BY <1>1, <1>3, <2>2 DEF Sound, AllBefore
    <3>2. o[m][i].at \in Nat
      BY <3>1, CalendarAssumption DEF Lines
    <3> QED BY <2>1, <2>2, <3>1, <3>2
  <2>3. CASE e[m][i] = line
    BY <2>1, <2>3
  <2> QED BY <1>4, <1>5, <2>2, <2>3
<1>11. ASSUME NEW k \in kept \cup {line} PROVE \E m : Holds(e, m, k) /\ m[2] < c
  <2>1. CASE k = line
    BY <1>1, <1>4, <1>5, <2>1 DEF Holds
  <2>2. CASE k \in kept
    <3>1. PICK m : Holds(o, m, k) /\ m[2] < c
      BY <1>1, <2>2 DEF Sound, Carries
    <3>2. Holds(e, m, k)
      BY <1>4, <1>5, <3>1 DEF Holds
    <3> QED BY <3>1, <3>2
  <2> QED BY <2>1, <2>2
<1> QED BY <1>6, <1>9, <1>10, <1>11 DEF Sound, Carries, e

(* What is kept of a disk is kept when more is allowed.                    *)
LEMMA SoundMore ==
  ASSUME NEW dk, NEW d \in Nat, NEW kept, NEW c \in Nat, NEW t \in Nat, Sound(dk, d, kept, c, t),
         NEW d2 \in Nat, NEW rest \in SUBSET kept, NEW c2 \in Nat, NEW t2 \in Nat,
         d =< d2, c =< c2, t =< t2
  PROVE  Sound(dk, d2, rest, c2, t2)
<1>1. dk \in [DOMAIN dk -> Seq(Lines)] /\ DOMAIN dk \subseteq Names(d)
  BY DEF Sound, FileSystem
<1>2. Names(d) \subseteq Names(d2)
  BY DEF Names
<1>3. FileSystem(dk, d2)
  BY <1>1, <1>2 DEF FileSystem
<1>4. AllBefore(dk, t2)
  <2> SUFFICES ASSUME NEW n \in DOMAIN dk, NEW i \in 1 .. Len(dk[n]) PROVE dk[n][i].at =< t2
    BY DEF AllBefore
  <2>1. dk[n][i] \in Lines /\ dk[n][i].at =< t
    BY <1>1 DEF Sound, AllBefore
  <2>2. dk[n][i].at \in Nat
    BY <2>1, CalendarAssumption DEF Lines
  <2> QED BY <2>1, <2>2
<1>5. ASSUME NEW line \in rest PROVE \E n : Holds(dk, n, line) /\ n[2] < c2
  <2>1. PICK n : Holds(dk, n, line) /\ n[2] < c
    BY DEF Sound, Carries
  <2>2. n \in Names(d)
    BY <1>1, <2>1 DEF Holds
  <2>3. n[2] \in Nat
    BY <2>2 DEF Names
  <2> QED BY <2>1, <2>3
<1> QED BY <1>3, <1>4, <1>5 DEF Sound, Carries

(* The line is written and kept, or nothing is written.                    *)
Reaches(line, lines, new) ==
  (lines = <<line>> /\ new = {line}) \/ (lines = <<>> /\ new = {})

LEMMA SoundTried ==
  ASSUME NEW dk, NEW d \in Nat, NEW kept, NEW c \in Nat, NEW t \in Nat,
         Sound(dk, d, kept, c, t), NEW n \in Names(d), n[2] < c,
         NEW line \in Lines, t =< line.at,
         line.cause = "alarm" => \A s \in 0 .. t : Minute(s) # Minute(line.at),
         NEW lines, NEW new, Reaches(line, lines, new)
  PROVE  Sound(Written(dk, n, lines), d, kept \cup new, c, line.at)
<1>1. CASE lines = <<line>> /\ new = {line}
  BY <1>1, SoundWritten
<1>2. CASE lines = <<>> /\ new = {}
  <2> DEFINE o == Opened(dk, n)
  <2>1. Sound(o, d, kept, c, t) /\ n \in DOMAIN o
    BY SoundOpened
  <2> HIDE DEF o
  <2>2. o \in [DOMAIN o -> Seq(Lines)] /\ o[n] \in Seq(Lines)
    BY <2>1 DEF Sound, FileSystem
  <2>3. Written(dk, n, lines) = [o EXCEPT ![n] = o[n] \o <<>>]
    BY <1>2 DEF Written, o
  <2>4. o[n] \o <<>> = o[n]
    BY <2>2, ConcatEmptySeq
  <2>5. Written(dk, n, lines) = o
    BY <2>2, <2>3, <2>4
  <2>6. line.at \in Nat
    BY CalendarAssumption DEF Lines
  <2>7. kept \cup new = kept
    BY <1>2
  <2>8. d =< d /\ c =< c /\ kept \in SUBSET kept
    OBVIOUS
  <2> QED BY <2>1, <2>5, <2>6, <2>7, <2>8, SoundMore
<1> QED BY <1>1, <1>2 DEF Reaches

-----------------------------------------------------------------------------
(* The log.                                                                *)

LogInv ==
  /\ now \in Nat /\ last \in Nat
  /\ logDay \in 0 .. Day(now) /\ stream \in {Closed, Named, Gone} /\ count \in 1 .. MaxFiles
  /\ Sound(disk, Day(now), stored, count, last)

(* A line that log may write: it is later than all others, and an alarm is *)
(* of a later minute.                                                      *)
Writable(line) ==
  /\ line \in Lines /\ last =< line.at
  /\ line.cause = "alarm" => \A s \in 0 .. last : Minute(s) # Minute(line.at)

LEMMA LogTypes ==
  LogInv => /\ Day(now) \in Nat /\ count \in Nat /\ last \in Nat /\ count > 0
            /\ File(logDay) \in Names(Day(now)) /\ File(Day(now)) \in Names(Day(now))
            /\ File(logDay)[2] < count /\ File(Day(now))[2] < count
            /\ Day(now) \in 0 .. Day(now)
<1> SUFFICES ASSUME LogInv
             PROVE  /\ Day(now) \in Nat /\ count \in Nat /\ last \in Nat /\ count > 0
                    /\ File(logDay) \in Names(Day(now)) /\ File(Day(now)) \in Names(Day(now))
                    /\ File(logDay)[2] < count /\ File(Day(now))[2] < count
                    /\ Day(now) \in 0 .. Day(now)
  OBVIOUS
<1> DEFINE d == Day(now)
<1>1. d \in Nat /\ logDay \in 0 .. d /\ count \in 1 .. MaxFiles /\ last \in Nat
  BY TimesAndDays DEF LogInv
<1> HIDE DEF d
<1>2. d \in 0 .. d /\ 0 \in 0 .. MaxFiles - 1 /\ count \in Nat /\ count > 0
  BY <1>1, LogAssumption
<1>3. \A x \in 0 .. d : File(x) \in Names(d) /\ File(x)[2] = 0
  BY <1>2 DEF File, Names
<1> QED BY <1>1, <1>2, <1>3 DEF d

LEMMA FromStreamSound ==
  LogInv => Sound(FromStream, Day(now), stored, count, last)
<1> SUFFICES ASSUME LogInv PROVE Sound(FromStream, Day(now), stored, count, last)
  OBVIOUS
<1>1. Sound(disk, Day(now), stored, count, last)
  BY DEF LogInv
<1>2. Sound(Opened(disk, File(logDay)), Day(now), stored, count, last)
  BY <1>1, LogTypes, SoundOpened
<1> QED BY <1>1, <1>2 DEF FromStream

(* The line goes into the file of the stream or of today.                  *)
LEMMA LineWritten ==
  ASSUME LogInv, NEW dk, NEW c \in Nat, count =< c, Sound(dk, Day(now), stored, c, last),
         NEW line, Writable(line), NEW n \in {File(logDay), File(Day(now))},
         NEW lines, NEW new, Reaches(line, lines, new)
  PROVE  Sound(Written(dk, n, lines), Day(now), stored \cup new, c, line.at)
<1>1. n \in Names(Day(now)) /\ n[2] < c
  <2>1. n \in Names(Day(now)) /\ n[2] = 0 /\ count > 0 /\ count \in Nat
    BY LogTypes DEF File
  <2> QED BY <2>1
<1> QED BY <1>1, LogTypes, SoundTried DEF Writable

(* check_file's removing and renaming.                                     *)
LEMMA ClearedSound ==
  ASSUME LogInv, Full
  PROVE  /\ Sound(Without(FromStream, Aside), Day(now), stored, count + 1, last)
         /\ Sound(With(Without(Without(FromStream, Aside), File(logDay)), Aside,
                       Without(FromStream, Aside)[File(logDay)]),
                  Day(now), stored, count + 1, last)
         /\ count + 1 \in 1 .. MaxFiles
<1> DEFINE f == FromStream
           e == Without(f, Aside)
<1>1. /\ Day(now) \in Nat /\ count \in Nat /\ last \in Nat /\ count > 0
      /\ Sound(f, Day(now), stored, count, last)
  BY LogTypes, FromStreamSound
<1>2. /\ count \in 1 .. MaxFiles /\ count # MaxFiles /\ logDay \in 0 .. Day(now)
      /\ File(logDay) \in DOMAIN f /\ MaxFiles \in Nat
  BY LogAssumption DEF LogInv, Full, AtLimit, HasFile
<1>3. /\ Aside \in Names(Day(now)) /\ Aside[2] = count /\ File(logDay) # Aside
      /\ count + 1 \in 1 .. MaxFiles
  <2>1. count \in 0 .. MaxFiles - 1 /\ count + 1 \in 1 .. MaxFiles /\ count # 0
    BY <1>1, <1>2
  <2> QED BY <1>2, <2>1 DEF Aside, Names, File
<1> HIDE DEF f
<1>4. Sound(e, Day(now), stored, count, last)
  <2>1. \A line \in stored : \A m : Holds(f, m, line) /\ m[2] < count => m # Aside
    BY <1>1, <1>3
  <2> QED BY <1>1, <2>1, SoundWithout
<1>5. File(logDay) \in DOMAIN e /\ Aside \in Names(Day(now)) \ DOMAIN e
  BY <1>2, <1>3 DEF Without
<1> HIDE DEF e
<1>6. Sound(With(Without(e, File(logDay)), Aside, e[File(logDay)]), Day(now), stored, count + 1, last)
  BY <1>1, <1>3, <1>4, <1>5, SoundMoved
<1>7. Sound(e, Day(now), stored, count + 1, last)
  <2>1. count + 1 \in Nat /\ count =< count + 1 /\ last =< last /\ Day(now) =< Day(now)
    BY <1>1
  <2> QED BY <1>1, <1>4, <2>1, SoundMore
<1> QED BY <1>3, <1>6, <1>7 DEF e, f

(* What log keeps when it returns TRUE, be the line written or not.        *)
LEMMA LogTrueSound ==
  ASSUME LogInv, NEW STATE line, Writable(line),
         NEW STATE lines, NEW STATE new, Reaches(line, lines, new), LogTrue(lines)
  PROVE  /\ logDay' \in 0 .. Day(now) /\ stream' \in {Closed, Named, Gone}
         /\ count' \in 1 .. MaxFiles
         /\ Sound(disk', Day(now), IF stream = Gone /\ stream' = Gone THEN stored
                                   ELSE stored \cup new, count', line.at)
<1>1. /\ Day(now) \in Nat /\ count \in Nat /\ last \in Nat /\ Day(now) \in 0 .. Day(now)
      /\ logDay \in 0 .. Day(now) /\ stream \in {Closed, Named, Gone} /\ count \in 1 .. MaxFiles
      /\ Sound(disk, Day(now), stored, count, last) /\ count =< count
  BY LogTypes DEF LogInv
<1>2. Closed # Gone /\ Named # Gone /\ Closed # Named
  BY DEF Closed, Gone, Named
<1>3. line.at \in Nat
  BY CalendarAssumption DEF Writable, Lines
<1>4. ASSUME NEW dk, Sound(dk, Day(now), stored, count, last)
      PROVE  Sound(Written(dk, File(Day(now)), lines), Day(now), stored \cup new, count, line.at)
  BY <1>1, <1>4, LineWritten
<1>5. CASE NewDay(lines, TRUE)
  <2>1. /\ logDay' = Day(now) /\ stream' = Named /\ count' = count
        /\ disk' = Written(FromStream, File(Day(now)), lines)
    BY <1>5, Zenon DEF NewDay, Reopened
  <2> QED BY <1>1, <1>2, <1>4, <2>1, FromStreamSound
<1>6. CASE LastFile(lines) \/ HasRoom(lines)
  <2>1. /\ logDay' = logDay /\ count' = count
        /\ stream' = IF stream = Gone THEN Gone ELSE Named
        /\ disk' = IF stream = Gone THEN disk ELSE Written(disk, File(logDay), lines)
    BY <1>6, Zenon DEF LastFile, HasRoom, WriteOn
  <2>2. CASE stream = Gone
    <3>1. Sound(disk, Day(now), stored, count, line.at)
      <4>1. Day(now) =< Day(now) /\ last =< line.at
        BY <1>1 DEF Writable
      <4> QED BY <1>1, <1>3, <4>1, SoundMore
    <3>2. disk' = disk /\ stream' = Gone
      BY <2>1, <2>2
    <3> QED BY <1>1, <2>1, <2>2, <3>1, <3>2
  <2>3. CASE stream # Gone
    <3>1. Sound(Written(disk, File(logDay), lines), Day(now), stored \cup new, count, line.at)
      BY <1>1, LineWritten
    <3>2. disk' = Written(disk, File(logDay), lines) /\ stream' = Named
      BY <2>1, <2>3
    <3> QED BY <1>1, <1>2, <2>1, <2>3, <3>1, <3>2
  <2> QED BY <2>2, <2>3
<1>7. CASE Deleted(lines, TRUE)
  <2>1. /\ logDay' = logDay /\ stream' = Named /\ count' = count
        /\ disk' = Written(FromStream, File(Day(now)), lines)
    BY <1>7, Zenon DEF Deleted, Reopened
  <2> QED BY <1>1, <1>2, <1>4, <2>1, FromStreamSound
<1>8. ASSUME NEW renamed \in BOOLEAN, MoveAside(lines, renamed, TRUE)
      PROVE  /\ logDay' \in 0 .. Day(now) /\ stream' \in {Closed, Named, Gone}
             /\ count' \in 1 .. MaxFiles
             /\ Sound(disk', Day(now), IF stream = Gone /\ stream' = Gone THEN stored
                                       ELSE stored \cup new, count', line.at)
  <2> DEFINE e  == Without(FromStream, Aside)
             mv == With(Without(e, File(logDay)), Aside, e[File(logDay)])
             dk == IF renamed THEN mv ELSE e
  <2>1. /\ Full /\ logDay' = logDay /\ stream' = Named /\ count' = count + 1
        /\ disk' = Written(dk, File(Day(now)), lines)
    BY <1>8, Zenon DEF MoveAside, Reopened, NextCount
  <2>2. Sound(e, Day(now), stored, count + 1, last) /\ Sound(mv, Day(now), stored, count + 1, last)
        /\ count + 1 \in 1 .. MaxFiles
    BY <2>1, ClearedSound
  <2> HIDE DEF e, mv
  <2>3. Sound(dk, Day(now), stored, count + 1, last)
    BY <2>2
  <2> HIDE DEF dk
  <2>4. count + 1 \in Nat /\ count =< count + 1
    BY <1>1
  <2>5. Sound(Written(dk, File(Day(now)), lines), Day(now), stored \cup new, count + 1, line.at)
    BY <2>3, <2>4, LineWritten
  <2> QED BY <1>1, <1>2, <2>1, <2>2, <2>5
<1> QED BY <1>5, <1>6, <1>7, <1>8 DEF LogTrue

(* What it keeps when the line is not written.                             *)
LEMMA LogFalseSound ==
  ASSUME LogInv, NEW STATE line, Writable(line), LogFalse
  PROVE  /\ logDay' \in 0 .. Day(now) /\ stream' \in {Closed, Named, Gone}
         /\ count' \in 1 .. MaxFiles
         /\ Sound(disk', Day(now), stored, count', line.at)
<1>1. /\ Day(now) \in Nat /\ count \in Nat /\ last \in Nat /\ Day(now) \in 0 .. Day(now)
      /\ logDay \in 0 .. Day(now) /\ stream \in {Closed, Named, Gone} /\ count \in 1 .. MaxFiles
      /\ Sound(disk, Day(now), stored, count, last)
      /\ Sound(FromStream, Day(now), stored, count, last)
  BY LogTypes, FromStreamSound DEF LogInv
<1>2. line.at \in Nat /\ last =< line.at /\ Day(now) =< Day(now)
  BY <1>1, CalendarAssumption DEF Writable, Lines
<1>3. ASSUME NEW dk, NEW c \in Nat, Sound(dk, Day(now), stored, c, last)
      PROVE  Sound(dk, Day(now), stored, c, line.at)
  <2>1. c =< c
    OBVIOUS
  <2> QED BY <1>1, <1>2, <1>3, <2>1, SoundMore
<1>4. CASE CannotOpen
  <2>1. disk' = disk /\ logDay' = logDay /\ stream' = stream /\ count' = count
    BY <1>4 DEF CannotOpen, logEngine
  <2> QED BY <1>1, <1>3, <2>1
<1>5. CASE NewDay(<<>>, FALSE)
  <2>1. logDay' = Day(now) /\ stream' = Closed /\ count' = count /\ disk' = FromStream
    BY <1>5, Zenon DEF NewDay, Reopened
  <2> QED BY <1>1, <1>3, <2>1
<1>6. CASE Deleted(<<>>, FALSE)
  <2>1. logDay' = logDay /\ stream' = Closed /\ count' = count /\ disk' = FromStream
    BY <1>6, Zenon DEF Deleted, Reopened
  <2> QED BY <1>1, <1>3, <2>1
<1>7. CASE CannotRemove
  <2>1. logDay' = logDay /\ stream' = Named /\ count' = count /\ disk' = FromStream
    BY <1>7, Zenon DEF CannotRemove
  <2> QED BY <1>1, <1>3, <2>1
<1>8. ASSUME NEW renamed \in BOOLEAN, MoveAside(<<>>, renamed, FALSE)
      PROVE  /\ logDay' \in 0 .. Day(now) /\ stream' \in {Closed, Named, Gone}
             /\ count' \in 1 .. MaxFiles
             /\ Sound(disk', Day(now), stored, count', line.at)
  <2> DEFINE e  == Without(FromStream, Aside)
             mv == With(Without(e, File(logDay)), Aside, e[File(logDay)])
             dk == IF renamed THEN mv ELSE e
  <2>1. Full /\ logDay' = logDay /\ stream' = Closed /\ count' = count + 1 /\ disk' = dk
    BY <1>8, Zenon DEF MoveAside, Reopened, NextCount
  <2>2. Sound(e, Day(now), stored, count + 1, last) /\ Sound(mv, Day(now), stored, count + 1, last)
        /\ count + 1 \in 1 .. MaxFiles
    BY <2>1, ClearedSound
  <2> HIDE DEF e, mv
  <2>3. Sound(dk, Day(now), stored, count + 1, last)
    BY <2>2
  <2> HIDE DEF dk
  <2>4. count + 1 \in Nat
    BY <1>1
  <2> QED BY <1>1, <1>3, <2>1, <2>2, <2>3, <2>4
<1> QED BY <1>4, <1>5, <1>6, <1>7, <1>8 DEF LogFalse

-----------------------------------------------------------------------------
(* The service.                                                            *)

AlarmWord == [Fields -> [on : BOOLEAN, val : Int]]
HeardType == [minute : Int, alarm : Nat, interval : Nat]

(* A Tick is scheduled no earlier than the last trigger, and what belongs  *)
(* to a run of the service is not there before it runs.                    *)
LifeInv ==
  /\ phase # "running" => td = Never /\ heard = Nothing /\ stored = {}
  /\ phase = "init" => last = born
  /\ phase = "down" => alarm = NotSet /\ asked = <<>>
  /\ phase # "down" => born =< last
  /\ td \in {Never} \cup last .. now

(* No line is later than the last trigger, which is the start's time until *)
(* the timer triggers.                                                     *)
LastLine == IF phase = "down" THEN now ELSE last
DiskInv  == logDay \in 0 .. Day(now) /\ Sound(disk, Day(now), stored, count, LastLine)

Inv == TypeOK /\ alarm \in AlarmWord /\ heard \in HeardType /\ LifeInv /\ DiskInv

(* The disk's part of TypeOK.                                              *)
LEMMA DiskTypes ==
  ASSUME NEW dk, NEW d \in Nat, FileSystem(dk, d)
  PROVE  \A n \in DOMAIN dk :
           n[1] \in 0 .. d /\ n[2] \in 0 .. MaxFiles - 1 /\ dk[n] \in Seq(Lines)
BY DEF FileSystem, Names

LEMMA Times ==
  Inv => /\ now \in Nat /\ last \in Nat /\ last =< now /\ now =< MaxTime
         /\ Day(now) \in Nat /\ count \in Nat /\ LastLine \in Nat /\ LastLine =< now
         /\ (td # Never => td \in Nat /\ last =< td /\ td =< now)
<1> SUFFICES ASSUME Inv
             PROVE  /\ now \in Nat /\ last \in Nat /\ last =< now /\ now =< MaxTime
                    /\ Day(now) \in Nat /\ count \in Nat /\ LastLine \in Nat /\ LastLine =< now
                    /\ (td # Never => td \in Nat /\ last =< td /\ td =< now)
  OBVIOUS
<1>1. now \in 0 .. MaxTime /\ last \in 0 .. now /\ td \in {Never} \cup last .. now
      /\ count \in 1 .. MaxFiles
  BY DEF Inv, TypeOK, LifeInv
<1>2. now \in Nat /\ last \in Nat /\ last =< now /\ now =< MaxTime /\ count \in Nat
  BY <1>1, CalendarAssumption, LogAssumption
<1>3. td # Never => td \in Nat /\ last =< td /\ td =< now
  BY <1>1, <1>2
<1>4. Day(now) \in Nat
  BY <1>2, TimesAndDays
<1> QED BY <1>2, <1>3, <1>4 DEF LastLine

LEMMA RunningLog == Inv /\ phase # "down" => LogInv
BY Times DEF Inv, TypeOK, DiskInv, LogInv, LastLine

(* Setters.                                                                *)
LEMMA FlagAndValue == \A r \in [on : BOOLEAN, val : Int] : r = [on |-> r.on, val |-> r.val]
OBVIOUS

LEMMA FlagCleared ==
  ASSUME NEW r \in [on : BOOLEAN, val : Int]
  PROVE  [r EXCEPT !.on = FALSE] = [on |-> FALSE, val |-> r.val]
<1> DEFINE e == [r EXCEPT !.on = FALSE]
<1>1. e \in [on : BOOLEAN, val : Int]
  OBVIOUS
<1>2. e.on = FALSE
  OBVIOUS
<1>3. e.val = r.val
  OBVIOUS
<1> HIDE DEF e
<1>4. e = [on |-> e.on, val |-> e.val]
  BY <1>1, FlagAndValue
<1>5. e = [on |-> FALSE, val |-> r.val]
  BY <1>2, <1>3, <1>4, Zenon
<1> QED BY <1>5 DEF e

LEMMA AlarmKept ==
  ASSUME alarm \in AlarmWord, NEW f \in Fields, NEW v \in Int, SetAlarm(f, v),
         \A g \in Fields : alarm[g] = NotSet[g] \/ alarm[g].val \in Least[g] .. Greatest[g]
  PROVE  /\ alarm' \in AlarmWord
         /\ \A g \in Fields : alarm'[g] = NotSet[g] \/ alarm'[g].val \in Least[g] .. Greatest[g]
         /\ \A g \in Fields \ {f} : alarm'[g] = alarm[g]
         /\ IF v \in Least[f] .. Greatest[f] THEN alarm'[f] = [on |-> TRUE, val |-> v]
            ELSE alarm'[f] = [on |-> FALSE, val |-> alarm[f].val]
<1> DEFINE new == IF v \in Least[f] .. Greatest[f] THEN [on |-> TRUE, val |-> v]
                  ELSE [on |-> FALSE, val |-> alarm[f].val]
<1>1. alarm[f] \in [on : BOOLEAN, val : Int] /\ alarm[f].val \in Int
  BY DEF AlarmWord
<1>2. new \in [on : BOOLEAN, val : Int]
  BY <1>1
<1>3. [alarm[f] EXCEPT !.on = FALSE] = [on |-> FALSE, val |-> alarm[f].val]
  BY <1>1, FlagCleared
<1>4. alarm' = [alarm EXCEPT ![f] = new]
  <2>1. CASE v \in Least[f] .. Greatest[f]
    BY <2>1, Zenon DEF SetAlarm
  <2>2. CASE v \notin Least[f] .. Greatest[f]
    <3>1. alarm' = [alarm EXCEPT ![f] = [alarm[f] EXCEPT !.on = FALSE]]
      BY <2>2, Zenon DEF SetAlarm
    <3> QED BY <1>3, <2>2, <3>1, Zenon
  <2> QED BY <2>1, <2>2
<1>5. new = NotSet[f] \/ new.val \in Least[f] .. Greatest[f]
  <2>1. CASE v \in Least[f] .. Greatest[f]
    BY <2>1
  <2>2. CASE v \notin Least[f] .. Greatest[f] /\ alarm[f] = NotSet[f]
    BY <2>2 DEF NotSet
  <2>3. CASE v \notin Least[f] .. Greatest[f] /\ alarm[f].val \in Least[f] .. Greatest[f]
    BY <2>3
  <2> QED BY <2>1, <2>2, <2>3
<1> HIDE DEF new
<1>6. alarm' \in AlarmWord /\ alarm'[f] = new /\ \A g \in Fields \ {f} : alarm'[g] = alarm[g]
  BY <1>2, <1>4 DEF AlarmWord
<1>7. \A g \in Fields : alarm'[g] = NotSet[g] \/ alarm'[g].val \in Least[g] .. Greatest[g]
  <2> SUFFICES ASSUME NEW g \in Fields
               PROVE  alarm'[g] = NotSet[g] \/ alarm'[g].val \in Least[g] .. Greatest[g]
    OBVIOUS
  <2>1. CASE g = f
    BY <1>5, <1>6, <2>1
  <2>2. CASE g # f
    <3>1. alarm'[g] = alarm[g]
      BY <1>6, <2>2
    <3> QED BY <3>1
  <2> QED BY <2>1, <2>2
<1>8. IF v \in Least[f] .. Greatest[f] THEN alarm'[f] = [on |-> TRUE, val |-> v]
      ELSE alarm'[f] = [on |-> FALSE, val |-> alarm[f].val]
  BY <1>6, Zenon DEF new
<1> QED BY <1>6, <1>7, <1>8

LEMMA NotSetWord ==
  NotSet \in AlarmWord /\ \A f \in Fields : NotSet[f] = [on |-> FALSE, val |-> 0]
BY DEF NotSet, AlarmWord

LEMMA SetsInv ==
  ASSUME Inv, NEW a \in Alarms, Sets(a[1], a[2])
  PROVE  Inv'
<1>1. a[1] \in Fields /\ a[2] \in Int
  BY MonitorAssumption
<1>2. SetAlarm(a[1], a[2]) /\ phase = "init"
  BY DEF Sets
<1>3. /\ alarm' \in AlarmWord
      /\ \A g \in Fields : alarm'[g] = NotSet[g] \/ alarm'[g].val \in Least[g] .. Greatest[g]
  BY <1>1, <1>2, AlarmKept DEF Inv, TypeOK
<1>4. /\ last' = last /\ interval' = interval /\ now' = now /\ disk' = disk
      /\ logDay' = logDay /\ stream' = stream /\ count' = count /\ phase' = phase
      /\ lastTick' = lastTick /\ td' = td /\ runs' = runs /\ faults' = faults
      /\ born' = born /\ heard' = heard /\ stored' = stored
  BY <1>2 DEF Sets, SetAlarm, logEngine, service
<1>5. TypeOK'
  BY <1>3, <1>4, Zenon DEF Inv, TypeOK
<1>6. LifeInv'
  <2>1. phase # "down"
    BY <1>2
  <2> QED BY <1>4, <2>1, Zenon DEF Inv, LifeInv
<1>7. DiskInv'
  BY <1>4, Zenon DEF Inv, DiskInv, LastLine
<1> QED BY <1>3, <1>4, <1>5, <1>6, <1>7, Zenon DEF Inv

LEMMA SetsIntervalInv ==
  ASSUME Inv, NEW n \in Intervals, SetsInterval(n)
  PROVE  Inv'
<1>1. interval' \in Nat
  BY MonitorAssumption DEF SetsInterval, SetInterval, Inv, TypeOK
<1>2. /\ last' = last /\ alarm' = alarm /\ now' = now /\ disk' = disk
      /\ logDay' = logDay /\ stream' = stream /\ count' = count /\ phase' = phase
      /\ lastTick' = lastTick /\ td' = td /\ runs' = runs /\ faults' = faults
      /\ asked' = asked /\ born' = born /\ heard' = heard /\ stored' = stored
  BY DEF SetsInterval, SetInterval, logEngine, service, history
<1>3. TypeOK'
  BY <1>1, <1>2, Zenon DEF Inv, TypeOK
<1>4. LifeInv' /\ DiskInv'
  BY <1>2, Zenon DEF Inv, LifeInv, DiskInv, LastLine
<1> QED BY <1>2, <1>3, <1>4, Zenon DEF Inv

(* The other actions.                                                      *)
LEMMA InitInv == Init => Inv
<1> SUFFICES ASSUME Init PROVE Inv
  OBVIOUS
<1>1. /\ last = 0 /\ alarm = NotSet /\ interval = 0 /\ logDay = 0 /\ stream = Closed /\ count = 1
      /\ lastTick = 0 /\ td = Never /\ asked = <<>> /\ born = 0 /\ heard = Nothing /\ stored = {}
      /\ phase = "down" /\ disk = <<>> /\ runs = 0 /\ faults = 0
  BY DEF Init
<1>2. now \in 0 .. MaxTime /\ now \in Nat /\ 0 \in 0 .. now
  BY CalendarAssumption DEF Init
<1>3. Day(now) \in Nat /\ 0 \in 0 .. Day(now)
  BY <1>2, TimesAndDays
<1>4. DOMAIN disk = {} /\ disk \in [DOMAIN disk -> Seq(Lines)]
  BY <1>1
<1>5. Sound(disk, Day(now), stored, count, LastLine)
  BY <1>1, <1>4 DEF Sound, FileSystem, Distinct, AlarmAt, AllBefore, Carries
<1>6. heard \in HeardType /\ alarm \in AlarmWord
  BY <1>1, NotSetWord DEF Nothing, HeardType, Never
<1>7. 0 \in Nat /\ count \in 1 .. MaxFiles /\ 0 \in 0 .. MaxRuns /\ 0 \in 0 .. MaxFaults
  BY <1>1, LogAssumption, MonitorAssumption
<1>8. TypeOK
  BY <1>1, <1>2, <1>4, <1>7, Zenon DEF TypeOK
<1>9. LifeInv
  BY <1>1, Zenon DEF LifeInv
<1> QED BY <1>1, <1>3, <1>5, <1>6, <1>8, <1>9 DEF Inv, DiskInv

LEMMA ClockInv ==
  ASSUME Inv, Clock
  PROVE  Inv'
<1>1. /\ now' = now + 1 /\ now < MaxTime
      /\ last' = last /\ alarm' = alarm /\ interval' = interval /\ disk' = disk
      /\ logDay' = logDay /\ stream' = stream /\ count' = count /\ phase' = phase
      /\ lastTick' = lastTick /\ td' = td /\ runs' = runs /\ faults' = faults
      /\ asked' = asked /\ born' = born /\ heard' = heard /\ stored' = stored
  BY DEF Clock, Advance, timer, logEngine, service, history
<1>2. /\ now \in Nat /\ last \in Nat /\ Day(now) \in Nat /\ LastLine \in Nat /\ LastLine =< now
      /\ count \in Nat
  BY Times
<1>3. now' \in Nat /\ now =< now' /\ now' \in 0 .. MaxTime
  BY <1>1, <1>2, CalendarAssumption
<1>4. Day(now') \in Nat /\ Day(now) =< Day(now')
  BY <1>2, <1>3, TimesAndDays, TimeGoesBy
<1>5. Day(now)' = Day(now')
  BY DEF Day, Hour, Minute
<1>6. /\ last \in 0 .. now' /\ lastTick \in 0 .. now' /\ born \in 0 .. now'
      /\ td \in {Never} \cup 0 .. now' /\ td \in {Never} \cup last .. now'
  BY <1>2, <1>3 DEF Inv, TypeOK, LifeInv
<1>7. \A n \in DOMAIN disk :
        n[1] \in 0 .. Day(now') /\ n[2] \in 0 .. MaxFiles - 1 /\ disk[n] \in Seq(Lines)
  BY <1>2, <1>4 DEF Inv, TypeOK
<1>8. TypeOK'
  BY <1>1, <1>3, <1>5, <1>6, <1>7, Zenon DEF Inv, TypeOK
<1>9. LifeInv'
  BY <1>1, <1>6, Zenon DEF Inv, LifeInv
<1>10. DiskInv'
  <2>1. LastLine' \in Nat /\ LastLine =< LastLine'
    BY <1>1, <1>2, <1>3 DEF LastLine
  <2>2. Sound(disk, Day(now'), stored, count, LastLine')
    <3>1. Sound(disk, Day(now), stored, count, LastLine) /\ count =< count
      BY <1>2 DEF Inv, DiskInv
    <3> QED BY <1>2, <1>4, <2>1, <3>1, SoundMore
  <2>3. logDay \in 0 .. Day(now')
    BY <1>2, <1>4 DEF Inv, DiskInv
  <2> QED BY <1>1, <1>5, <2>2, <2>3 DEF DiskInv
<1> QED BY <1>1, <1>8, <1>9, <1>10, Zenon DEF Inv

(* A run begins with no line to answer for, whatever files it finds.       *)
LEMMA StartInv ==
  ASSUME Inv, Start
  PROVE  Inv'
<1>1. /\ phase = "down" /\ phase' = "init" /\ runs' = runs + 1 /\ runs < MaxRuns
      /\ lastTick' = now /\ last' = now /\ alarm' = NotSet /\ interval' = 0 /\ born' = now
      /\ now' = now /\ td' = td /\ faults' = faults /\ asked' = asked /\ heard' = heard
      /\ stored' = stored /\ logDay' = Day(now) /\ count' = 1
      /\ \/ stream' = Named /\ disk' = Opened(disk, File(Day(now)))
         \/ stream' = Closed /\ disk' = disk
  BY Zenon DEF Start, LogInit, TimerMade
<1>2. /\ now \in Nat /\ Day(now) \in Nat /\ Day(now)' = Day(now) /\ count \in Nat
      /\ LastLine = now /\ LastLine' = now
  BY <1>1, Times DEF Day, Hour, Minute, LastLine
<1>3. td = Never /\ heard = Nothing /\ stored = {}
  BY <1>1 DEF Inv, LifeInv
<1>4. 1 \in Nat /\ 1 \in 1 .. MaxFiles /\ runs' \in 0 .. MaxRuns /\ 0 \in Nat /\ now \in 0 .. now
  BY <1>1, <1>2, LogAssumption, MonitorAssumption DEF Inv, TypeOK
<1>5. Sound(disk', Day(now), {}, 1, now)
  <2>1. FileSystem(disk, Day(now)) /\ Distinct(disk) /\ AllBefore(disk, now)
    BY <1>2 DEF Inv, DiskInv, Sound
  <2>2. Sound(disk, Day(now), {}, 1, now)
    BY <2>1 DEF Sound, Carries
  <2>3. File(Day(now)) \in Names(Day(now))
    <3>1. Day(now) \in 0 .. Day(now) /\ 0 \in 0 .. MaxFiles - 1
      BY <1>2, LogAssumption
    <3> QED BY <3>1 DEF File, Names
  <2>4. Sound(Opened(disk, File(Day(now))), Day(now), {}, 1, now)
    BY <1>2, <2>2, <2>3, SoundOpened
  <2> QED BY <1>1, <2>2, <2>4
<1>6. \A n \in DOMAIN disk' :
        n[1] \in 0 .. Day(now) /\ n[2] \in 0 .. MaxFiles - 1 /\ disk'[n] \in Seq(Lines)
  BY <1>2, <1>5, DiskTypes DEF Sound
<1>7. TypeOK'
  <2>1. stream' \in {Closed, Named, Gone}
    BY <1>1
  <2>2. \A f \in Fields : NotSet[f] = NotSet[f] \/ NotSet[f].val \in Least[f] .. Greatest[f]
    OBVIOUS
  <2> QED BY <1>1, <1>2, <1>4, <1>6, <2>1, <2>2, Zenon DEF Inv, TypeOK
<1>8. LifeInv'
  <2>1. now =< now
    BY <1>2
  <2> QED BY <1>1, <1>3, <2>1 DEF LifeInv
<1>9. DiskInv'
  <2>1. Day(now) \in 0 .. Day(now)
    BY <1>2
  <2> QED BY <1>1, <1>2, <1>3, <1>5, <2>1 DEF DiskInv
<1> QED BY <1>1, <1>7, <1>8, <1>9, NotSetWord, Zenon DEF Inv

LEMMA AddTimerInv ==
  ASSUME Inv, AddTimer
  PROVE  Inv'
<1>1. /\ phase = "init" /\ phase' = "running" /\ now' = now
      /\ last' = last /\ alarm' = alarm /\ interval' = interval /\ disk' = disk
      /\ logDay' = logDay /\ stream' = stream /\ count' = count
      /\ lastTick' = lastTick /\ td' = td /\ runs' = runs /\ faults' = faults
      /\ asked' = asked /\ born' = born /\ heard' = heard /\ stored' = stored
  BY DEF AddTimer, timer, logEngine, history
<1>2. "init" # "down" /\ "running" # "down" /\ "running" # "init"
  OBVIOUS
<1>3. TypeOK'
  <2>1. phase' \in {"down", "init", "running"}
    BY <1>1
  <2> QED BY <1>1, <2>1, Zenon DEF Inv, TypeOK
<1>4. LifeInv'
  BY <1>1, <1>2, Zenon DEF Inv, LifeInv
<1>5. DiskInv'
  <2>1. LastLine' = LastLine
    BY <1>1, <1>2 DEF LastLine
  <2> QED BY <1>1, <2>1, Zenon DEF Inv, DiskInv
<1> QED BY <1>1, <1>3, <1>4, <1>5, Zenon DEF Inv

LEMMA ScheduleInv ==
  ASSUME Inv, Schedule
  PROVE  Inv'
<1>1. /\ phase = "running" /\ phase' = phase /\ lastTick' = now /\ td' = now /\ now' = now
      /\ last' = last /\ alarm' = alarm /\ interval' = interval /\ disk' = disk
      /\ logDay' = logDay /\ stream' = stream /\ count' = count
      /\ runs' = runs /\ faults' = faults
      /\ asked' = asked /\ born' = born /\ heard' = heard /\ stored' = stored
  BY DEF Schedule, timer, logEngine, history
<1>2. /\ now \in 0 .. now /\ now \in {Never} \cup 0 .. now /\ now \in {Never} \cup last .. now
  BY Times
<1>3. TypeOK'
  BY <1>1, <1>2, Zenon DEF Inv, TypeOK
<1>4. LifeInv'
  BY <1>1, <1>2, Zenon DEF Inv, LifeInv
<1>5. DiskInv'
  BY <1>1, Zenon DEF Inv, DiskInv, LastLine
<1> QED BY <1>1, <1>3, <1>4, <1>5, Zenon DEF Inv

(* Only the lines of the deleted file are given up.                        *)
LEMMA DeletesInv ==
  ASSUME Inv, Deletes
  PROVE  Inv'
<1> DEFINE gone == {disk[File(logDay)][i] : i \in DOMAIN disk[File(logDay)]}
<1>1. /\ phase # "down" /\ phase' = phase /\ faults < MaxFaults /\ faults' = faults + 1
      /\ disk' = Without(disk, File(logDay)) /\ stream' = Gone /\ stored' = stored \ gone
      /\ File(logDay) \in DOMAIN disk /\ logDay' = logDay /\ count' = count /\ now' = now
      /\ last' = last /\ alarm' = alarm /\ interval' = interval
      /\ lastTick' = lastTick /\ td' = td /\ runs' = runs
      /\ asked' = asked /\ born' = born /\ heard' = heard
  BY DEF Deletes, Delete, HasFile, timer
<1>2. LogInv /\ Day(now) \in Nat /\ count \in Nat /\ last \in Nat
  BY <1>1, RunningLog, Times
<1>3. Sound(disk', Day(now), stored', count, last)
  <2>1. stored' \in SUBSET stored
    BY <1>1
  <2>2. \A line \in stored' : \A m : Holds(disk, m, line) /\ m[2] < count => m # File(logDay)
    <3> SUFFICES ASSUME NEW line \in stored', Holds(disk, File(logDay), line) PROVE FALSE
      OBVIOUS
    <3>1. PICK i \in 1 .. Len(disk[File(logDay)]) : disk[File(logDay)][i] = line
      BY DEF Holds
    <3>2. DOMAIN disk[File(logDay)] = 1 .. Len(disk[File(logDay)])
      <4>1. disk[File(logDay)] \in Seq(Lines)
        BY <1>1 DEF Inv, TypeOK
      <4> QED BY <4>1
    <3>3. line \in gone
      BY <3>1, <3>2
    <3> QED BY <1>1, <3>3
  <2>3. Sound(disk, Day(now), stored, count, last)
    BY <1>2 DEF LogInv
  <2> QED BY <1>1, <1>2, <2>1, <2>2, <2>3, SoundWithout
<1>4. \A n \in DOMAIN disk' :
        n[1] \in 0 .. Day(now) /\ n[2] \in 0 .. MaxFiles - 1 /\ disk'[n] \in Seq(Lines)
  BY <1>2, <1>3, DiskTypes DEF Sound
<1>5. faults' \in 0 .. MaxFaults
  BY <1>1, MonitorAssumption DEF Inv, TypeOK
<1>6. Day(now)' = Day(now)
  BY <1>1 DEF Day, Hour, Minute
<1>7. stored' \subseteq Lines /\ stream' \in {Closed, Named, Gone}
  BY <1>1 DEF Inv, TypeOK
<1>8. TypeOK'
  BY <1>1, <1>4, <1>5, <1>6, <1>7, Zenon DEF Inv, TypeOK
<1>9. LifeInv'
  <2>1. stored = {} => stored' = {}
    BY <1>1
  <2> QED BY <1>1, <2>1, Zenon DEF Inv, LifeInv
<1>10. DiskInv'
  BY <1>1, <1>3, <1>6 DEF Inv, DiskInv, LastLine
<1> QED BY <1>1, <1>8, <1>9, <1>10, Zenon DEF Inv

LEMMA CrashInv ==
  ASSUME Inv, Crash
  PROVE  Inv'
<1>1. /\ phase # "down" /\ phase' = "down" /\ last' = 0 /\ alarm' = NotSet /\ interval' = 0
      /\ logDay' = 0 /\ stream' = Closed /\ count' = 1 /\ lastTick' = 0 /\ td' = Never
      /\ asked' = <<>> /\ born' = 0 /\ heard' = Nothing /\ stored' = {}
      /\ now' = now /\ disk' = disk /\ runs' = runs /\ faults' = faults
  BY DEF Crash
<1>2. now \in Nat /\ last \in Nat /\ last =< now /\ Day(now) \in Nat /\ count \in Nat
  BY Times
<1>3. 0 \in 0 .. now /\ 0 \in 0 .. Day(now) /\ 0 \in Nat /\ 1 \in Nat /\ 1 \in 1 .. MaxFiles
  BY <1>2, LogAssumption
<1>4. Sound(disk, Day(now), {}, 1, now)
  <2>1. Sound(disk, Day(now), stored, count, last)
    BY <1>1, RunningLog DEF LogInv
  <2>2. Sound(disk, Day(now), {}, count, now)
    <3>1. Day(now) =< Day(now) /\ count =< count
      BY <1>2
    <3> QED BY <1>2, <2>1, <3>1, SoundMore
  <2> QED BY <2>2 DEF Sound, Carries
<1>5. Day(now)' = Day(now)
  BY <1>1 DEF Day, Hour, Minute
<1>6. TypeOK'
  <2>1. \A f \in Fields : NotSet[f] = NotSet[f] \/ NotSet[f].val \in Least[f] .. Greatest[f]
    OBVIOUS
  <2>2. {} \subseteq Lines /\ Closed \in {Closed, Named, Gone} /\ Never \in {Never} \cup 0 .. now
    OBVIOUS
  <2> QED BY <1>1, <1>3, <1>5, <2>1, <2>2, Zenon DEF Inv, TypeOK
<1>7. LifeInv'
  BY <1>1 DEF LifeInv
<1>8. DiskInv'
  BY <1>1, <1>3, <1>4, <1>5 DEF DiskInv, LastLine
<1>9. heard' \in HeardType
  BY <1>1 DEF HeardType, Nothing, Never
<1> QED BY <1>1, <1>6, <1>7, <1>8, <1>9, NotSetWord, Zenon DEF Inv

-----------------------------------------------------------------------------
(* Tick.                                                                   *)

Line(t) == [at |-> t, cause |-> Cause(t)]

LEMMA Causes ==
  ASSUME NEW t
  PROVE  /\ Cause(t) \in {"interval", "alarm", "none"}
         /\ Cause(t) = "alarm" => ~SameMinute(last, t) /\ Matches(t)
         /\ Cause(t) = "interval" => interval > 0 /\ t - last >= interval
         /\ Cause(t) = "none" => SameMinute(last, t) \/ ~Matches(t)
BY DEF Cause

(* heard counts the callbacks of the minute of the latest Tick.            *)
LEMMA HeardIs ==
  ASSUME heard \in HeardType, NEW t \in Nat, NEW cause \in {"interval", "alarm", "none"}
  PROVE  LET a == IF heard.minute = Minute(t) THEN heard.alarm ELSE 0
             i == IF heard.minute = Minute(t) THEN heard.interval ELSE 0
             h == Heard(t, cause) IN
         /\ h \in HeardType /\ h.minute = Minute(t)
         /\ h.alarm = (IF cause = "alarm" THEN a + 1 ELSE a)
         /\ h.interval = (IF cause = "interval" THEN i + 1 ELSE i)
<1> DEFINE before == IF heard.minute = Minute(t) THEN heard
                     ELSE [Nothing EXCEPT !.minute = Minute(t)]
           a == IF heard.minute = Minute(t) THEN heard.alarm ELSE 0
           i == IF heard.minute = Minute(t) THEN heard.interval ELSE 0
<1>1. Minute(t) \in Nat
  BY TimesAndDays
<1>2. /\ before \in HeardType /\ before.minute = Minute(t)
      /\ before.alarm = a /\ before.interval = i
  BY <1>1 DEF HeardType, Nothing, Never
<1>3. Heard(t, cause) = IF cause = "none" THEN before ELSE [before EXCEPT ![cause] = before[cause] + 1]
  BY Zenon DEF Heard
<1> HIDE DEF before
<1>4. CASE cause = "none"
  BY <1>2, <1>3, <1>4
<1>5. CASE cause = "alarm"
  <2>1. Heard(t, cause) = [before EXCEPT !.alarm = before.alarm + 1]
    BY <1>3, <1>5
  <2> QED BY <1>2, <1>5, <2>1 DEF HeardType
<1>6. CASE cause = "interval"
  <2>1. Heard(t, cause) = [before EXCEPT !.interval = before.interval + 1]
    BY <1>3, <1>6
  <2> QED BY <1>2, <1>6, <2>1 DEF HeardType
<1> QED BY <1>4, <1>5, <1>6

LEMMA TickWritable ==
  ASSUME Inv, td # Never, Cause(td) # "none"
  PROVE  Writable(Line(td)) /\ Line(td).at = td /\ Line(td) \in Lines
<1>1. /\ now \in Nat /\ last \in Nat /\ td \in Nat /\ last =< td /\ td =< now /\ now =< MaxTime
  BY Times
<1>2. td \in 0 .. MaxTime /\ Cause(td) \in {"alarm", "interval"}
  BY <1>1, Causes, CalendarAssumption
<1>3. Line(td) \in Lines /\ Line(td).at = td /\ Line(td).cause = Cause(td)
  BY <1>2 DEF Line, Lines
<1>4. ASSUME Cause(td) = "alarm", NEW s \in 0 .. last PROVE Minute(s) # Minute(td)
  <2>1. Minute(last) # Minute(td)
    BY <1>1, <1>4, Causes, SameMinuteMeans
  <2>2. s \in Nat /\ s =< last
    BY <1>1
  <2>3. Minute(s) =< Minute(last) /\ Minute(last) =< Minute(td)
    BY <1>1, <2>2, TimeGoesBy
  <2>4. Minute(s) \in Nat /\ Minute(last) \in Nat /\ Minute(td) \in Nat
    BY <1>1, <2>2, TimesAndDays
  <2> QED BY <2>1, <2>3, <2>4
<1> QED BY <1>1, <1>3, <1>4 DEF Writable

(* Whatever the file system does to the line.                              *)
LEMMA TickLog ==
  ASSUME Inv, Tick
  PROVE  /\ phase = "running" /\ td # Never /\ td' = Never /\ phase' = phase /\ now' = now
         /\ last' = (IF Cause(td) = "none" THEN last ELSE td)
         /\ alarm' = alarm /\ interval' = interval /\ lastTick' = lastTick /\ runs' = runs
         /\ asked' = asked /\ born' = born /\ heard' = Heard(td, Cause(td))
         /\ faults' \in 0 .. MaxFaults /\ stored' \subseteq Lines
         /\ logDay' \in 0 .. Day(now) /\ stream' \in {Closed, Named, Gone}
         /\ count' \in 1 .. MaxFiles
         /\ Sound(disk', Day(now), stored', count', last')
<1>1. /\ phase = "running" /\ td # Never /\ td' = Never /\ phase' = phase /\ now' = now
      /\ last' = (IF Cause(td) = "none" THEN last ELSE td)
      /\ alarm' = alarm /\ interval' = interval /\ lastTick' = lastTick /\ runs' = runs
      /\ asked' = asked /\ born' = born /\ heard' = Heard(td, Cause(td))
  BY Zenon DEF Tick, Triggered
<1>2. LogInv /\ Sound(disk, Day(now), stored, count, last)
  <2>1. phase # "down"
    BY <1>1
  <2> QED BY <2>1, RunningLog DEF LogInv
<1>3. stored \subseteq Lines /\ faults \in 0 .. MaxFaults
  BY DEF Inv, TypeOK
<1>4. CASE Cause(td) = "none" /\ UNCHANGED <<disk, logEngine, faults, stored>>
  <2>1. last' = last
    BY <1>1, <1>4
  <2> QED BY <1>1, <1>2, <1>3, <1>4, <2>1 DEF LogInv, logEngine
<1>5. CASE /\ Cause(td) # "none" /\ LogTrue(<<Line(td)>>) /\ faults' = faults
           /\ stored' = IF stream = Gone /\ stream' = Gone THEN stored ELSE stored \cup {Line(td)}
  <2>1. Writable(Line(td)) /\ Line(td).at = td /\ Line(td) \in Lines
    BY <1>1, <1>5, TickWritable
  <2>2. last' = td
    BY <1>1, <1>5
  <2>3. stored' \subseteq Lines
    BY <1>3, <1>5, <2>1
  <2>4. /\ logDay' \in 0 .. Day(now) /\ stream' \in {Closed, Named, Gone}
        /\ count' \in 1 .. MaxFiles
        /\ Sound(disk', Day(now), IF stream = Gone /\ stream' = Gone THEN stored
                                  ELSE stored \cup {Line(td)}, count', Line(td).at)
    <3>1. Reaches(Line(td), <<Line(td)>>, {Line(td)})
      BY DEF Reaches
    <3> QED BY <1>2, <1>5, <2>1, <3>1, LogTrueSound
  <2> QED BY <1>1, <1>3, <1>5, <2>1, <2>2, <2>3, <2>4
<1>6. CASE /\ Cause(td) # "none" /\ (LogFalse \/ LogTrue(<<>>)) /\ stored' = stored
           /\ faults < MaxFaults /\ faults' = faults + 1
  <2>1. Writable(Line(td)) /\ Line(td).at = td
    BY <1>1, <1>6, TickWritable
  <2>2. last' = td
    BY <1>1, <1>6
  <2>3. faults' \in 0 .. MaxFaults
    BY <1>3, <1>6, MonitorAssumption
  <2>4. /\ logDay' \in 0 .. Day(now) /\ stream' \in {Closed, Named, Gone}
        /\ count' \in 1 .. MaxFiles
        /\ Sound(disk', Day(now), stored, count', Line(td).at)
    <3>1. CASE LogFalse
      BY <1>2, <2>1, <3>1, LogFalseSound
    <3>2. CASE LogTrue(<<>>)
      <4>1. Reaches(Line(td), <<>>, {})
        BY DEF Reaches
      <4>2. (IF stream = Gone /\ stream' = Gone THEN stored ELSE stored \cup {}) = stored
        OBVIOUS
      <4>3. /\ logDay' \in 0 .. Day(now) /\ stream' \in {Closed, Named, Gone}
            /\ count' \in 1 .. MaxFiles
            /\ Sound(disk', Day(now), IF stream = Gone /\ stream' = Gone THEN stored
                                      ELSE stored \cup {}, count', Line(td).at)
        BY <1>2, <2>1, <3>2, <4>1, LogTrueSound
      <4> QED BY <4>2, <4>3
    <3> QED BY <1>6, <3>1, <3>2
  <2> QED BY <1>1, <1>3, <1>6, <2>1, <2>2, <2>3, <2>4
<1>7. \/ Cause(td) = "none" /\ UNCHANGED <<disk, logEngine, faults, stored>>
      \/ /\ Cause(td) # "none" /\ LogTrue(<<Line(td)>>) /\ faults' = faults
         /\ stored' = IF stream = Gone /\ stream' = Gone THEN stored ELSE stored \cup {Line(td)}
      \/ /\ Cause(td) # "none" /\ (LogFalse \/ LogTrue(<<>>)) /\ stored' = stored
         /\ faults < MaxFaults /\ faults' = faults + 1
  <2>1. Line(td) = [at |-> td, cause |-> Cause(td)] /\ Line(td).cause = Cause(td)
    BY DEF Line
  <2> QED BY <2>1, Zenon DEF Tick
<1> QED BY <1>4, <1>5, <1>6, <1>7

LEMMA TickInv ==
  ASSUME Inv, Tick
  PROVE  Inv'
<1>1. /\ now \in Nat /\ last \in Nat /\ td \in Nat /\ last =< td /\ td =< now /\ Day(now) \in Nat
  BY Times, TickLog
<1>2. /\ phase = "running" /\ td # Never /\ td' = Never /\ phase' = phase /\ now' = now
      /\ last' = (IF Cause(td) = "none" THEN last ELSE td)
      /\ alarm' = alarm /\ interval' = interval /\ lastTick' = lastTick /\ runs' = runs
      /\ asked' = asked /\ born' = born /\ heard' = Heard(td, Cause(td))
      /\ faults' \in 0 .. MaxFaults /\ stored' \subseteq Lines
      /\ logDay' \in 0 .. Day(now) /\ stream' \in {Closed, Named, Gone}
      /\ count' \in 1 .. MaxFiles
      /\ Sound(disk', Day(now), stored', count', last')
  BY TickLog
<1>3. last' \in 0 .. now /\ last =< last'
  BY <1>1, <1>2
<1>4. heard' \in HeardType
  BY <1>1, <1>2, HeardIs, Causes DEF Inv
<1>5. Day(now)' = Day(now)
  BY <1>2 DEF Day, Hour, Minute
<1>6. \A n \in DOMAIN disk' :
        n[1] \in 0 .. Day(now) /\ n[2] \in 0 .. MaxFiles - 1 /\ disk'[n] \in Seq(Lines)
  BY <1>1, <1>2, DiskTypes DEF Sound
<1>7. TypeOK'
  BY <1>2, <1>3, <1>5, <1>6, Zenon DEF Inv, TypeOK
<1>8. LifeInv'
  <2>1. born \in Nat /\ born =< last
    BY <1>2 DEF Inv, TypeOK, LifeInv
  <2>2. born =< last'
    BY <1>1, <1>3, <2>1
  <2> QED BY <1>2, <2>2 DEF LifeInv
<1>9. DiskInv'
  BY <1>2, <1>5 DEF DiskInv, LastLine
<1> QED BY <1>2, <1>4, <1>7, <1>8, <1>9, Zenon DEF Inv

LEMMA NextInv == Inv /\ [Next]_vars => Inv'
<1> SUFFICES ASSUME Inv, [Next]_vars PROVE Inv'
  OBVIOUS
<1>1. CASE Clock
  BY <1>1, ClockInv
<1>2. CASE Start
  BY <1>2, StartInv
<1>3. CASE AddTimer
  BY <1>3, AddTimerInv
<1>4. CASE Schedule
  BY <1>4, ScheduleInv
<1>5. CASE Tick
  BY <1>5, TickInv
<1>6. CASE Deletes
  BY <1>6, DeletesInv
<1>7. CASE Crash
  BY <1>7, CrashInv
<1>8. ASSUME NEW a \in Alarms, Sets(a[1], a[2]) PROVE Inv'
  BY <1>8, SetsInv
<1>9. ASSUME NEW n \in Intervals, SetsInterval(n) PROVE Inv'
  BY <1>9, SetsIntervalInv
<1>10. CASE UNCHANGED vars
  <2>1. /\ now' = now /\ last' = last /\ alarm' = alarm /\ interval' = interval /\ disk' = disk
        /\ logDay' = logDay /\ stream' = stream /\ count' = count /\ phase' = phase
        /\ lastTick' = lastTick /\ td' = td /\ runs' = runs /\ faults' = faults
        /\ asked' = asked /\ born' = born /\ heard' = heard /\ stored' = stored
    BY <1>10 DEF vars, timer, logEngine, service, history
  <2> QED BY <2>1, Zenon DEF Inv, TypeOK, LifeInv, DiskInv, LastLine, Day, Hour, Minute
<1> QED BY <1>1, <1>2, <1>3, <1>4, <1>5, <1>6, <1>7, <1>8, <1>9, <1>10 DEF Next

(* The types: the words of the timer, the log's count and its files' names *)
(* stay in their limits.                                                   *)
THEOREM TypeCorrect == Spec => []TypeOK
<1>1. Inv => TypeOK
  BY DEF Inv
<1> QED BY InitInv, NextInv, <1>1, PTL DEF Spec

(* No minute's alarm is in the files twice, over crashes and restarts.     *)
THEOREM ReportedOnceKept == Spec => []ReportedOnce
<1>1. Inv => ReportedOnce
  <2> SUFFICES ASSUME Inv, NEW m \in DOMAIN disk, NEW n \in DOMAIN disk,
                      NEW i \in DOMAIN disk[m], NEW j \in DOMAIN disk[n],
                      disk[m][i].cause = "alarm", disk[n][j].cause = "alarm",
                      Minute(disk[m][i].at) = Minute(disk[n][j].at)
               PROVE  m = n /\ i = j
    BY Zenon DEF ReportedOnce
  <2>1. disk[m] \in Seq(Lines) /\ disk[n] \in Seq(Lines)
    BY DEF Inv, TypeOK
  <2>2. i \in 1 .. Len(disk[m]) /\ j \in 1 .. Len(disk[n])
    BY <2>1
  <2>3. AlarmAt(disk, m, i) /\ AlarmAt(disk, n, j) /\ Distinct(disk)
    BY <2>2 DEF AlarmAt, Inv, DiskInv, Sound
  <2> QED BY <2>3, Zenon DEF Distinct
<1> QED BY InitInv, NextInv, <1>1, PTL DEF Spec

(* A line that has reached its file is in one that log does not remove, as *)
(* its number is below the count's, whatever fails later.                  *)
THEOREM NoLineLostKept == Spec => []NoLineLost
<1>1. Inv => NoLineLost
  <2> SUFFICES ASSUME Inv, NEW line \in stored PROVE OnDisk(line)
    BY DEF NoLineLost
  <2>1. PICK n : Holds(disk, n, line)
    BY DEF Inv, DiskInv, Sound, Carries
  <2>2. disk[n] \in Seq(Lines) /\ n \in DOMAIN disk
    BY <2>1 DEF Inv, TypeOK, Holds
  <2> QED BY <2>1, <2>2 DEF Holds, OnDisk
<1> QED BY InitInv, NextInv, <1>1, PTL DEF Spec

-----------------------------------------------------------------------------
(* The alarm goes off exactly when it is due.                              *)

Proper(a) == a[2] \in Least[a[1]] .. Greatest[a[1]]

(* No Init takes a field's setting back that it has made, unless that was  *)
(* zero: the value would stay in the word and pass for an alarm.           *)
NotTakenBack == \A a, b \in Alarms : a[1] = b[1] /\ a[2] # 0 /\ Proper(a) => Proper(b)

(* The word holds what was asked for, and nothing else but zeros.          *)
AskedInv ==
  /\ DOMAIN asked \subseteq Fields
  /\ \A f \in Fields : alarm[f].on <=> f \in DOMAIN asked
  /\ \A f \in DOMAIN asked : alarm[f].val = asked[f]
ValInv ==
  \A f \in Fields : alarm[f].val # 0 =>
    /\ f \in DOMAIN asked
    /\ \E a \in Alarms : a[1] = f /\ a[2] = alarm[f].val /\ Proper(a)

(* An alarm is due at t.                                                   *)
DueAt(t) == DOMAIN asked # {} /\ \A f \in DOMAIN asked : asked[f] = Field(f, t)

(* How the last trigger stands to the minute m of the latest Tick, with    *)
(* a alarms and i intervals in it: a callback makes it the last trigger's  *)
(* minute, and it is that without a callback only if the timer was made in *)
(* it.                                                                     *)
MinuteInv(m, a, i) ==
  /\ Minute(last) =< m
  /\ a + i >= 1 => Minute(last) = m
  /\ a + i = 0 /\ Minute(last) = m => Minute(born) = m
  /\ a =< 1
  /\ a = 1 => DueAt(m * UnitsPerMinute) /\ m # Minute(born)
  /\ DueAt(m * UnitsPerMinute) /\ m # Minute(born) => a + i >= 1

HeardInv ==
  IF heard.minute = Never THEN phase # "down" => last = born
  ELSE /\ MinuteInv(heard.minute, heard.alarm, heard.interval)
       /\ heard.minute =< Minute(now)
       /\ td # Never => heard.minute =< Minute(td)

WordInv == AskedInv /\ ValInv

LEMMA AlarmDue ==
  ASSUME Inv, WordInv, NEW t \in Nat
  PROVE  Matches(t) <=> DueAt(Minute(t) * UnitsPerMinute)
<1>1. AlarmSet <=> DOMAIN asked # {}
  <2>1. ASSUME AlarmSet PROVE DOMAIN asked # {}
    BY <2>1, Zenon DEF AlarmSet, WordInv, AskedInv, ValInv
  <2>2. ASSUME NEW f \in DOMAIN asked PROVE AlarmSet
    BY <2>2, Zenon DEF AlarmSet, WordInv, AskedInv
  <2> QED BY <2>1, <2>2
<1>2. DueAt(Minute(t) * UnitsPerMinute) <=> DueAt(t)
  BY FieldOfMinute, Zenon DEF DueAt
<1>3. (\A f \in Fields : alarm[f].on => alarm[f].val = Field(f, t))
      <=> (\A f \in DOMAIN asked : asked[f] = Field(f, t))
  BY Zenon DEF WordInv, AskedInv
<1> QED BY <1>1, <1>2, <1>3, Zenon DEF Matches, DueAt

LEMMA SetsWord ==
  ASSUME NotTakenBack, Inv, WordInv, NEW a \in Alarms, Sets(a[1], a[2])
  PROVE  WordInv'
<1> DEFINE f == a[1]
           v == a[2]
<1>1. f \in Fields /\ v \in Int
  BY MonitorAssumption
<1>2. /\ SetAlarm(f, v)
      /\ asked' = IF v \in Least[f] .. Greatest[f] THEN With(asked, f, v)
                  ELSE [g \in DOMAIN asked \ {f} |-> asked[g]]
  BY DEF Sets
<1>3. /\ alarm' \in AlarmWord /\ \A g \in Fields \ {f} : alarm'[g] = alarm[g]
      /\ IF v \in Least[f] .. Greatest[f] THEN alarm'[f] = [on |-> TRUE, val |-> v]
         ELSE alarm'[f] = [on |-> FALSE, val |-> alarm[f].val]
  BY <1>1, <1>2, AlarmKept DEF Inv, TypeOK
<1>4. Proper(a) <=> v \in Least[f] .. Greatest[f]
  BY DEF Proper
<1> HIDE DEF f, v
<1>5. CASE Proper(a)
  <2>1. alarm'[f].on = TRUE /\ alarm'[f].val = v
    BY <1>3, <1>4, <1>5
  <2>2. DOMAIN asked' = DOMAIN asked \cup {f} /\ asked'[f] = v
        /\ \A g \in DOMAIN asked \ {f} : asked'[g] = asked[g]
    BY <1>2, <1>4, <1>5 DEF With
  <2>3. AskedInv'
    BY <1>1, <1>3, <2>1, <2>2 DEF WordInv, AskedInv
  <2>4. ASSUME NEW g \in Fields, alarm'[g].val # 0
        PROVE  /\ g \in DOMAIN asked'
               /\ \E b \in Alarms : b[1] = g /\ b[2] = alarm'[g].val /\ Proper(b)
    <3>1. CASE g = f
      BY <1>5, <2>1, <2>2, <3>1 DEF f, v
    <3>2. CASE g # f
      BY <1>3, <2>2, <2>4, <3>2 DEF WordInv, ValInv
    <3> QED BY <3>1, <3>2
  <2> QED BY <2>3, <2>4 DEF WordInv, ValInv, Proper
<1>6. CASE ~Proper(a)
  <2>1. alarm'[f].on = FALSE /\ alarm'[f].val = alarm[f].val
    BY <1>3, <1>4, <1>6
  <2>2. DOMAIN asked' = DOMAIN asked \ {f}
        /\ \A g \in DOMAIN asked \ {f} : asked'[g] = asked[g]
    BY <1>2, <1>4, <1>6
  <2>3. AskedInv'
    BY <1>1, <1>3, <2>1, <2>2 DEF WordInv, AskedInv
  <2>4. alarm[f].val = 0
    <3> SUFFICES ASSUME alarm[f].val # 0 PROVE FALSE
      OBVIOUS
    <3>1. PICK b \in Alarms : b[1] = f /\ b[2] = alarm[f].val /\ Proper(b)
      BY <1>1 DEF WordInv, ValInv
    <3> QED BY <1>6, <3>1 DEF NotTakenBack, f
  <2>5. ASSUME NEW g \in Fields, alarm'[g].val # 0
        PROVE  /\ g \in DOMAIN asked'
               /\ \E b \in Alarms : b[1] = g /\ b[2] = alarm'[g].val /\ Proper(b)
    <3>1. g # f
      BY <2>1, <2>4, <2>5
    <3> QED BY <1>3, <2>2, <2>5, <3>1 DEF WordInv, ValInv
  <2> QED BY <2>3, <2>5 DEF WordInv, ValInv, Proper
<1> QED BY <1>5, <1>6

LEMMA InitWord == Init => WordInv /\ HeardInv
<1> SUFFICES ASSUME Init PROVE WordInv /\ HeardInv
  OBVIOUS
<1>1. alarm = NotSet /\ DOMAIN asked = {} /\ heard.minute = Never /\ phase = "down"
  BY DEF Init, Nothing
<1> QED BY <1>1, NotSetWord DEF WordInv, AskedInv, ValInv, HeardInv

(* Nothing but a setter changes the word once there is one.                *)
LEMMA NextWord ==
  ASSUME NotTakenBack, Inv, WordInv, [Next]_vars
  PROVE  WordInv'
<1>1. ASSUME NEW a \in Alarms, Sets(a[1], a[2]) PROVE WordInv'
  BY <1>1, SetsWord
<1>2. ASSUME alarm' = NotSet, DOMAIN asked' = {} PROVE WordInv'
  BY <1>2, NotSetWord DEF WordInv, AskedInv, ValInv
<1>3. ASSUME alarm' = alarm, asked' = asked PROVE WordInv'
  BY <1>3, Zenon DEF WordInv, AskedInv, ValInv, Proper
<1>4. CASE Start
  <2>1. alarm' = NotSet /\ asked' = asked /\ phase = "down"
    BY <1>4, Zenon DEF Start, TimerMade
  <2>2. asked = <<>>
    BY <2>1, Zenon DEF Inv, LifeInv
  <2> QED BY <1>2, <2>1, <2>2
<1>5. CASE Crash
  <2>1. alarm' = NotSet /\ asked' = <<>>
    BY <1>5, Zenon DEF Crash
  <2> QED BY <1>2, <2>1
<1>6. CASE Clock \/ AddTimer \/ Schedule \/ Deletes \/ UNCHANGED vars
  BY <1>3, <1>6, Zenon DEF Clock, AddTimer, Schedule, Deletes, vars, timer, history
<1>7. CASE Tick
  BY <1>3, <1>7, Zenon DEF Tick, Triggered
<1>8. ASSUME NEW n \in Intervals, SetsInterval(n) PROVE WordInv'
  BY <1>3, <1>8, Zenon DEF SetsInterval, SetInterval, history
<1> QED BY <1>1, <1>4, <1>5, <1>6, <1>7, <1>8 DEF Next

(* Ticks within a minute, before it and after a time without any: what a   *)
(* Tick at t finds in a minute of which it has heard a alarms and i        *)
(* intervals.                                                              *)
LEMMA TickFinds ==
  ASSUME Inv, HeardInv, phase = "running", td # Never,
         NEW a, a = (IF heard.minute = Minute(td) THEN heard.alarm ELSE 0),
         NEW i, i = (IF heard.minute = Minute(td) THEN heard.interval ELSE 0),
         NEW due, due = DueAt(Minute(td) * UnitsPerMinute)
  PROVE  /\ a \in Nat /\ i \in Nat /\ a =< 1
         /\ a + i >= 1 => Minute(last) = Minute(td)
         /\ a + i = 0 /\ Minute(last) = Minute(td) => Minute(born) = Minute(td)
         /\ a = 1 => due /\ Minute(td) # Minute(born)
         /\ due /\ Minute(td) # Minute(born) => a + i >= 1 \/ Minute(last) # Minute(td)
<1>1. td \in Nat /\ last \in Nat /\ heard.alarm \in Nat /\ heard.interval \in Nat
      /\ heard.minute \in Int
  BY Times DEF Inv, HeardType
<1>2. Minute(td) \in Nat /\ Minute(last) \in Nat
  BY <1>1, TimesAndDays
<1>3. CASE heard.minute = Minute(td)
  <2>1. heard.minute # Never
    BY <1>2, <1>3 DEF Never
  <2>2. MinuteInv(Minute(td), a, i) /\ a = heard.alarm /\ i = heard.interval
    BY <1>3, <2>1, Zenon DEF HeardInv
  <2> QED BY <1>1, <2>2 DEF MinuteInv
<1>4. CASE heard.minute # Minute(td)
  <2>1. a = 0 /\ i = 0
    BY <1>4
  <2>2. CASE heard.minute = Never
    <3>1. last = born
      BY <2>2 DEF HeardInv
    <3> QED BY <2>1, <3>1
  <2>3. CASE heard.minute # Never
    <3>1. Minute(last) =< heard.minute /\ heard.minute =< Minute(td)
      BY <2>3 DEF HeardInv, MinuteInv
    <3>2. Minute(last) # Minute(td)
      BY <1>1, <1>2, <1>4, <3>1
    <3> QED BY <2>1, <3>2
  <2> QED BY <2>2, <2>3
<1> QED BY <1>3, <1>4

LEMMA TickHeard ==
  ASSUME Inv, WordInv, HeardInv, Tick
  PROVE  HeardInv'
<1> DEFINE m == Minute(td)
           a == IF heard.minute = m THEN heard.alarm ELSE 0
           i == IF heard.minute = m THEN heard.interval ELSE 0
           due == DueAt(m * UnitsPerMinute)
           b == Minute(born)
<1>1. /\ phase = "running" /\ td # Never /\ td' = Never /\ now' = now
      /\ last' = (IF Cause(td) = "none" THEN last ELSE td)
      /\ asked' = asked /\ born' = born /\ heard' = Heard(td, Cause(td))
  BY TickLog
<1>2. /\ now \in Nat /\ last \in Nat /\ td \in Nat /\ last =< td /\ td =< now
      /\ born \in Nat /\ born =< last
  BY <1>1, Times DEF Inv, TypeOK, LifeInv
<1>3. /\ m \in Nat /\ b \in Nat /\ Minute(last) \in Nat /\ Minute(now) \in Nat
      /\ b =< Minute(last) /\ Minute(last) =< m /\ m =< Minute(now)
  BY <1>2, TimesAndDays, TimeGoesBy
<1>4. /\ a \in Nat /\ i \in Nat /\ a =< 1
      /\ a + i >= 1 => Minute(last) = m
      /\ a + i = 0 /\ Minute(last) = m => b = m
      /\ a = 1 => due /\ m # b
      /\ due /\ m # b => a + i >= 1 \/ Minute(last) # m
  BY <1>1, TickFinds
<1>5. /\ heard'.minute = m
      /\ heard'.alarm = (IF Cause(td) = "alarm" THEN a + 1 ELSE a)
      /\ heard'.interval = (IF Cause(td) = "interval" THEN i + 1 ELSE i)
  BY <1>1, <1>2, HeardIs, Causes DEF Inv
<1>6. SameMinute(last, td) <=> Minute(last) = m
  BY <1>2, SameMinuteMeans
<1>7. Matches(td) <=> due
  BY <1>2, AlarmDue
<1>8. (Minute(last))' = IF Cause(td) = "none" THEN Minute(last) ELSE m
  BY <1>1 DEF Minute
<1>9. Minute(born)' = b /\ Minute(now)' = Minute(now)
  BY <1>1 DEF Minute
<1>14. DueAt(heard.minute * UnitsPerMinute)' = due
  BY <1>1, <1>5, Zenon DEF DueAt
<1> HIDE DEF m, a, i, b, due
<1>10. Cause(td) \in {"interval", "alarm", "none"}
       /\ (Cause(td) = "alarm" => Minute(last) # m /\ due)
       /\ (Cause(td) = "none" => Minute(last) = m \/ ~due)
  BY <1>6, <1>7, Causes
<1>11. heard'.minute # Never /\ td' = Never /\ heard'.minute =< Minute(now)'
  BY <1>1, <1>3, <1>5, <1>9 DEF Never
<1> DEFINE a2 == heard'.alarm
           i2 == heard'.interval
           l2 == (Minute(last))'
<1>12. /\ l2 =< m
       /\ a2 + i2 >= 1 => l2 = m
       /\ a2 + i2 = 0 /\ l2 = m => b = m
       /\ a2 =< 1
       /\ a2 = 1 => due /\ m # b
       /\ due /\ m # b => a2 + i2 >= 1
  <2> HIDE DEF a2, i2, l2
  <2>1. CASE Cause(td) = "none"
    <3>1. a2 = a /\ i2 = i /\ l2 = Minute(last)
      BY <1>5, <1>8, <2>1 DEF a2, i2, l2
    <3> QED BY <1>3, <1>4, <1>10, <2>1, <3>1
  <2>2. CASE Cause(td) = "alarm"
    <3>1. a2 = a + 1 /\ i2 = i /\ l2 = m
      BY <1>5, <1>8, <2>2 DEF a2, i2, l2
    <3> QED BY <1>3, <1>4, <1>10, <2>2, <3>1
  <2>3. CASE Cause(td) = "interval"
    <3>1. a2 = a /\ i2 = i + 1 /\ l2 = m
      BY <1>5, <1>8, <2>3 DEF a2, i2, l2
    <3> QED BY <1>3, <1>4, <2>3, <3>1
  <2> QED BY <1>10, <2>1, <2>2, <2>3
<1>13. MinuteInv(heard.minute, heard.alarm, heard.interval)'
  BY <1>5, <1>9, <1>12, <1>14, Zenon DEF MinuteInv
<1> QED BY <1>1, <1>5, <1>11, <1>13 DEF HeardInv

(* The other steps hear nothing.                                           *)
LEMMA NextHeard ==
  ASSUME Inv, WordInv, HeardInv, [Next]_vars
  PROVE  HeardInv'
<1>1. CASE Tick
  BY <1>1, TickHeard
<1>2. ASSUME heard' = Nothing, phase' # "down" => last' = born' PROVE HeardInv'
  BY <1>2 DEF HeardInv, Nothing
<1>3. CASE Start
  <2>1. phase = "down" /\ heard' = heard /\ last' = now /\ born' = now
    BY <1>3, Zenon DEF Start, TimerMade
  <2>2. heard = Nothing
    BY <2>1 DEF Inv, LifeInv
  <2> QED BY <1>2, <2>1, <2>2
<1>4. CASE Crash
  BY <1>2, <1>4, Zenon DEF Crash
<1>5. ASSUME heard' = heard, last' = last, born' = born, asked' = asked, phase' # "down" => phase # "down",
             Minute(now) =< (Minute(now))', td' = td \/ (td' = now /\ now' = now)
      PROVE  HeardInv'
  <2>1. CASE heard.minute = Never
    BY <1>5, <2>1 DEF HeardInv
  <2>2. CASE heard.minute # Never
    <3>1. /\ MinuteInv(heard.minute, heard.alarm, heard.interval)
          /\ heard.minute =< Minute(now) /\ (td # Never => heard.minute =< Minute(td))
      BY <2>2, Zenon DEF HeardInv
    <3>2. MinuteInv(heard.minute, heard.alarm, heard.interval)'
      BY <1>5, <3>1, Zenon DEF MinuteInv, Minute, DueAt
    <3>3. now \in Nat /\ heard.minute \in Int /\ Minute(now) \in Nat
      BY Times, TimesAndDays DEF Inv, HeardType
    <3>4. (Minute(now))' \in Nat
      <4>1. now' \in Nat
        <5>1. now' \in 0 .. MaxTime
          BY NextInv DEF Inv, TypeOK
        <5> QED BY <5>1, CalendarAssumption
      <4> QED BY <4>1, TimesAndDays DEF Minute
    <3>5. heard'.minute =< (Minute(now))'
      BY <1>5, <3>1, <3>3, <3>4
    <3>6. td' # Never => heard'.minute =< (Minute(td))'
      BY <1>5, <3>1 DEF Minute
    <3> QED BY <1>5, <2>2, <3>2, <3>5, <3>6, Zenon DEF HeardInv
  <2> QED BY <2>1, <2>2
<1>6. now \in Nat /\ Minute(now) \in Nat /\ Minute(now) =< Minute(now)
  BY Times, TimesAndDays
<1>7. CASE Clock
  <2>1. /\ now' = now + 1 /\ heard' = heard /\ last' = last /\ born' = born /\ asked' = asked
        /\ phase' = phase /\ td' = td
    BY <1>7, Zenon DEF Clock, Advance, timer, service, history
  <2>2. Minute(now) =< Minute(now + 1)
    BY <1>6, TimeGoesBy
  <2>3. (Minute(now))' = Minute(now + 1)
    BY <2>1 DEF Minute
  <2>4. Minute(now) =< (Minute(now))'
    BY <2>2, <2>3, Zenon
  <2> QED BY <1>5, <2>1, <2>4, Zenon
<1>8. CASE AddTimer \/ Schedule \/ Deletes \/ UNCHANGED vars
  <2>1. /\ now' = now /\ heard' = heard /\ last' = last /\ born' = born /\ asked' = asked
        /\ (phase' # "down" => phase # "down") /\ (td' = td \/ td' = now)
    BY <1>8 DEF AddTimer, Schedule, Deletes, vars, timer, service, history
  <2>2. (Minute(now))' = Minute(now)
    BY <2>1 DEF Minute
  <2> QED BY <1>5, <1>6, <2>1, <2>2, Zenon
<1>9. ASSUME NEW a \in Alarms, Sets(a[1], a[2]) PROVE HeardInv'
  <2>1. phase = "init" /\ heard' = heard /\ last' = last /\ born' = born
    BY <1>9, Zenon DEF Sets, SetAlarm
  <2>2. heard = Nothing /\ last = born
    BY <2>1 DEF Inv, LifeInv
  <2> QED BY <1>2, <2>1, <2>2
<1>10. ASSUME NEW n \in Intervals, SetsInterval(n) PROVE HeardInv'
  <2>1. phase = "init" /\ heard' = heard /\ last' = last /\ born' = born
    BY <1>10, Zenon DEF SetsInterval, SetInterval, history
  <2>2. heard = Nothing /\ last = born
    BY <2>1 DEF Inv, LifeInv
  <2> QED BY <1>2, <2>1, <2>2
<1> QED BY <1>1, <1>3, <1>4, <1>7, <1>8, <1>9, <1>10 DEF Next

(* The alarm goes off at most once in a minute, only in one it was set     *)
(* for, and the first Tick in such a minute calls back, over crashes and   *)
(* restarts.                                                               *)
THEOREM AlarmExactKept ==
  ASSUME NotTakenBack
  PROVE  Spec => []AlarmExact
<1>1. Inv /\ WordInv /\ HeardInv => AlarmExact
  <2> SUFFICES ASSUME Inv, HeardInv, heard.minute # Never
               PROVE  /\ heard.alarm =< 1
                      /\ heard.alarm = 1 => Due
                      /\ Due => heard.alarm + heard.interval >= 1
    BY Zenon DEF AlarmExact
  <2>1. MinuteInv(heard.minute, heard.alarm, heard.interval)
    BY Zenon DEF HeardInv
  <2>2. Due <=> DueAt(heard.minute * UnitsPerMinute) /\ heard.minute # Minute(born)
    BY Zenon DEF Due, DueAt
  <2> QED BY <2>1, <2>2, Zenon DEF MinuteInv
<1>2. Init => Inv /\ WordInv /\ HeardInv
  BY InitInv, InitWord
<1>3. Inv /\ WordInv /\ HeardInv /\ [Next]_vars => (Inv /\ WordInv /\ HeardInv)'
  BY NextInv, NextWord, NextHeard
<1> QED BY <1>1, <1>2, <1>3, PTL DEF Spec
=============================================================================
