----------------------------- MODULE LogEngine ------------------------------
(***************************************************************************)
(* Log_Engine and the files it writes: a file per day, moved aside when it *)
(* is full and opened anew, up to MaxFiles files.  Before each line        *)
(* check_file looks at the clock, the count and the file.                  *)
(*                                                                         *)
(* A file has the name <<day, 0>> while it is written to and <<day, k>>    *)
(* when it has been moved aside as number k.  Opening, removing and        *)
(* renaming may fail, and so may a write, whose result nobody looks at:    *)
(* `lines' are the lines that reach the file, the one there is to write or *)
(* none.  Somebody may delete a file that is being written: then the       *)
(* stream goes on into a file that has no name.                            *)
(***************************************************************************)
EXTENDS Calendar, Sequences

CONSTANTS
  MaxLines,  (* lines of a full file, for max_log_file_size                *)
  MaxFiles   (* max_log_file_count, 8                                      *)

ASSUME LogAssumption == MaxLines \in Nat \ {0} /\ MaxFiles \in Nat \ {0}

VARIABLES
  disk,     (* the lines of each file there is                             *)
  logDay,   (* the date in m_file_name                                     *)
  stream,   (* m_file: closed, on the file m_file_name, or on a nameless   *)
  count     (* m_file_count                                                *)

logEngine == <<logDay, stream, count>>
Closed == "closed"
Named  == "named"
Gone   == "gone"

File(d) == <<d, 0>>
HasFile(dk, n) == n \in DOMAIN dk

(* f, and y for x.                                                         *)
With(f, x, y) == [z \in DOMAIN f \cup {x} |-> IF z = x THEN y ELSE f[z]]

(* fopen "a+" makes the file if there is none.                             *)
Opened(dk, n) == IF HasFile(dk, n) THEN dk ELSE With(dk, n, <<>>)
Written(dk, n, lines) == [Opened(dk, n) EXCEPT ![n] = @ \o lines]
Without(dk, n) == [m \in DOMAIN dk \ {n} |-> dk[m]]

(* The constructor and init, whose result nobody looks at.                 *)
LogInit ==
  /\ logDay' = Day(now) /\ count' = 1
  /\ \/ stream' = Named /\ disk' = Opened(disk, File(Day(now)))
     \/ stream' = Closed /\ UNCHANGED disk

(* What opening m_file_name again and writing to it does to dk; or there   *)
(* is no writing, as the file cannot be opened.                            *)
Reopened(dk, lines, ok) ==
  IF ok THEN stream' = Named /\ disk' = Written(dk, File(Day(now)), lines)
        ELSE stream' = Closed /\ disk' = dk

(* The disk when m_file_name is open, as it is from 1. on.                 *)
FromStream == IF stream = Closed THEN Opened(disk, File(logDay)) ELSE disk

(* 1. The file is not open and cannot be opened.                           *)
CannotOpen ==
  stream = Closed /\ UNCHANGED <<disk, logEngine>>

(* 2. The date has changed.                                                *)
NewDay(lines, ok) ==
  /\ logDay # Day(now)
  /\ logDay' = Day(now)
  /\ Reopened(FromStream, lines, ok)
  /\ UNCHANGED count

(* Faulty: files are moved aside without end.                              *)
AtLimit_Never == FALSE

(* 3. After the last file only that one is written, whatever became of it. *)
AtLimit == count = MaxFiles

WriteOn(lines) ==
  /\ stream' = IF stream = Gone THEN Gone ELSE Named
  /\ disk' = IF stream = Gone THEN disk ELSE Written(disk, File(logDay), lines)
  /\ UNCHANGED <<logDay, count>>

LastFile(lines) == logDay = Day(now) /\ AtLimit /\ WriteOn(lines)

(* 4. The file has been deleted, has room, or is moved aside.              *)
Deleted(lines, ok) ==
  /\ logDay = Day(now) /\ ~AtLimit
  /\ ~HasFile(FromStream, File(logDay))
  /\ Reopened(FromStream, lines, ok)
  /\ UNCHANGED <<logDay, count>>

Size == Len(FromStream[File(logDay)])

HasRoom(lines) ==
  /\ logDay = Day(now) /\ ~AtLimit
  /\ HasFile(FromStream, File(logDay)) /\ Size < MaxLines
  /\ WriteOn(lines)

Full ==
  /\ logDay = Day(now) /\ ~AtLimit
  /\ HasFile(FromStream, File(logDay)) /\ Size >= MaxLines

Aside == <<logDay, count>>

(* An old file of that name stays in the way.                              *)
CannotRemove ==
  /\ Full /\ HasFile(FromStream, Aside)
  /\ disk' = FromStream /\ stream' = Named
  /\ UNCHANGED <<logDay, count>>

(* Faulty: the next file gets the same number.                             *)
NextCount_Same == count

NextCount == count + 1

(* rename's result is not looked at.                                       *)
MoveAside(lines, renamed, ok) ==
  LET cleared == Without(FromStream, Aside)
      moved   == With(Without(cleared, File(logDay)), Aside, cleared[File(logDay)]) IN
  /\ Full
  /\ count' = NextCount
  /\ Reopened(IF renamed THEN moved ELSE cleared, lines, ok)
  /\ UNCHANGED logDay

(* log returns TRUE when the file is open, whatever Print, PrintArg and    *)
(* Flush say of the writing, and FALSE when check_file gives up.           *)
LogTrue(lines) ==
  \/ NewDay(lines, TRUE) \/ LastFile(lines) \/ Deleted(lines, TRUE) \/ HasRoom(lines)
  \/ \E renamed \in BOOLEAN : MoveAside(lines, renamed, TRUE)
LogFalse ==
  \/ CannotOpen \/ NewDay(<<>>, FALSE) \/ Deleted(<<>>, FALSE) \/ CannotRemove
  \/ \E renamed \in BOOLEAN : MoveAside(<<>>, renamed, FALSE)

(* Somebody deletes the file that is being written.                        *)
Delete ==
  /\ stream = Named /\ HasFile(disk, File(logDay))
  /\ disk' = Without(disk, File(logDay))
  /\ stream' = Gone
  /\ UNCHANGED <<logDay, count>>

=============================================================================
