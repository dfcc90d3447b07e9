----------------------------- MODULE Attendance -----------------------------
(***************************************************************************)
(* Attendance punches (attendance.service.ts).  A punch reads the account, *)
(* then the rows of the day, then updates or creates one row.  The QR page *)
(* only checks a branch and looks up a PIN before it.                      *)
(***************************************************************************)
EXTENDS Requests

CONSTANTS
  Staff,
  Days,
  Times,       \* clock readings, in minutes
  LateCutoff,  \* LATE_CUTOFF
  HalfDay,     \* HALF_DAY_MAX_MINUTES
  Entries,     \* what administrators enter by hand
  MaxShifts    \* bound: attendance rows

Unset  == 0    \* a check-in or check-out that is NULL
Status == {"PRESENT", "LATE", "HALF_DAY", "ABSENT"}
Shift  == [staff : Staff, day : Days, in : Times \cup {Unset}, out : Times \cup {Unset},
           status : Status]

ASSUME AttendanceAssumption == Unset \notin Times /\ Entries \subseteq Shift

VARIABLES
  employed,   \* active staff; they punch at the branch they are assigned to
  shifts,     \* the Attendance rows, by creation number
  lasting     \* ghost, per client: the rows left alone since it asked

shiftVars == <<employed, shifts, lasting>>

Numbers == 1..MaxShifts

ShiftInit ==
  /\ employed = Staff
  /\ shifts = [n \in Numbers |-> Null]
  /\ lasting = [c \in Clients |-> {}]

Recorded == {n \in Numbers : shifts[n] # Null}
Open(s)  == s.in # Unset /\ s.out = Unset

StillRecorded ==
  lasting' = [c \in Clients |->
    IF pc'[c] = "idle" THEN {}
    ELSE {n \in IF pc[c] = "idle" THEN Recorded ELSE lasting[c] : shifts'[n] = shifts[n]}]

\* A new row takes the next number; createdAt orders the rows alike.
Insert(s) ==
  \E n \in Numbers \ Recorded :
    /\ \A k \in Recorded : k < n
    /\ shifts' = [shifts EXCEPT ![n] = s]

-----------------------------------------------------------------------------
StatusIn(in) == IF in > LateCutoff THEN "LATE" ELSE "PRESENT"

\* statusForCheckOut: a short shift is half a day, also one that ends, by the
\* clock of the client, before it began.
StatusOut(in, out) == IF out < in + HalfDay THEN "HALF_DAY" ELSE StatusIn(in)

Punch(c) ==
  /\ \E s \in Staff, d \in Days, t \in Times :
       Arrive(c, "punch.staff", [staff |-> s, day |-> d, time |-> t])
  /\ UNCHANGED <<employed, shifts>>

PunchStaff(c) ==
  /\ pc[c] = "punch.staff"
  /\ IF req[c].staff \in employed THEN Goto(c, "punch.rows", req[c]) ELSE Answer(c)
  /\ UNCHANGED <<employed, shifts>>

OfDay(c) == {n \in Recorded : shifts[n].staff = req[c].staff /\ shifts[n].day = req[c].day}

Newest(S) == CHOOSE n \in S : \A k \in S : k <= n

\* Mutant: only the newest row of the day is looked at.
OpenRows_Newest(rows) == {n \in rows : n = Newest(rows) /\ Open(shifts[n])}

\* The shifts under way, of which the newest is closed.
OpenRows(rows) == {n \in rows : Open(shifts[n])}

BlankRows(rows) == {n \in rows : shifts[n].in = Unset /\ shifts[n].out = Unset}

PunchRows(c) ==
  LET open == OpenRows(OfDay(c))  blank == BlankRows(OfDay(c))
      Found(kind, row, in) ==
        [staff |-> req[c].staff, day |-> req[c].day, time |-> req[c].time,
         kind |-> kind, row |-> row, in |-> in] IN
  /\ pc[c] = "punch.rows"
  /\ Goto(c, "punch.write",
          IF open # {} THEN Found("out", Newest(open), shifts[Newest(open)].in)
          ELSE IF blank # {} THEN Found("in", Newest(blank), Unset)
          ELSE Found("new", Null, Unset))
  /\ UNCHANGED <<employed, shifts>>

\* Updates by id; the row it read may have been changed, or deleted.
PunchWrite(c) ==
  LET r == req[c]
      entry == [staff |-> r.staff, day |-> r.day, in |-> r.time, out |-> Unset,
                status |-> StatusIn(r.time)] IN
  /\ pc[c] = "punch.write"
  /\ CASE r.kind = "new" -> Insert(entry)
       [] r.kind = "in"  -> shifts' = [shifts EXCEPT ![r.row] = IF @ = Null THEN @ ELSE entry]
       [] r.kind = "out" ->
            shifts' = [shifts EXCEPT ![r.row] =
              IF @ = Null THEN @
              ELSE [@ EXCEPT !.out = r.time, !.status = StatusOut(r.in, r.time)]]
  /\ Answer(c)
  /\ UNCHANGED employed

\* upsertAttendanceRecord: an administrator enters a day by hand, over the
\* row findFirst returns when there is one.
ManualEntry(c) ==
  /\ \E e \in Entries : Arrive(c, "manual.find", e)
  /\ UNCHANGED <<employed, shifts>>

ManualFind(c) ==
  /\ pc[c] = "manual.find"
  /\ IF OfDay(c) = {} THEN Goto(c, "manual.write", [entry |-> req[c], row |-> Null])
     ELSE \E n \in OfDay(c) : Goto(c, "manual.write", [entry |-> req[c], row |-> n])
  /\ UNCHANGED <<employed, shifts>>

ManualWrite(c) ==
  LET r == req[c] IN
  /\ pc[c] = "manual.write"
  /\ IF r.row = Null THEN Insert(r.entry)
     ELSE shifts' = [shifts EXCEPT ![r.row] = IF @ = Null THEN @ ELSE r.entry]
  /\ Answer(c)
  /\ UNCHANGED employed

ResetAttendance(c) ==
  /\ AtOnce(c)
  /\ shifts' = [n \in Numbers |-> Null]
  /\ UNCHANGED employed

Hire(c) ==
  /\ AtOnce(c)
  /\ \E s \in Staff : employed' = IF s \in employed THEN employed \ {s} ELSE employed \cup {s}
  /\ UNCHANGED shifts

ShiftStep ==
  /\ \E c \in Clients :
       \/ Punch(c) \/ PunchStaff(c) \/ PunchRows(c) \/ PunchWrite(c)
       \/ ManualEntry(c) \/ ManualFind(c) \/ ManualWrite(c)
       \/ ResetAttendance(c) \/ Hire(c)
  /\ StillRecorded

ShiftSpec == ShiftInit /\ RequestInit /\ [][ShiftStep]_<<shiftVars, requestVars>>

-----------------------------------------------------------------------------
(* Properties                                                               *)

ShiftTypeOK ==
  /\ employed \subseteq Staff
  /\ shifts \in [Numbers -> Shift \cup {Null}]
  /\ lasting \in [Clients -> SUBSET Numbers]

Punched(c) == pc[c] = "punch.write" /\ pc'[c] = "idle"

(* While a shift has been under way all through a punch, the punch opens no  *)
(* other: it ends a shift of that day (punchAttendance).                     *)
PunchEndsOpenShift ==
  [][\A c \in Clients : Punched(c) =>
       \A n \in lasting[c] :
         shifts[n].staff = req[c].staff /\ shifts[n].day = req[c].day /\ Open(shifts[n])
           => \A k \in Numbers : shifts'[k] # Null /\ shifts'[k] # shifts[k]
                                   => shifts'[k].out = req[c].time]_<<shiftVars, requestVars>>
=============================================================================
