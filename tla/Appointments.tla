---------------------------- MODULE Appointments ----------------------------
(***************************************************************************)
(* Appointments (appointments.service.ts).  A save writes the document,    *)
(* then its relational row, then the pickup and the drop-off request that  *)
(* belong to it, each in a call of its own that may be the last one made.  *)
(* Clients also edit pickup and drop-off requests directly.                *)
(***************************************************************************)
EXTENDS Requests

CONSTANTS
  Appts,     \* appointment ids
  Dates,     \* stands for all that is copied to the requests
  Drivers    \* drivers a request may be given

Sides == {"PICKUP", "DROP_OFF"}

\* vehiclePickupRequired: true, false or null.
Pickups == {"yes", "no", "null"}

Appt == [pickup : Pickups, date : Dates]
Trip == [date : Dates, driver : Drivers \cup {Null}]

\* What clients send; "unset" is a missing vehiclePickupRequired.
ApptBody == [pickup : Pickups \cup {"unset"}, date : Dates,
             driver : Drivers \cup {Null}]

ASSUME ApptAssumption == Null \notin Appt /\ Null \notin Trip

VARIABLES
  appts,   \* the appointments documents
  table,   \* whether the Appointment table exists
  mirror,  \* its rows
  trips,   \* the pickupDropRequests documents, per appointment and side
  astray   \* ghost: appointments some request left half done, or that a
           \* snapshot or a pickup set to null touched, and not saved since

apptVars == <<appts, table, mirror, trips, astray>>

ApptInit ==
  /\ appts = [a \in Appts |-> Null]
  /\ table \in BOOLEAN
  /\ mirror = [a \in Appts |-> Null]
  /\ trips = [a \in Appts |-> [s \in Sides |-> Null]]
  /\ astray = {}

-----------------------------------------------------------------------------
(* upsertAppointment                                                        *)

ApptSend(c) ==
  /\ \E a \in Appts, doc \in ApptBody :
       Arrive(c, "appt.read", [id |-> a, doc |-> doc])
  /\ UNCHANGED <<appts, mirror, trips, astray>>

\* normalizeAppointmentPayload
Normalize(doc, prev) ==
  [pickup |-> IF doc.pickup # "unset" THEN doc.pickup
              ELSE IF prev = Null THEN "null" ELSE prev.pickup,
   date |-> doc.date]

ApptRead(c) ==
  LET prev == appts[req[c].id] IN
  /\ pc[c] = "appt.read"
  /\ Goto(c, "appt.write",
          [id |-> req[c].id, new |-> Normalize(req[c].doc, prev),
           had |-> prev # Null /\ prev.pickup = "yes", driver |-> req[c].doc.driver])
  /\ UNCHANGED <<appts, mirror, trips, astray>>

ApptWrite(c) ==
  /\ pc[c] = "appt.write"
  /\ appts' = [appts EXCEPT ![req[c].id] = req[c].new]
  /\ Goto(c, "appt.row", req[c])
  /\ UNCHANGED <<mirror, trips, astray>>

\* Mutant: the requests are made only when the pickup is switched on.
AfterRow_OnToggle(r) ==
  IF r.new.pickup = "yes" /\ ~ r.had THEN "trip.read"
  ELSE IF r.new.pickup = "no" /\ r.had THEN "trip.delete"
  ELSE "appt.saved"

\* Where syncPickupDropRequest starts, or the end.
AfterRow(r) ==
  IF r.new.pickup = "yes" THEN "trip.read"
  ELSE IF r.new.pickup = "no" /\ r.had THEN "trip.delete"
  ELSE "appt.saved"

\* upsertAppointmentRow
ApptRow(c) ==
  /\ pc[c] = "appt.row"
  /\ mirror' = IF table THEN [mirror EXCEPT ![req[c].id] = req[c].new] ELSE mirror
  /\ Goto(c, AfterRow(req[c]),
          [id |-> req[c].id, new |-> req[c].new, driver |-> req[c].driver, side |-> "PICKUP"])
  /\ UNCHANGED <<appts, trips, astray>>

TripRead(c) ==
  /\ pc[c] = "trip.read"
  /\ Goto(c, "trip.write",
          [id |-> req[c].id, new |-> req[c].new, driver |-> req[c].driver, side |-> req[c].side,
           old |-> trips[req[c].id][req[c].side]])
  /\ UNCHANGED <<appts, mirror, trips, astray>>

\* The booking's driver if it names one, else the driver assigned already.
TripWrite(c) ==
  LET r == req[c]
      assigned == IF r.old = Null THEN Null ELSE r.old.driver IN
  /\ pc[c] = "trip.write"
  /\ trips' = [trips EXCEPT ![r.id][r.side] =
                 [date |-> r.new.date,
                  driver |-> IF r.driver # Null THEN r.driver ELSE assigned]]
  /\ IF r.side = "PICKUP"
     THEN Goto(c, "trip.read",
               [id |-> r.id, new |-> r.new, driver |-> r.driver, side |-> "DROP_OFF"])
     ELSE Goto(c, "appt.saved", r)
  /\ UNCHANGED <<appts, mirror, astray>>

\* Also the two deletions of deleteAppointment, which goes on to the row.
TripDelete(c) ==
  LET r == req[c] IN
  /\ pc[c] = "trip.delete"
  /\ trips' = [trips EXCEPT ![r.id][r.side] = Null]
  /\ IF r.side = "PICKUP" THEN Goto(c, "trip.delete", [r EXCEPT !.side = "DROP_OFF"])
     ELSE Goto(c, IF "new" \in DOMAIN r THEN "appt.saved" ELSE "row.delete", r)
  /\ UNCHANGED <<appts, mirror, astray>>

ApptSaved(c) ==
  /\ pc[c] = "appt.saved"
  /\ Answer(c)
  /\ astray' = CASE req[c].new.pickup = "yes" -> astray \ {req[c].id}
                 [] req[c].new.pickup = "null" -> astray \cup {req[c].id}
                 [] OTHER -> astray
  /\ UNCHANGED <<appts, mirror, trips>>

-----------------------------------------------------------------------------
(* deleteAppointment                                                        *)

ApptDelete(c) ==
  /\ \E a \in Appts :
       /\ appts[a] # Null
       /\ appts' = [appts EXCEPT ![a] = Null]
       /\ Arrive(c, "trip.delete", [id |-> a, side |-> "PICKUP"])
  /\ UNCHANGED <<mirror, trips, astray>>

RowDelete(c) ==
  /\ pc[c] = "row.delete"
  /\ mirror' = IF table THEN [mirror EXCEPT ![req[c].id] = Null] ELSE mirror
  /\ astray' = astray \ {req[c].id}
  /\ Answer(c)
  /\ UNCHANGED <<appts, trips>>

-----------------------------------------------------------------------------
(* replaceAppointments: the documents sent replace all others; their rows   *)
(* are written one by one, the rows of the others and the pickup and        *)
(* drop-off requests are left alone.                                        *)

ApptsSend(c) ==
  /\ \E docs \in UNION {[S -> [pickup : {"yes", "no", "unset"}, date : Dates]] :
                          S \in SUBSET Appts} :
       Arrive(c, "appts.list", [docs |-> docs])
  /\ UNCHANGED <<appts, mirror, trips, astray>>

ApptsList(c) ==
  /\ pc[c] = "appts.list"
  /\ Goto(c, "appts.replace",
          [docs |-> [a \in DOMAIN req[c].docs |-> Normalize(req[c].docs[a], appts[a])]])
  /\ UNCHANGED <<appts, mirror, trips, astray>>

ApptsReplace(c) ==
  /\ pc[c] = "appts.replace"
  /\ appts' = [a \in Appts |-> IF a \in DOMAIN req[c].docs THEN req[c].docs[a] ELSE Null]
  /\ astray' = Appts
  /\ Goto(c, "appts.rows", [docs |-> req[c].docs, todo |-> DOMAIN req[c].docs])
  /\ UNCHANGED <<mirror, trips>>

ApptsRows(c) ==
  /\ pc[c] = "appts.rows"
  /\ IF req[c].todo = {}
     THEN Answer(c) /\ UNCHANGED mirror
     ELSE \E a \in req[c].todo :
            /\ mirror' = IF table THEN [mirror EXCEPT ![a] = req[c].docs[a]] ELSE mirror
            /\ Goto(c, "appts.rows", [req[c] EXCEPT !.todo = @ \ {a}])
  /\ UNCHANGED <<appts, trips, astray>>

-----------------------------------------------------------------------------
\* A driver is assigned, or an entry removed, through its own collection.
TripEdit(c) ==
  /\ AtOnce(c)
  /\ \E a \in Appts, s \in Sides, d \in Drivers \cup {Null} :
       /\ trips[a][s] # Null
       /\ trips' = [trips EXCEPT ![a][s].driver = d]
  /\ UNCHANGED <<appts, mirror, astray>>

\* A call fails, or the process stops: the rest of the handler never runs.
ApptCutOff(c) ==
  /\ pc[c] \notin {"idle", "appt.saved"}
  /\ Answer(c)
  /\ astray' = astray \cup (IF "id" \in DOMAIN req[c] THEN {req[c].id} ELSE {})
  /\ UNCHANGED <<appts, mirror, trips>>

ApptStep(c) ==
  /\ \/ ApptSend(c) \/ ApptRead(c) \/ ApptWrite(c) \/ ApptRow(c)
     \/ TripRead(c) \/ TripWrite(c) \/ TripDelete(c) \/ ApptSaved(c)
     \/ ApptDelete(c) \/ RowDelete(c)
     \/ ApptsSend(c) \/ ApptsList(c) \/ ApptsReplace(c) \/ ApptsRows(c)
     \/ TripEdit(c) \/ ApptCutOff(c)
  /\ UNCHANGED table

\* Requests are served one at a time.
ApptServe == \E c \in Clients : (Quiet \/ pc[c] # "idle") /\ ApptStep(c)

ApptSpec == ApptInit /\ RequestInit /\ [][ApptServe]_<<apptVars, requestVars>>

-----------------------------------------------------------------------------
(* Properties                                                               *)

ApptTypeOK ==
  /\ appts \in [Appts -> Appt \cup {Null}]
  /\ mirror \in [Appts -> Appt \cup {Null}]
  /\ trips \in [Appts -> [Sides -> Trip \cup {Null}]]
  /\ astray \subseteq Appts

Wanted(a) == appts[a] # Null /\ appts[a].pickup = "yes"

(* Between requests served one at a time, an appointment that wants a pickup *)
(* has both requests with its own data, and any other has none, except those *)
(* a cut-off request, a snapshot or a pickup set to null has left astray; one *)
(* complete save that wants a pickup, or a complete deletion, brings them    *)
(* back in step (upsertAppointment, syncPickupDropRequest).                  *)
TripsFollowAppointment ==
  Quiet => \A a \in Appts \ astray, s \in Sides :
             IF Wanted(a) THEN trips[a][s] # Null /\ trips[a][s].date = appts[a].date
             ELSE trips[a][s] = Null
=============================================================================
