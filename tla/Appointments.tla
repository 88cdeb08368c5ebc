---------------------------- MODULE Appointments ----------------------------
(***************************************************************************)
(* Appointments and their slot locks (crm/appointments.py,                 *)
(* appointments/booking.py, domain/appointments/slots.py).  A booking and  *)
(* its lock are inserted together; the unique constraint on the locks      *)
(* decides who wins a slot.  Rescheduling reads the appointment and then   *)
(* its lock, both without a row lock, and writes both.                     *)
(***************************************************************************)
EXTENDS Integers, FiniteSets, RowFlush

CONSTANTS
  ApptIds,
  ApptRequests,  \* requests in flight at a time
  Starts,        \* instants an appointment may start at
  Lengths,       \* durations
  SlotIndexes,   \* slot_index values a public booking may send; 0 is one of them
  Horizon,       \* bound on the clock
  NoAppt         \* null

ApptStatus == {"scheduled", "completed", "cancelled", "no_show"}

OPEN_STATUSES == {"scheduled"}  \* no operation sets "confirmed"

VARIABLES
  appt,        \* the rows
  slot_locks,  \* the lock of each appointment, or NoAppt
  apptReq,     \* requests in flight
  clock,       \* utcnow()
  apptTaint    \* appointments once written from an outdated load

apptVars == <<appt, slot_locks, apptReq, clock, apptTaint>>

ApptRow == [exists : BOOLEAN, start : Starts, len : Lengths, status : ApptStatus]
SlotLock == [start : Starts, len : Lengths, slot_index : SlotIndexes]

ASSUME ApptAssumption ==
  Starts # {} /\ Lengths # {} /\ 0 \in SlotIndexes /\ NoAppt \notin SlotLock

ApptTypeOK ==
  /\ appt \in [ApptIds -> ApptRow]
  /\ \A a \in ApptIds : slot_locks[a] # NoAppt => slot_locks[a] \in SlotLock
  /\ clock \in 0..Horizon
  /\ apptTaint \subseteq ApptIds

ApptInit ==
  /\ LET s == CHOOSE s \in Starts : TRUE
         l == CHOOSE l \in Lengths : TRUE
     IN appt = [a \in ApptIds |->
                 [exists |-> FALSE, start |-> s, len |-> l, status |-> "scheduled"]]
  /\ slot_locks = [a \in ApptIds |-> NoAppt]
  /\ apptReq = [q \in ApptRequests |-> NoAppt]
  /\ clock = 0
  /\ apptTaint = {}

-----------------------------------------------------------------------------
(* UniqueConstraint resource_slot.  One resource: others never collide.     *)
resource_slot_Any(locks) == TRUE

resource_slot(locks) ==
  \A a, b \in ApptIds :
    /\ a # b /\ locks[a] # NoAppt /\ locks[b] # NoAppt
    => <<locks[a].start, locks[a].slot_index>> # <<locks[b].start, locks[b].slot_index>>

(* Appointment and lock, in one transaction or not at all.                  *)
Insert(a, start, len, index) ==
  /\ ~appt[a].exists
  /\ appt' = [appt EXCEPT ![a] = [exists |-> TRUE, start |-> start, len |-> len, status |-> "scheduled"]]
  /\ slot_locks' = [slot_locks EXCEPT ![a] = [start |-> start, len |-> len, slot_index |-> index]]
  /\ resource_slot(slot_locks')
  /\ UNCHANGED <<apptReq, clock, apptTaint>>

book(a, start, len) == start >= clock /\ Insert(a, start, len, 0)

(* A visitor's claim names its slot index, and may be for a past slot.      *)
claim_public_slot(a, start, len, index) == Insert(a, start, len, index)

LoadAppt(q, a, op, new) ==
  /\ apptReq[q] = NoAppt
  /\ appt[a].exists
  /\ apptReq' = [apptReq EXCEPT ![q] =
       [op |-> op, appt |-> a, lock |-> NoAppt, stale |-> {},
        writes |-> Write(a, appt[a], new)]]
  /\ UNCHANGED <<appt, slot_locks, clock, apptTaint>>

can_reschedule(start, new_start) == start > clock /\ new_start >= clock

(* The row is read and checked first; its lock next.                        *)
reschedule(q, a, start, len) ==
  /\ appt[a].status \in OPEN_STATUSES
  /\ can_reschedule(appt[a].start, start)
  /\ LoadAppt(q, a, "find lock", [appt[a] EXCEPT !.start = start, !.len = len])

FindLock(q) ==
  /\ apptReq[q] # NoAppt
  /\ apptReq[q].op = "find lock"
  /\ apptReq' = [apptReq EXCEPT ![q].op = "reschedule", ![q].lock = slot_locks[apptReq[q].appt]]
  /\ UNCHANGED <<appt, slot_locks, clock, apptTaint>>

can_cancel(start) == start >= clock

cancel(q, a) ==
  /\ appt[a].status \notin {"cancelled", "completed"}
  /\ can_cancel(appt[a].start)
  /\ LoadAppt(q, a, "cancel", [appt[a] EXCEPT !.status = "cancelled"])

record_outcome(q, a, status) ==
  /\ appt[a].status # "cancelled"
  /\ LoadAppt(q, a, "outcome", [appt[a] EXCEPT !.status = status])

(* The lock goes where the appointment goes; cancelling deletes it.  An     *)
(* update of a lock that is gone raises.                                    *)
MovedLocks_LeftBehind(r) == slot_locks

MovedLocks(r) ==
  LET row == r.writes[r.appt].new
      dirty == r.lock # NoAppt /\ (r.lock.start # row.start \/ r.lock.len # row.len)
  IN CASE r.op = "cancel" -> [slot_locks EXCEPT ![r.appt] = NoAppt]
       [] r.op = "reschedule" /\ dirty /\ slot_locks[r.appt] # NoAppt ->
            [slot_locks EXCEPT ![r.appt] =
               [start |-> IF r.lock.start # row.start THEN row.start ELSE @.start,
                len |-> IF r.lock.len # row.len THEN row.len ELSE @.len,
                slot_index |-> @.slot_index]]
       [] OTHER -> slot_locks

LockGone(r) ==
  /\ r.op = "reschedule" /\ r.lock # NoAppt /\ slot_locks[r.appt] = NoAppt
  /\ LET row == r.writes[r.appt].new IN r.lock.start # row.start \/ r.lock.len # row.len

CommitAppt(q) ==
  /\ apptReq[q] # NoAppt
  /\ apptReq[q].op # "find lock"
  /\ LET r == apptReq[q]
         locks == MovedLocks(r)
     IN IF LockGone(r) \/ ~resource_slot(locks)
          THEN apptReq' = [apptReq EXCEPT ![q] = NoAppt] /\ UNCHANGED <<appt, slot_locks, apptTaint>>
          ELSE /\ appt' = Commit(appt, r)
               /\ slot_locks' = locks
               /\ apptTaint' = apptTaint \cup r.stale
               /\ apptReq' = [p \in ApptRequests |->
                    IF p = q \/ apptReq[p] = NoAppt THEN NoAppt ELSE Outdate(apptReq[p], {r.appt})]
  /\ UNCHANGED clock

ApptTick == clock < Horizon /\ clock' = clock + 1 /\ UNCHANGED <<appt, slot_locks, apptReq, apptTaint>>

(* The write routes of /appointments.                                       *)
AppointmentRoutes(q) ==
  \E a \in ApptIds :
    \/ \E s \in Starts, l \in Lengths : book(a, s, l) \/ reschedule(q, a, s, l)
    \/ cancel(q, a)
    \/ \E status \in {"completed", "no_show"} : record_outcome(q, a, status)

(* POST /public/booking/appointments                                        *)
public_booking ==
  \E a \in ApptIds, s \in Starts, l \in Lengths, i \in SlotIndexes : claim_public_slot(a, s, l, i)

ApptNext ==
  \/ ApptTick \/ public_booking
  \/ \E q \in ApptRequests : AppointmentRoutes(q) \/ FindLock(q) \/ CommitAppt(q)

ApptSpec == ApptInit /\ [][ApptNext]_apptVars

-----------------------------------------------------------------------------
IsOpen(a) == appt[a].exists /\ appt[a].status \in OPEN_STATUSES

(* Whatever requests overlap, an open appointment holds a lock, a cancelled *)
(* one holds none (its slot can be booked again), and no two locks are for  *)
(* the same place of the same slot.  An open appointment that no request    *)
(* wrote from an outdated load holds the very slot it is shown in: the lock *)
(* moved with every reschedule.                                             *)
HeldWhileOpen ==
  /\ \A a \in ApptIds : /\ IsOpen(a) => slot_locks[a] # NoAppt
                        /\ appt[a].status = "cancelled" => slot_locks[a] = NoAppt
  /\ \A a, b \in ApptIds : /\ a # b /\ slot_locks[a] # NoAppt /\ slot_locks[b] # NoAppt
                           => \/ slot_locks[a].start # slot_locks[b].start
                              \/ slot_locks[a].slot_index # slot_locks[b].slot_index
  /\ \A a \in ApptIds \ apptTaint :
       IsOpen(a) => slot_locks[a].start = appt[a].start /\ slot_locks[a].len = appt[a].len
=============================================================================
