------------------------------ MODULE AuditLog ------------------------------
(***************************************************************************)
(* The audit log of adapters/bus/inproc/auditlog.go: a subscription to all *)
(* topics whose handler appends a line for each event to a file, and which *)
(* can be rotated.  Writes and rotations exclude each other by a mutex; a   *)
(* rotation is several operations on the directory, and the process may be *)
(* killed between any two of them and be started again.  That the handler  *)
(* is called with one event after another is the bus's (EventBus); who     *)
(* calls Rotate and Close is external.                                     *)
(***************************************************************************)
EXTENDS Integers, Sequences

CONSTANTS
  MaxEvents,    \* bound on the events
  MaxFileSize,  \* in records; Rotate leaves a smaller file alone
  MaxFiles      \* rotated files that are kept

VARIABLES
  dir,       \* file number -> its whole records; 0 is the current file
  torn,      \* the current file ends in a part of a line
  handle,    \* the open file of this process: "open", "closed" or "none"
  rotation,  \* the step of a Rotate under way, or 0
  closed,    \* AuditLogSubscriber.closed
  events,    \* the events the bus has handed over, counted
  written,   \* history: the events that were written on a line of their own
  moved      \* history: no rename of a file that was there has failed

vars == <<dir, torn, handle, rotation, closed, events, written, moved>>

(* os.Rename. *)
Moved(d, from, to) ==
  [n \in (DOMAIN d \ {from}) \cup {to} |-> IF n = to THEN d[from] ELSE d[n]]

(* Mutant: opening truncates the file. *)
OpenTruncated(d) == [n \in DOMAIN d \cup {0} |-> IF n > 0 THEN d[n] ELSE <<>>]

(* os.OpenFile with O_CREATE and O_APPEND. *)
OpenForAppend(d) == [n \in DOMAIN d \cup {0} |-> IF n \in DOMAIN d THEN d[n] ELSE <<>>]

-----------------------------------------------------------------------------
(* NewAuditLog of a process that starts, with or without rotation; when the
   directory or the file cannot be had there is no log. *)
NewAuditLog ==
  /\ handle = "none"
  /\ dir' = OpenForAppend(dir) /\ handle' = "open"
  /\ closed' = FALSE
  /\ UNCHANGED <<torn, rotation, events, written, moved>>

(* handleEvent: a write that fails is an error, which the bus logs; the event
   is not tried again.  A write that is cut short leaves a part of its line,
   and the next whole one, though it succeeds, is behind it on the same line.
   After Close the subscription is still there. *)
HandleEvent ==
  /\ handle # "none" /\ rotation = 0 /\ events < MaxEvents
  /\ events' = events + 1
  /\ \/ /\ handle = "open" /\ ~torn
        /\ dir' = [dir EXCEPT ![0] = Append(@, events')]
        /\ written' = Append(written, events')
        /\ UNCHANGED torn
     \/ /\ handle = "open"
        /\ torn' = TRUE \/ (torn /\ torn' = FALSE)
        /\ UNCHANGED <<dir, written>>
     \/ UNCHANGED <<dir, torn, written>>
  /\ UNCHANGED <<handle, rotation, closed, moved>>

(* Close, and Unsubscribe, which is Close: the file, not the subscription. *)
Close ==
  /\ handle # "none" /\ rotation = 0 /\ ~closed
  /\ closed' = TRUE /\ handle' = "closed"
  /\ UNCHANGED <<dir, torn, rotation, events, written, moved>>

-----------------------------------------------------------------------------
(* The rotated files in the order in which Rotate moves them, the oldest first. *)
Shifted == [i \in 1..(MaxFiles - 1) |-> MaxFiles - i]

(* Rotate: a closed file has no size, and a small one stays; lines in parts do
   not count here. *)
RotateStart ==
  /\ handle = "open" /\ rotation = 0
  /\ Len(dir[0]) >= MaxFileSize
  /\ rotation' = 1 /\ handle' = "closed"
  /\ UNCHANGED <<dir, torn, closed, events, written, moved>>

(* The renames of the rotated files: their errors are not looked at. *)
RotateShift ==
  /\ rotation \in DOMAIN Shifted
  /\ rotation' = rotation + 1
  /\ LET n == Shifted[rotation] IN
       \/ n \in DOMAIN dir /\ dir' = Moved(dir, n, n + 1) /\ UNCHANGED moved
       \/ UNCHANGED dir /\ moved' = (moved /\ n \notin DOMAIN dir)
  /\ UNCHANGED <<torn, handle, closed, events, written>>

(* The current file is moved; when that fails, the file stays closed. *)
RotateCurrent ==
  /\ rotation = MaxFiles
  /\ \/ dir' = Moved(dir, 0, 1) /\ torn' = FALSE /\ rotation' = MaxFiles + 1
     \/ UNCHANGED <<dir, torn>> /\ rotation' = 0
  /\ UNCHANGED <<handle, closed, events, written, moved>>

RotateReopen ==
  /\ rotation = MaxFiles + 1
  /\ \/ dir' = OpenForAppend(dir) /\ handle' = "open"
     \/ UNCHANGED <<dir, handle>>
  /\ rotation' = 0
  /\ UNCHANGED <<torn, closed, events, written, moved>>

(* The process is killed. *)
Kill ==
  /\ handle # "none"
  /\ handle' = "none" /\ rotation' = 0
  /\ UNCHANGED <<dir, torn, closed, events, written, moved>>

Init ==
  /\ dir = [n \in {} |-> <<>>] /\ torn = FALSE
  /\ handle = "none" /\ rotation = 0
  /\ closed = FALSE
  /\ events = 0 /\ written = <<>>
  /\ moved = TRUE

Next ==
  \/ NewAuditLog \/ HandleEvent \/ Close
  \/ RotateStart \/ RotateShift \/ RotateCurrent \/ RotateReopen
  \/ Kill

Spec == Init /\ [][Next]_vars

-----------------------------------------------------------------------------
(* Types of the log. *)
TypeOK ==
  /\ DOMAIN dir \subseteq 0..MaxFiles /\ torn \in BOOLEAN
  /\ handle \in {"open", "closed", "none"} /\ rotation \in 0..(MaxFiles + 1)
  /\ handle = "open" => 0 \in DOMAIN dir /\ ~closed

(* Whether event e is in some file. *)
Kept(e) == \E n \in DOMAIN dir : \E i \in DOMAIN dir[n] : dir[n][i] = e

(* Wherever a rotation is cut off and however often the process starts again,
   the files read from the oldest on hold events in the order they happened,
   and, unless a rename of an existing file has failed, all that got a line of
   their own from some event on: of these only the oldest are ever given up. *)
AuditKeepsOrder ==
  /\ \A n, m \in DOMAIN dir : \A i \in DOMAIN dir[n], j \in DOMAIN dir[m] :
       n > m \/ (n = m /\ i < j) => dir[n][i] < dir[m][j]
  /\ \A n \in DOMAIN dir : \A i \in DOMAIN dir[n] :
       \E k \in DOMAIN written : written[k] = dir[n][i]
  /\ moved => \A k \in DOMAIN written : \A n \in DOMAIN dir : \A i \in DOMAIN dir[n] :
                dir[n][i] <= written[k] => Kept(written[k])
=============================================================================
