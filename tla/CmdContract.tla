---------------------------- MODULE CmdContract ----------------------------
(***************************************************************************)
(* What the rest of the driver is promised of a firmware command, whatever *)
(* the command queue, its slots, mailboxes and locks.  A call is refused   *)
(* and then never reaches the firmware; or it is sent, carried out once,   *)
(* and returns what the firmware answered; or its caller gives up.  From   *)
(* then on calls are refused, except the two that tear the device down,    *)
(* and the command that nobody waits for is carried out once, at any later *)
(* time, or never.                                                         *)
(***************************************************************************)
CONSTANTS Threads,   \* the callers
          Places,    \* where commands can be left behind
          Replies,   \* the firmware's answers
          Good,      \* those that mean success
          None       \* no answer

VARIABLES up,            \* the interface has not been freed
          quarantined,   \* somebody has given up
          call,          \* thread -> what its last call returned, or how far it is
          exempt,        \* thread -> its call is let through a quarantine
          heard,         \* thread -> the answer it has not returned yet, or None
          late           \* the commands left behind and not carried out

vars == <<up, quarantined, call, exempt, heard, late>>

Returned == {"Success", "Timeout", "Failed"}

Init ==
  /\ up = TRUE
  /\ quarantined = FALSE
  /\ call = [t \in Threads |-> "Success"]
  /\ exempt = [t \in Threads |-> FALSE]
  /\ heard = [t \in Threads |-> None]
  /\ late = {}

Return(t, r) ==
  /\ call' = [call EXCEPT ![t] = r]
  /\ exempt' = [exempt EXCEPT ![t] = FALSE]
  /\ heard' = [heard EXCEPT ![t] = None]

Ask(t, x) ==
  /\ call[t] \in Returned
  /\ up
  /\ quarantined => x
  /\ call' = [call EXCEPT ![t] = "asked"]
  /\ exempt' = [exempt EXCEPT ![t] = x]
  /\ UNCHANGED <<up, quarantined, heard, late>>

Refuse(t) ==
  /\ call[t] \in Returned \cup {"asked"}
  /\ Return(t, "Failed")
  /\ UNCHANGED <<up, quarantined, late>>

Send(t) ==
  /\ call[t] = "asked"
  /\ call' = [call EXCEPT ![t] = "sent"]
  /\ UNCHANGED <<up, quarantined, exempt, heard, late>>

\* The firmware carries the command out.
CarryOut(t, r) ==
  /\ call[t] = "sent"
  /\ call' = [call EXCEPT ![t] = "answered"]
  /\ heard' = [heard EXCEPT ![t] = r]
  /\ UNCHANGED <<up, quarantined, exempt, late>>

Finish(t) ==
  /\ call[t] = "answered"
  /\ Return(t, IF heard[t] \in Good THEN "Success" ELSE "Failed")
  /\ UNCHANGED <<up, quarantined, late>>

\* The answer may have come by now, and nobody has looked.
GiveUp(t) ==
  /\ \/ call[t] = "answered" /\ UNCHANGED late
     \/ call[t] = "sent" /\ \E p \in Places \ late : late' = late \cup {p}
  /\ Return(t, "Timeout")
  /\ quarantined' = TRUE
  /\ UNCHANGED up

CarryOutLate(p) ==
  /\ late' = late \ {p}
  /\ UNCHANGED <<up, quarantined, call, exempt, heard>>

Free ==
  /\ \A t \in Threads : call[t] \in Returned
  /\ up' = FALSE
  /\ UNCHANGED <<quarantined, call, exempt, heard, late>>

Next ==
  \/ \E t \in Threads :
       \/ \E x \in BOOLEAN : Ask(t, x)
       \/ Refuse(t)
       \/ Send(t)
       \/ \E r \in Replies : CarryOut(t, r)
       \/ Finish(t)
       \/ GiveUp(t)
  \/ \E p \in late : CarryOutLate(p)
  \/ Free

Spec == Init /\ [][Next]_vars

=============================================================================
