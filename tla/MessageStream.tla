---- MODULE MessageStream ----
(***************************************************************************)
(* What a super peer connection promises to its message handlers: the      *)
(* messages of the stream reach them in the order they were sent, each     *)
(* once and with its own length, and all that come do.  A message whose    *)
(* bytes were all taken from the socket is handed over whole.  One may be  *)
(* handed over cut short once its size is known, but only in two cases:    *)
(* the connection has ended, or a read ended just behind its size field.   *)
(* RecvBuffer implements this.                                             *)
(***************************************************************************)
EXTENDS Integers, Sequences

CONSTANTS
    FieldSize,      \* bytes of the size field
    Streams         \* what peers send: where each message ends

VARIABLES
    messages,       \* the messages of this connection
    received,       \* bytes taken from the socket so far
    closed,         \* has the connection ended
    split,          \* did a read end just behind the size field of the
                    \* upcoming message
    handed          \* the messages handed over: the length of the body, and
                    \* whether it was whole

vars == <<messages, received, closed, split, handed>>

\* The number of the last byte of message m.
End(m) == IF m = 0 THEN 0 ELSE messages[m]

Upcoming == Len(handed) + 1

Body(whole) ==
    [size |-> End(Upcoming) - End(Upcoming - 1) - FieldSize, whole |-> whole]

Init ==
    /\ messages \in Streams
    /\ received = 0
    /\ closed = FALSE
    /\ split = FALSE
    /\ handed = << >>

\* Where the size field of message m ends.
SizeKnown(m) == End(m - 1) + FieldSize

Receive ==
    /\ ~ closed
    /\ received' \in received + 1 .. End(Len(messages))
    /\ split' = (split \/ received' = SizeKnown(Upcoming))
    /\ UNCHANGED <<messages, closed, handed>>

Close ==
    /\ ~ closed
    /\ closed' = TRUE
    /\ UNCHANGED <<messages, received, split, handed>>

HandOver(whole) ==
    /\ handed' = Append(handed, Body(whole))
    /\ split' = (received = SizeKnown(Upcoming + 1))
    /\ UNCHANGED <<messages, received, closed>>

HandleWhole ==
    /\ Upcoming \in DOMAIN messages
    /\ received >= End(Upcoming)
    /\ HandOver(TRUE)

HandleCut ==
    /\ Upcoming \in DOMAIN messages
    /\ closed \/ split
    /\ received \in SizeKnown(Upcoming) .. End(Upcoming) - 1
    /\ HandOver(FALSE)

Progress == Receive \/ HandleWhole \/ HandleCut

Next == Progress \/ Close

Safety == Init /\ [][Next]_vars

Spec == Safety /\ WF_vars(Progress)

=============================================================================
