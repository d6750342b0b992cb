---------------------------- MODULE OutputCredit ----------------------------
(***************************************************************************)
(* What the terminal renderer promises the session's output flow control:  *)
(* it acknowledges a byte only after it has dealt with it, and deals with  *)
(* a byte only after it has arrived.  The backend's backlog counter        *)
(* (OutputCoalescer) is decremented by these acknowledgements, so credit   *)
(* given twice or too early would unpause a source the renderer cannot     *)
(* follow.  Closing the renderer may give up bytes, with or without        *)
(* acknowledging them; afterwards nothing is acknowledged any more.        *)
(***************************************************************************)
EXTENDS Naturals

VARIABLES
    received,   \* bytes that have arrived
    consumed,   \* bytes drawn, or given up for good
    acked,      \* bytes acknowledged
    open        \* the renderer exists

vars == <<received, consumed, acked, open>>

Init ==
    /\ received = 0
    /\ consumed = 0
    /\ acked = 0
    /\ open = TRUE

(* Whatever happens, the counters never shrink and stay in this order.      *)
Advance ==
    /\ consumed' \in consumed..received'
    /\ acked' \in acked..consumed'

(* Bytes arrive, are drawn or given up, and are acknowledged.               *)
Work ==
    /\ open
    /\ open' = TRUE
    /\ received' >= received
    /\ Advance

Close ==
    /\ open
    /\ open' = FALSE
    /\ UNCHANGED received
    /\ Advance

Next == Work \/ Close

Spec == Init /\ [][Next]_vars
=============================================================================
