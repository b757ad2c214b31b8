----------------------------- MODULE BytePipe -----------------------------
(***************************************************************************)
(* What one direction of a forwarded TCP connection promises: a reliable   *)
(* byte pipe with flow control.  A writer offers bytes and may close its   *)
(* end; the bytes arrive in order in a buffer of Capacity bytes, from      *)
(* which the reader consumes them; the reader learns the end of the stream *)
(* only after the last byte; the reader's side may be cut at any time.     *)
(* The module says nothing of threads, windows, segments or staging.       *)
(***************************************************************************)
EXTENDS Integers

CONSTANT Capacity   \* bytes that may have arrived and not been consumed

VARIABLES
    offered,    \* bytes the writer has offered
    closed,     \* the writer has closed its end
    arrived,    \* bytes in the reader's buffer or consumed
    consumed,   \* bytes the reader has consumed
    end         \* the reader's side: "open", "eof" or "cut"

pipe == <<offered, closed, arrived, consumed, end>>

Init ==
    /\ offered = 0 /\ closed = FALSE /\ arrived = 0 /\ consumed = 0
    /\ end = "open"

Offer ==
    /\ ~closed
    /\ offered' > offered
    /\ UNCHANGED <<closed, arrived, consumed, end>>

Close ==
    /\ ~closed
    /\ closed' = TRUE
    /\ UNCHANGED <<offered, arrived, consumed, end>>

\* Only bytes that were offered arrive, none is skipped, and none arrives
\* that the buffer has no room for.
Arrive ==
    /\ arrived' > arrived
    /\ arrived' <= offered
    /\ arrived' <= consumed + Capacity
    /\ UNCHANGED <<offered, closed, consumed, end>>

Consume ==
    /\ consumed' > consumed
    /\ consumed' <= arrived
    /\ UNCHANGED <<offered, closed, arrived, end>>

\* The end of the stream is seen behind the last byte only.
End ==
    /\ end = "open"
    /\ closed /\ arrived = offered
    /\ end' = "eof"
    /\ UNCHANGED <<offered, closed, arrived, consumed>>

Cut ==
    /\ end # "cut"
    /\ end' = "cut"
    /\ UNCHANGED <<offered, closed, arrived, consumed>>

Next == Offer \/ Close \/ Arrive \/ Consume \/ End \/ Cut

Spec == Init /\ [][Next]_pipe
=============================================================================
