------------------------------ MODULE SendPort ------------------------------
(***************************************************************************)
(* What send() promises its caller about the chunks it cuts the data into, *)
(* without banks, flags, waits or timeouts: a port that offers the host    *)
(* one packet at a time.  A packet leaves the port when the host fetches   *)
(* it, or when it is taken back with a report, and it never comes again.   *)
(*                                                                         *)
(*   offered   the packet in the port: none, or one                        *)
(*   queued    chunks offered so far; the n-th one is the number n         *)
(*   received  chunks the host has fetched                                 *)
(*   reports   failed calls, bus resets and new set-ups of the endpoint,   *)
(*             capped                                                      *)
(*                                                                         *)
(* A packet of length zero is the number 0.                                *)
(***************************************************************************)
EXTENDS Naturals

CONSTANT MaxChunks    \* bound: chunks the program sends altogether

VARIABLES offered, queued, received, reports
vars == <<offered, queued, received, reports>>

Init == offered = {} /\ queued = 0 /\ received = {} /\ reports = 0

Report == reports' = IF reports < MaxChunks THEN reports + 1 ELSE reports

\* The next chunk, when the one before has left the port.
Offer ==
    /\ offered = {} /\ queued < MaxChunks
    /\ queued' = queued + 1
    /\ offered' = {queued'}
    /\ UNCHANGED <<received, reports>>

Fetch ==
    /\ offered # {}
    /\ offered' = {}
    /\ received' = received \cup (offered \ {0})
    /\ UNCHANGED <<queued, reports>>

\* A packet is taken back whole, or a packet of length zero is left for it.
TakeBack ==
    /\ offered # {}
    /\ offered' \in {{}, {0}}
    /\ Report
    /\ UNCHANGED <<queued, received>>

\* A call that fails although the host has just fetched the packet.
Fail == Report /\ UNCHANGED <<offered, queued, received>>

Next == Offer \/ Fetch \/ TakeBack \/ Fail

Spec == Init /\ [][Next]_vars
=============================================================================
