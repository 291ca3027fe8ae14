----------------------------- MODULE ByteStream -----------------------------
(***************************************************************************)
(* What a USB OUT endpoint promises to the application that reads it,      *)
(* without banks, registers or interrupts: a byte stream with flow         *)
(* control.  The n-th byte the host sends is the number n, so the stream   *)
(* is described by counters and by the byte that was delivered last.       *)
(*                                                                         *)
(*   sent      bytes the endpoint has accepted from the host               *)
(*   complete  bytes of finished transfers, which the reader may get       *)
(*   got       bytes handed to the reader                                  *)
(*   lastByte  the byte that was handed over last, 0 before the first      *)
(***************************************************************************)
EXTENDS Naturals

CONSTANT Capacity    \* bytes the endpoint can hold unread

VARIABLES sent, complete, got, lastByte
vars == <<sent, complete, got, lastByte>>

Init == sent = 0 /\ complete = 0 /\ got = 0 /\ lastByte = 0

\* The endpoint takes n more bytes, and it may finish a transfer with them.
Accept(n) ==
    /\ sent + n - got <= Capacity
    /\ sent' = sent + n
    /\ complete' \in {complete, sent'}
    /\ UNCHANGED <<got, lastByte>>

\* The reader gets the next byte of the stream: none is lost, repeated or
\* moved.
Deliver ==
    /\ got < complete
    /\ got' = got + 1
    /\ lastByte' = got'
    /\ UNCHANGED <<sent, complete>>

Next == Deliver \/ \E n \in 0 .. Capacity : Accept(n)

Safety == Init /\ [][Next]_vars

\* A reader that keeps reading gets every byte of a finished transfer.
Spec == Safety /\ WF_vars(Deliver)
=============================================================================
