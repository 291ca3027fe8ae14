------------------------- MODULE ByteStreamSessions -------------------------
(***************************************************************************)
(* The byte stream over the life of the device: every configuration of the *)
(* host begins a new stream, and a bus reset closes the one there is.  A   *)
(* call of the reader that has begun may run on in a closed stream; only   *)
(* in an open one is it promised that the reader gets everything.          *)
(***************************************************************************)
EXTENDS ByteStream

VARIABLE open    \* the reader may ask for bytes

SessionsInit == Init /\ open = FALSE

Stream == Next /\ UNCHANGED open

\* A new stream, which nobody may read yet if the host chose "unconfigured".
Begin ==
    /\ sent' = 0 /\ complete' = 0 /\ got' = 0 /\ lastByte' = 0
    /\ open' \in BOOLEAN

Close == open' = FALSE /\ UNCHANGED vars

SessionsNext == Stream \/ Begin \/ Close

SessionsSafety == SessionsInit /\ [][SessionsNext]_<<vars, open>>

\* In an open stream the reader gets every byte of a finished transfer, until
\* a new stream begins or this one is closed.
SessionsSpec ==
    /\ SessionsSafety
    /\ WF_<<vars, open>>(open /\ Deliver /\ UNCHANGED open)
=============================================================================
