----------------------------- MODULE SerialLine -----------------------------
(***************************************************************************)
(* The serial line over the USB port of the Arduino core                   *)
(* (SerialLine_ArduinoUSB.cpp) with the class it uses (usb/Serial.cpp).    *)
(* Nobody tells the line that the host has opened the port: each call asks *)
(* for it again, for two seconds on every call and then every five         *)
(* seconds.  Asking costs a delay of 10 ms, in which the host goes on, as  *)
(* it does between the rounds of the loops that read.                      *)
(*                                                                         *)
(* Time is a number of ticks left, scaled down; what matters is which      *)
(* delay is longer.  The USB device below is what its own modules show:    *)
(* recv() is a queue that refuses without a configuration.                 *)
(***************************************************************************)
EXTENDS Naturals, Sequences, FiniteSetsExt

CONSTANTS
    InitialWait, RetryWait,   \* cInitialWait, cRetryWait
    Poll,                     \* the delay of waitUntilReady()
    Settle,                   \* the delay of operator bool()
    Boot,                     \* operator bool() says no for that long
    ReadTimeout,              \* _timeout of the stream
    NUL, Mark, Char,          \* bytes: zero, blockEndMark, any other
    Blank,                    \* what the buffer of the caller held before
    MaxRx,                    \* bound: bytes that wait in the device
    MaxLen,                   \* bound: largest dataSize of a call
    Word                      \* 2^32: counters of bytes are % Word

ASSUME SerialLineAssumption ==
    /\ {InitialWait, RetryWait, Poll, Settle, Boot, ReadTimeout} \subseteq Nat \ {0}
    /\ Settle <= Poll /\ Poll <= Boot /\ Boot <= InitialWait /\ InitialWait <= RetryWait
    /\ MaxRx \in Nat \ {0} /\ MaxLen \in Nat \ {0}
    /\ Word \in Nat /\ Word > MaxLen + 1

VARIABLES
    state, deadline,             \* _state, and the ticks left of _connectDeadline
    boot, delay, readLeft,       \* ticks left of the start, a delay, readBytes()
    lineState, configured, rx,   \* the device: _usbLineInfo.lineState > 0,
                                 \* _usbConfiguration # 0, bytes to be read
    pc, op,                      \* where the call is, and which one it is
    seen,                        \* operator bool(): "result"
    want, count, buf,            \* dataSize, bytes counted, the caller's buffer
    taken, cut, quiet            \* ghosts: the bytes the call took (until a cut);
                                 \* readBytes() met a device without configuration;
                                 \* ticks since the last question for the port

lineVars == <<state, deadline>>
timeVars == <<boot, delay, readLeft, quiet>>
usbVars  == <<lineState, configured, rx>>
callVars == <<op, want>>
dataVars == <<count, buf, taken, cut>>
vars == <<lineVars, timeVars, usbVars, callVars, dataVars, pc, seen>>

Byte == {NUL, Mark, Char}
Ops == {"wait", "query", "send", "receive", "read", "block"}
\* -1 in an unsigned counter.
MinusOne == Word - 1

NoData == count' = 0 /\ buf' = [i \in 0 .. MinusOne |-> Blank] /\ taken' = <<>> /\ cut' = FALSE

Init ==
    /\ state = "Initialized" /\ deadline = InitialWait
    /\ boot = Boot /\ delay = 0 /\ readLeft = 0 /\ quiet = 0
    /\ lineState = FALSE /\ configured = FALSE /\ rx = <<>>
    /\ pc = "idle" /\ op = "wait" /\ seen = FALSE /\ want = 0
    /\ count = 0 /\ buf = [i \in 0 .. MinusOne |-> Blank] /\ taken = <<>> /\ cut = FALSE

-----------------------------------------------------------------------------
(* Time and the host.                                                      *)

Down(n) == IF n = 0 THEN 0 ELSE n - 1

\* delay() returns when as many ticks have come as it waits for; it misses the
\* ticks of the time in which the program does not look.
Tick ==
    /\ deadline' = Down(deadline) /\ boot' = Down(boot)
    /\ delay' = Down(delay) /\ readLeft' = Down(readLeft)
    /\ quiet' = Min({quiet + 1, RetryWait})
    /\ UNCHANGED <<state, usbVars, callVars, dataVars, pc, seen>>

\* A new configuration begins a new stream of bytes.
SetConfiguration(value) ==
    /\ configured' = value
    /\ rx' = <<>>
    /\ UNCHANGED <<lineVars, timeVars, callVars, dataVars, pc, seen, lineState>>

\* A bus reset or a cable that is pulled out: no request clears lineState.
LoseHost ==
    /\ configured
    /\ configured' = FALSE
    /\ UNCHANGED <<lineVars, timeVars, callVars, dataVars, pc, seen, lineState, rx>>

SetControlLineState(open) ==
    /\ configured
    /\ lineState' = open
    /\ UNCHANGED <<lineVars, timeVars, callVars, dataVars, pc, seen, configured, rx>>

HostByte(b) ==
    /\ configured /\ Len(rx) < MaxRx
    /\ rx' = Append(rx, b)
    /\ UNCHANGED <<lineVars, timeVars, callVars, dataVars, pc, seen, lineState, configured>>

Host ==
    \/ \E value \in BOOLEAN : SetConfiguration(value) \/ SetControlLineState(value)
    \/ LoseHost
    \/ \E b \in Byte : HostByte(b)

-----------------------------------------------------------------------------
(* The calls.  Each begins with isReady().                                 *)

Initialize ==
    /\ pc = "idle"
    /\ state' = "Initialized" /\ deadline' = InitialWait
    /\ UNCHANGED <<timeVars, usbVars, callVars, dataVars, pc, seen>>

\* sendBytesAvailable(), receiveBytesAvailable(), sendReset() and
\* receiveReset() are a "query": behind isReady() they change nothing.
Invoke ==
    /\ pc = "idle" /\ pc' = "isReady"
    /\ op' \in Ops
    /\ want' \in (IF op' \in {"read", "block"} THEN 0 .. MaxLen
                  ELSE IF op' = "receive" THEN {1} ELSE {0})
    /\ UNCHANGED <<lineVars, timeVars, usbVars, dataVars, seen>>

Return == pc' = "idle" /\ op' = "wait" /\ want' = 0 /\ NoData

\* isReady() has answered yes.
Go ==
    /\ CASE op \in {"wait", "query"}    -> Return
         [] op = "send"                 -> pc' = "write" /\ UNCHANGED <<callVars, dataVars>>
         [] op \in {"receive", "block"} -> pc' = "take" /\ UNCHANGED <<callVars, dataVars>>
         [] op = "read" -> pc' = "readBytes" /\ UNCHANGED <<callVars, dataVars>>
    /\ readLeft' = IF op = "read" THEN ReadTimeout ELSE readLeft

\* isReady() has answered no: waitUntilReady() asks again later while the state
\* is Initialized, the other calls return an error.
Refuse ==
    /\ IF op = "wait" /\ state' = "Initialized"
       THEN pc' = "poll" /\ delay' = Poll /\ UNCHANGED <<callVars, dataVars>>
       ELSE Return /\ delay' = delay
    /\ UNCHANGED readLeft

\* Mutant: the retry is never put off.
NotOpenNoRetryWait ==
    /\ IF state = "Initialized" /\ deadline = 0
       THEN state' = "NoConnection" /\ deadline' = RetryWait
       ELSE UNCHANGED lineVars
    /\ Refuse

\* Mutant: the line never gives up.
NotOpenForever ==
    /\ IF state = "NoConnection"
       THEN state' = state /\ deadline' = RetryWait
       ELSE UNCHANGED lineVars
    /\ Refuse

\* The port is not open: the line gives up after the first wait, and after
\* that puts the next question off.
NotOpen ==
    /\ IF state = "NoConnection" \/ deadline = 0
       THEN state' = "NoConnection" /\ deadline' = RetryWait
       ELSE UNCHANGED lineVars
    /\ Refuse

\* operator bool() reads the state of the port and waits before it returns.
AskPort ==
    /\ seen' = lineState
    /\ pc' = "settle" /\ delay' = Settle
    /\ UNCHANGED <<lineVars, readLeft, callVars, dataVars>>

\* Mutant: every question that comes too early puts the next one off.
TooEarlyRestarts == deadline' = RetryWait /\ state' = state /\ Refuse

\* NoConnection, and the deadline is not over.
TooEarly == UNCHANGED lineVars /\ Refuse

IsReady ==
    /\ pc = "isReady"
    /\ \/ state = "Open" /\ Go /\ UNCHANGED <<lineVars, delay, quiet, seen>>
       \/ /\ state = "NoConnection" /\ deadline > 0
          /\ TooEarly /\ UNCHANGED <<quiet, seen>>
       \/ /\ state = "Initialized" \/ (state = "NoConnection" /\ deadline = 0)
          /\ quiet' = 0
          /\ IF boot > 0 THEN NotOpen /\ UNCHANGED seen ELSE AskPort
    /\ UNCHANGED <<boot, usbVars>>

Settled ==
    /\ pc = "settle" /\ delay = 0
    /\ IF seen THEN state' = "Open" /\ Go /\ UNCHANGED <<deadline, delay>> ELSE NotOpen
    /\ seen' = FALSE
    /\ UNCHANGED <<boot, quiet, usbVars>>

Polled ==
    /\ pc = "poll" /\ delay = 0 /\ pc' = "isReady"
    /\ UNCHANGED <<lineVars, timeVars, usbVars, callVars, dataVars, seen>>

\* Serial_::write(): without an open port nothing is sent, else USBDeviceClass
\* sends (see UsbSend).
Write ==
    /\ pc = "write"
    /\ Return
    /\ UNCHANGED <<lineVars, timeVars, usbVars, seen>>

\* The next n bytes of the device go to the buffer behind the first "count".
Take(n) ==
    /\ rx' = SubSeq(rx, n + 1, Len(rx))
    /\ taken' = IF cut THEN taken ELSE taken \o SubSeq(rx, 1, n)
    /\ buf' = [i \in 0 .. MinusOne |->
                  IF \E j \in 1 .. n : i = (count + j - 1) % Word
                  THEN rx[CHOOSE j \in 1 .. n : i = (count + j - 1) % Word] ELSE buf[i]]
    /\ count' = (count + n) % Word
    /\ UNCHANGED <<lineState, configured, cut>>

\* read() has a byte.
HasByte == configured /\ rx # <<>>

\* Mutant: the mark does not end a block.
BlockGoesOnPastMark(b, n) == op = "block" /\ b # NUL /\ n < want

\* receiveBlock() goes on after byte b, the n-th: not after the mark, and not
\* after a zero, because its loop asks for readByte > 0.
BlockGoesOn(b, n) == op = "block" /\ b # NUL /\ b # Mark /\ n < want

\* A byte of receiveBlock(), or the one of receive(value).
TakeByte ==
    /\ pc = "take" /\ HasByte
    /\ Take(1)
    /\ IF BlockGoesOn(Head(rx), count') THEN UNCHANGED <<pc, callVars>>
       ELSE pc' = "done" /\ UNCHANGED callVars
    /\ UNCHANGED <<lineVars, timeVars, seen>>

NoByte ==
    /\ pc = "take" /\ ~HasByte
    /\ pc' = "done"
    /\ UNCHANGED <<lineVars, timeVars, usbVars, callVars, dataVars, seen>>

\* Mutant: the loop ends when the counter meets the length exactly.
ReadMoreUnlessEqual == count # want

\* readBytes() asks again.
ReadMore == count < want

\* A round of readBytes(): recv() of the device hands over some of the bytes it
\* has, those of one bank, or answers -1 without a configuration, which the
\* counter takes for a number of bytes.
ReadRound ==
    /\ pc = "readBytes" /\ ReadMore
    /\ IF ~configured
       THEN /\ count' = (count + MinusOne) % Word
            /\ cut' = TRUE
            /\ UNCHANGED <<usbVars, buf, taken, pc>>
       ELSE IF rx = <<>>
       THEN /\ pc' = IF readLeft = 0 THEN "done" ELSE pc
            /\ UNCHANGED <<usbVars, dataVars>>
       ELSE /\ \E n \in 1 .. Min({Len(rx), (Word + want - count) % Word}) : Take(n)
            /\ UNCHANGED pc
    /\ UNCHANGED <<lineVars, timeVars, callVars, seen>>

ReadEnd ==
    /\ pc = "readBytes" /\ ~ReadMore
    /\ pc' = "done"
    /\ UNCHANGED <<lineVars, timeVars, usbVars, callVars, dataVars, seen>>

Done ==
    /\ pc = "done"
    /\ Return
    /\ UNCHANGED <<lineVars, timeVars, usbVars, seen>>

Running ==
    \/ IsReady \/ Settled \/ Polled \/ Write \/ TakeByte \/ NoByte
    \/ ReadRound \/ ReadEnd \/ Done

Next == Running \/ Initialize \/ Invoke \/ Tick \/ Host

\* Time passes, a call runs on, and the application goes on using the line.  The
\* host owes nothing.
Spec ==
    /\ Init /\ [][Next]_vars
    /\ WF_vars(Tick) /\ WF_vars(Running) /\ WF_vars(Invoke)

-----------------------------------------------------------------------------

\* What a call hands to its caller is what it took from the device: as many
\* bytes as it says, in order, none of them dropped, and of a block nothing
\* behind its end.  A readBytes() that met a device without configuration is
\* the exception: it counts the -1 of recv() as a length.
BytesKept ==
    pc = "done" =>
        /\ \/ op = "read" /\ cut
           \/ count = Len(taken) /\ \A i \in 1 .. count : buf[i - 1] = taken[i]
        /\ op = "block" => \A i \in 1 .. Len(taken) - 1 : taken[i] = Char

\* Whatever -1 does to the counter, no byte goes behind the caller's buffer,
\* except in receiveBlock() of zero bytes, which takes one all the same.
InBuffer ==
    \A i \in 0 .. MinusOne : buf[i] # Blank => i < want \/ (op = "block" /\ i = 0)

\* A line that has given up costs its caller the delay of 10 ms once in
\* RetryWait, not on every call.
RetryQuiet ==
    [][state = "NoConnection" /\ pc = "isReady" /\ pc' = "settle" => quiet = RetryWait]_vars

\* Every call returns, waitUntilReady() too and whether or not there is a host,
\* unless the configuration comes and goes forever.
CallReturns ==
    <>[][configured' = configured]_vars => (pc # "idle" ~> pc = "idle")

\* A line that has given up finds a port that is opened later and stays open.
Reconnects == lineState ~> state = "Open" \/ ~lineState
=============================================================================
