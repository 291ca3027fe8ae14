------------------------ MODULE DoubleBufferedEPOut ------------------------
(***************************************************************************)
(* DoubleBufferedEPOutHandler, the receiver of a USB bulk OUT endpoint     *)
(* (usb/DoubleBufferedEndPointHandler.cpp).  Three actors share its two    *)
(* banks:                                                                  *)
(*                                                                         *)
(*   - the USB peripheral writes packets of the host into the armed bank   *)
(*     by DMA, at any time;                                                *)
(*   - the interrupt handler, handleEndpoint(), runs when a transfer is    *)
(*     complete.  The main program stands still while it runs and the      *)
(*     peripheral is not armed until its last statement, so it is one      *)
(*     action;                                                             *)
(*   - the main program calls recv() and available(), and an interrupt     *)
(*     may come between any two of their steps except inside a             *)
(*     "synchronized" block, which is one action.                          *)
(*                                                                         *)
(* Bytes carry no value here: the n-th byte the host sends is the number   *)
(* n, so a bank tells which byte of the stream each of its cells holds.    *)
(***************************************************************************)
EXTENDS Naturals

CONSTANTS
    PacketSize,   \* largest packet, epBank0SetSize(ep, 64)
    Packets,      \* packets a bank holds: bufferSize is Packets * PacketSize
    StreamLen,    \* bound: bytes the host sends altogether
    MaxLen        \* bound: largest len the application passes to recv()

ASSUME ParamAssumption ==
    /\ PacketSize \in Nat \ {0}
    /\ Packets \in Nat \ {0}
    /\ StreamLen \in Nat
    /\ MaxLen \in Nat \ {0}

Bank == {0, 1}
Other(b) == 1 - b

\* The bytes of a bank, the handler's member "size".
Size == Packets * PacketSize
Index == 0 .. Size - 1

VARIABLES
    bk0rdy,      \* EPSTATUS.BK0RDY: the endpoint NAKs the host
    trcpt0,      \* EPINTFLAG.TRCPT0: a transfer is complete
    byteCount,   \* PCKSIZE.BYTE_COUNT: bytes of the transfer so far
    address,     \* the bank the descriptor's ADDR points to
    sent,        \* bytes the endpoint has accepted from the host
    current,     \* bank recv() reads
    incoming,    \* bank of the transfer handleEndpoint() waits for
    data, first, last, ready,   \* of each bank
    notify,      \* recv() has to release the endpoint
    pc,          \* where the main program is
    bank,        \* the branch recv() or available() took: current on entry
    want,        \* recv(): bytes still asked for, len - i
    got,         \* bytes handed to the application
    lastByte,    \* the byte of the stream handed over last
    promise      \* what available() returned, less the bytes read since

hwVars   == <<bk0rdy, trcpt0, byteCount, address, sent>>
bankVars == <<incoming, data, first, last, ready, notify>>
mainVars == <<current, pc, bank, want, got, lastByte, promise>>
vars == <<hwVars, bankVars, mainVars>>

\* The states of the main program: outside the handler, in the copy loop of
\* recv(), between "current = other" and the second synchronized block of
\* recv(), and behind the synchronized block of available().
PC == {"idle", "copy", "clear", "avail"}

TypeOK ==
    /\ bk0rdy \in BOOLEAN /\ trcpt0 \in BOOLEAN /\ notify \in BOOLEAN
    /\ byteCount \in 0 .. Size /\ address \in Bank
    /\ sent \in 0 .. StreamLen /\ got \in 0 .. StreamLen
    /\ lastByte \in 0 .. StreamLen
    /\ current \in Bank /\ incoming \in Bank
    /\ data \in [Bank -> [Index -> 0 .. StreamLen]]
    /\ first \in [Bank -> 0 .. Size] /\ last \in [Bank -> 0 .. Size]
    /\ ready \in [Bank -> BOOLEAN]
    /\ pc \in PC /\ bank \in Bank /\ want \in 0 .. MaxLen /\ promise \in 0 .. Size

-----------------------------------------------------------------------------

\* Mutant: the byte counter is not reset.
ReleaseStaleCount == byteCount' = byteCount /\ bk0rdy' = FALSE

\* release(): the endpoint takes a new transfer into the bank at "address".
Release == byteCount' = 0 /\ bk0rdy' = FALSE

\* The constructor.  What malloc() returns holds no byte of the stream.
Init ==
    /\ bk0rdy = FALSE /\ trcpt0 = FALSE /\ byteCount = 0 /\ address = 0
    /\ sent = 0
    /\ current = 0 /\ incoming = 0 /\ notify = FALSE
    /\ data = [b \in Bank |-> [k \in Index |-> 0]]
    /\ first = [b \in Bank |-> 0] /\ last = [b \in Bank |-> 0]
    /\ ready = [b \in Bank |-> FALSE]
    /\ pc = "idle" /\ bank = 0 /\ want = 0 /\ got = 0 /\ lastByte = 0
    /\ promise = 0

-----------------------------------------------------------------------------
(* The peripheral.                                                         *)

\* The host sends a packet of n bytes.  A packet that is not full, or a full
\* bank, ends the transfer.
HwPacket(n) ==
    /\ ~bk0rdy
    /\ sent + n <= StreamLen
    /\ data' = [data EXCEPT ![address] =
                   [k \in Index |-> IF byteCount <= k /\ k < byteCount + n
                                    THEN sent + 1 + (k - byteCount)
                                    ELSE data[address][k]]]
    /\ byteCount' = byteCount + n
    /\ sent' = sent + n
    /\ bk0rdy' = (n < PacketSize \/ byteCount' >= Size)
    /\ trcpt0' = bk0rdy'
    /\ UNCHANGED <<address, incoming, first, last, ready, notify, mainVars>>

-----------------------------------------------------------------------------
(* The interrupt handler.                                                  *)

\* A zero-length packet leaves the bank empty: take the next transfer into it.
KeepBank ==
    /\ byteCount = 0
    /\ Release
    /\ UNCHANGED <<incoming, address, ready, notify>>

\* Mutant: the endpoint is released although the reader holds the other bank.
SwapBanksAlwaysRelease ==
    /\ byteCount # 0
    /\ incoming' = Other(incoming)
    /\ address' = incoming'
    /\ ready' = [ready EXCEPT ![incoming] = TRUE]
    /\ notify' = FALSE
    /\ Release

\* Mutant: the reader is not told that it has to release.
SwapBanksNoNotify ==
    /\ byteCount # 0
    /\ incoming' = Other(incoming)
    /\ address' = incoming'
    /\ ready' = [ready EXCEPT ![incoming] = TRUE]
    /\ notify' = FALSE
    /\ IF ready[Other(incoming)] THEN UNCHANGED <<byteCount, bk0rdy>> ELSE Release

\* Mutant: an empty bank is handed over, too.
SwapBanksEmptyToo ==
    /\ incoming' = Other(incoming)
    /\ address' = incoming'
    /\ ready' = [ready EXCEPT ![incoming] = TRUE]
    /\ notify' = ready[Other(incoming)]
    /\ IF notify' THEN UNCHANGED <<byteCount, bk0rdy>> ELSE Release

\* The bank is full of news: hand it over and turn to the other one, which is
\* released now if it has been read, else by the recv() that finishes it.
SwapBanks ==
    /\ byteCount # 0
    /\ incoming' = Other(incoming)
    /\ address' = incoming'
    /\ ready' = [ready EXCEPT ![incoming] = TRUE]
    /\ notify' = ready[Other(incoming)]
    /\ IF notify' THEN UNCHANGED <<byteCount, bk0rdy>> ELSE Release

HandleEndpoint ==
    /\ trcpt0
    /\ trcpt0' = FALSE
    /\ last' = [last EXCEPT ![incoming] = byteCount]
    /\ KeepBank \/ SwapBanks
    /\ UNCHANGED <<sent, data, first, mainVars>>

-----------------------------------------------------------------------------
(* The main program: recv() and available() of the current bank.           *)

Remaining(b) == last[b] - first[b]

\* recv(data, len) of a bank that is ready; without one it returns 0 and
\* nothing has changed.
RecvCall(len) ==
    /\ pc = "idle"
    /\ ready[current]
    /\ pc' = "copy"
    /\ bank' = current
    /\ want' = len
    /\ UNCHANGED <<hwVars, bankVars, current, got, lastByte, promise>>

\* data[i] = data0[first0++]
RecvCopy ==
    /\ pc = "copy"
    /\ want > 0 /\ first[bank] < last[bank]
    /\ lastByte' = data[bank][first[bank]]
    /\ first' = [first EXCEPT ![bank] = @ + 1]
    /\ got' = got + 1
    /\ want' = want - 1
    /\ promise' = IF promise = 0 THEN 0 ELSE promise - 1
    /\ UNCHANGED <<hwVars, incoming, data, last, ready, notify, current, pc, bank>>

\* Mutant: the bank is left behind without rewinding it.
RecvLoopEndNoRewind ==
    /\ pc = "copy"
    /\ want = 0 \/ first[bank] >= last[bank]
    /\ IF first[bank] = last[bank]
       THEN current' = Other(bank) /\ pc' = "clear"
       ELSE current' = current /\ pc' = "idle"
    /\ want' = 0
    /\ UNCHANGED <<hwVars, incoming, data, first, last, ready, notify, bank, got,
                   lastByte, promise>>

\* The loop is over and recv() returns, or the bank has been read to its end
\* and is left behind.
RecvLoopEnd ==
    /\ pc = "copy"
    /\ want = 0 \/ first[bank] >= last[bank]
    /\ IF first[bank] = last[bank]
       THEN /\ first' = [first EXCEPT ![bank] = 0]
            /\ current' = Other(bank)
            /\ pc' = "clear"
       ELSE pc' = "idle" /\ UNCHANGED <<first, current>>
    /\ want' = 0
    /\ UNCHANGED <<hwVars, incoming, data, last, ready, notify, bank, got,
                   lastByte, promise>>

\* Mutant: the flag is cleared and the waiting endpoint is forgotten.
RecvClearNoRelease ==
    /\ pc = "clear"
    /\ pc' = "idle"
    /\ ready' = [ready EXCEPT ![bank] = FALSE]
    /\ notify' = FALSE
    /\ UNCHANGED <<hwVars, incoming, data, first, last, current, bank, want, got,
                   lastByte, promise>>

\* The second synchronized block: the bank that was left may be filled again.
RecvClear ==
    /\ pc = "clear"
    /\ pc' = "idle"
    /\ ready' = [ready EXCEPT ![bank] = FALSE]
    /\ notify' = FALSE
    /\ IF notify THEN Release ELSE UNCHANGED <<byteCount, bk0rdy>>
    /\ UNCHANGED <<trcpt0, address, sent, incoming, data, first, last, current,
                   bank, want, got, lastByte, promise>>

\* available(): the flag is read with interrupts off, the counters after it.
AvailableCall ==
    /\ pc = "idle"
    /\ bank' = current
    /\ IF ready[current] THEN pc' = "avail" /\ promise' = promise
                         ELSE pc' = pc /\ promise' = 0
    /\ UNCHANGED <<hwVars, bankVars, current, want, got, lastByte>>

\* Mutant: what has been read already is counted again.
AvailableReturnAll ==
    /\ pc = "avail"
    /\ pc' = "idle"
    /\ promise' = last[bank]
    /\ UNCHANGED <<hwVars, bankVars, current, bank, want, got, lastByte>>

AvailableReturn ==
    /\ pc = "avail"
    /\ pc' = "idle"
    /\ promise' = Remaining(bank)
    /\ UNCHANGED <<hwVars, bankVars, current, bank, want, got, lastByte>>

Main ==
    \/ \E len \in 0 .. MaxLen : RecvCall(len)
    \/ RecvCopy \/ RecvLoopEnd \/ RecvClear
    \/ AvailableCall \/ AvailableReturn

Next == Main \/ HandleEndpoint \/ \E n \in 0 .. PacketSize : HwPacket(n)

Safety == Init /\ [][Next]_vars

-----------------------------------------------------------------------------
(* Properties.                                                             *)

\* The peripheral never writes into a bank the application reads or may read,
\* and never past the end of one, although interrupts come anywhere in recv().
DmaSafe ==
    ~bk0rdy => /\ address = incoming
               /\ ~ready[address]
               /\ ~(pc \in {"copy", "avail"} /\ bank = address)
               /\ byteCount + PacketSize <= Size

\* No lost wake-up within a session: when the endpoint refuses packets and no
\* interrupt is pending, both banks are full and recv() knows that it has to
\* release.
NoLostWakeup ==
    bk0rdy /\ ~trcpt0 => notify /\ ready[0] /\ ready[1]

\* "when ready0==true the buffer is not being filled and last0 is constant",
\* the comments at lines 82 and 105.
ReadyBankConstant ==
    [][\A b \in Bank : ready[b] /\ ready'[b] =>
           last'[b] = last[b] /\ data'[b] = data[b]]_vars

\* What available() reported stays readable: interrupts add to it only.
PromiseKept ==
    promise > 0 => ready[current] /\ promise <= Remaining(current)

\* recv() stops short of len only when everything reported has been read.
RecvHonoursAvailable ==
    [][pc = "copy" /\ pc' # "copy" => want = 0 \/ promise = 0]_vars

\* Bytes of transfers that are complete.
Complete == IF bk0rdy THEN sent ELSE sent - byteCount

\* The two banks are one byte stream with flow control.
Stream == INSTANCE ByteStream WITH Capacity <- 2 * Size, complete <- Complete
=============================================================================
