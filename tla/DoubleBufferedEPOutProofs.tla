--------------------- MODULE DoubleBufferedEPOutProofs ---------------------
(***************************************************************************)
(* The safety of the bulk OUT receiver for every packet size, bank size,   *)
(* length of the stream and length of recv(), first within one session and *)
(* then over bus resets and new configurations.                            *)
(***************************************************************************)
EXTENDS EPOutSession, TLAPS

\* A bank that was read to its end by the recv() that has not yet cleared
\* its flag.
Drained(b) == pc = "clear" /\ b = bank

\* Which bank each party works on is a function of the two flags.
RoleInv ==
    /\ notify <=> ready[0] /\ ready[1]
    /\ trcpt0 \/ notify => bk0rdy
    /\ ~(trcpt0 /\ notify)
    /\ address = incoming
    /\ pc # "clear" =>
          /\ ready[Other(current)] => ready[current]
          /\ incoming = IF ready[current] /\ ~ready[Other(current)]
                        THEN Other(current) ELSE current
    /\ pc = "clear" =>
          /\ current = Other(bank) /\ ready[bank]
          /\ incoming = IF ready[current] THEN bank ELSE current
    /\ pc \in {"copy", "avail"} => bank = current /\ ready[bank]

\* How far each bank is filled and read.
CountInv ==
    /\ ~bk0rdy => \E k \in 0 .. Packets - 1 : byteCount = k * PacketSize
    /\ \A b \in Bank : first[b] > 0 =>
          b = current /\ ready[b] /\ pc # "clear" /\ first[b] <= last[b]
    /\ pc = "clear" => promise = 0
    /\ promise > 0 => ready[current] /\ promise <= last[current] - first[current]

Unread(b) == IF ready[b] /\ ~Drained(b) THEN last[b] - first[b] ELSE 0
InTransfer == IF notify THEN 0 ELSE byteCount

\* Where each byte of the stream is.
StreamInv ==
    /\ lastByte = got
    /\ sent = got + Unread(current) + Unread(Other(current)) + InTransfer
    /\ ready[current] =>
          \A k \in Index : first[current] <= k /\ k < last[current] =>
             data[current][k] = got + 1 + (k - first[current])
    /\ ready[Other(current)] /\ pc # "clear" =>
          \A k \in Index : k < last[Other(current)] =>
             data[Other(current)][k] = got + 1 + Unread(current) + k
    /\ ~notify =>
          \A k \in Index : k < byteCount =>
             data[incoming][k] = sent - byteCount + 1 + k

IInv == TypeOK /\ RoleInv /\ CountInv /\ StreamInv

\* Somebody will release an endpoint that refuses the host.  This is not a part
\* of IInv, which must survive a bus reset that clears the interrupt flag.
Awake == bk0rdy => trcpt0 \/ notify

\* A bank that waits to be read is not empty.  recv() may read it to its end, and
\* leaves it then.
Awaited ==
    \A b \in Bank : ready[b] /\ ~Drained(b) /\ ~(pc = "copy" /\ b = bank) =>
                       first[b] < last[b]

-----------------------------------------------------------------------------
(* Arithmetic of packets and banks.                                        *)

LEMMA SizeIsNat == Size \in Nat \ {0}
BY ParamAssumption DEF Size

\* A whole number of packets that is short of a bank leaves room for one more.
LEMMA PacketFits ==
    ASSUME NEW k \in 0 .. Packets - 1
    PROVE  /\ k * PacketSize \in Nat
           /\ k * PacketSize + PacketSize = (k + 1) * PacketSize
           /\ k * PacketSize + PacketSize <= Size
           /\ k * PacketSize + PacketSize < Size => k + 1 \in 0 .. Packets - 1
<1> DEFINE d == Packets - (k + 1)
<1>1. d \in Nat /\ k \in Nat /\ PacketSize \in Nat \ {0} /\ Packets = k + 1 + d
  BY ParamAssumption
<1>2. k * PacketSize \in Nat /\ d * PacketSize \in Nat
  BY <1>1
<1>3. k * PacketSize + PacketSize = (k + 1) * PacketSize
  BY <1>1
<1>4. Size = k * PacketSize + PacketSize + d * PacketSize
  BY <1>1 DEF Size
<1>5. d = 0 => d * PacketSize = 0
  BY <1>1
<1> QED
  BY <1>1, <1>2, <1>3, <1>4, <1>5

\* A receiver as the constructor leaves it, outside recv() and available().
Fresh ==
    /\ bk0rdy = FALSE /\ trcpt0 = FALSE /\ byteCount = 0 /\ address = 0
    /\ sent = 0 /\ got = 0 /\ lastByte = 0 /\ promise = 0
    /\ current = 0 /\ incoming = 0 /\ notify = FALSE
    /\ data = [b \in Bank |-> [k \in Index |-> 0]]
    /\ first = [b \in Bank |-> 0] /\ last = [b \in Bank |-> 0]
    /\ ready = [b \in Bank |-> FALSE]
    /\ pc = "idle" /\ bank \in Bank /\ want \in 0 .. MaxLen

LEMMA FreshInv == Fresh => IInv
<1> SUFFICES ASSUME Fresh PROVE IInv
  OBVIOUS
<1>1. TypeOK
  <2>1. /\ bk0rdy \in BOOLEAN /\ trcpt0 \in BOOLEAN /\ notify \in BOOLEAN
        /\ ready \in [Bank -> BOOLEAN]
    BY DEF Fresh
  <2>2. 0 \in 0 .. StreamLen /\ 0 \in 0 .. Size /\ 0 \in 0 .. MaxLen /\ 0 \in Bank
    BY ParamAssumption, SizeIsNat DEF Bank
  <2>3. data \in [Bank -> [Index -> 0 .. StreamLen]]
    BY <2>2 DEF Fresh
  <2> QED
    BY <2>1, <2>2, <2>3 DEF Fresh, TypeOK, PC
<1>2. RoleInv
  BY DEF Fresh, RoleInv, Other, Bank
<1>3. CountInv
  <2>1. 0 \in 0 .. Packets - 1 /\ 0 * PacketSize = 0
    BY ParamAssumption
  <2> QED
    BY <2>1 DEF Fresh, CountInv, Bank
<1>4. StreamInv
  <2>1. /\ ~ready[0] /\ ~ready[1] /\ Other(current) = 1
        /\ Unread(0) = 0 /\ Unread(1) = 0 /\ InTransfer = 0
    BY DEF Fresh, Bank, Other, Unread, InTransfer
  <2>2. \A k \in Index : ~(k < byteCount)
    BY SizeIsNat DEF Fresh, Index
  <2> QED
    BY <2>1, <2>2 DEF Fresh, StreamInv
<1> QED
  BY <1>1, <1>2, <1>3, <1>4 DEF IInv

LEMMA InitInv == Init => IInv /\ Awake
BY FreshInv, ParamAssumption DEF Init, Fresh, Bank, Awake

-----------------------------------------------------------------------------
(* The peripheral.                                                         *)

\* A packet fits behind the bytes the transfer already has.
LEMMA PacketRoom ==
    ASSUME IInv, NEW n \in 0 .. PacketSize, HwPacket(n)
    PROVE  /\ byteCount' \in 0 .. Size
           /\ byteCount' = byteCount + n
           /\ ~bk0rdy' => \E k \in 0 .. Packets - 1 : byteCount' = k * PacketSize
<1>1. ~bk0rdy /\ byteCount' = byteCount + n
  BY DEF HwPacket
<1>2. PICK k \in 0 .. Packets - 1 : byteCount = k * PacketSize
  BY <1>1 DEF IInv, CountInv
<1>3. byteCount' \in 0 .. Size
  BY <1>1, <1>2, PacketFits, SizeIsNat, ParamAssumption
<1>4. ASSUME ~bk0rdy' PROVE \E j \in 0 .. Packets - 1 : byteCount' = j * PacketSize
  <2>0. ~(n < PacketSize) /\ ~(byteCount' >= Size)
    BY <1>4, Zenon DEF HwPacket
  <2>1. n = PacketSize /\ byteCount' < Size
    BY <1>3, <2>0, SizeIsNat, ParamAssumption
  <2>2. byteCount' = (k + 1) * PacketSize /\ k + 1 \in 0 .. Packets - 1
    BY <1>1, <1>2, <2>1, PacketFits
  <2> QED
    BY <2>2
<1> QED
  BY <1>1, <1>3, <1>4

LEMMA HwPacketInv ==
    ASSUME IInv, NEW n \in 0 .. PacketSize, HwPacket(n)
    PROVE  IInv'
<1> USE DEF Bank
<1>1. /\ TypeOK /\ RoleInv /\ CountInv /\ StreamInv
      /\ ~bk0rdy /\ ~notify /\ address = incoming
  BY DEF IInv, HwPacket, RoleInv
<1>2. byteCount' \in 0 .. Size /\ byteCount' = byteCount + n
  BY PacketRoom
<1>3. /\ sent + n <= StreamLen /\ sent' = sent + n
      /\ UNCHANGED <<address, incoming, first, last, ready, notify, mainVars>>
  BY DEF HwPacket
<1>4. /\ data' \in [Bank -> [Index -> 0 .. StreamLen]]
      /\ \A k \in Index : k < byteCount' =>
            data'[incoming][k] = sent' - byteCount' + 1 + k
      /\ data'[Other(incoming)] = data[Other(incoming)]
  <2>1. \A k \in Index : byteCount <= k /\ k < byteCount + n =>
            sent + 1 + (k - byteCount) \in 0 .. StreamLen
    BY <1>1, <1>3, SizeIsNat, ParamAssumption DEF TypeOK, Index
  <2> DEFINE row == [k \in Index |-> IF byteCount <= k /\ k < byteCount + n
                                     THEN sent + 1 + (k - byteCount)
                                     ELSE data[address][k]]
  <2>2. data' = [data EXCEPT ![address] = row]
    BY DEF HwPacket
  <2>3. row \in [Index -> 0 .. StreamLen]
    BY <1>1, <2>1 DEF TypeOK
  <2>4. \A k \in Index : k < byteCount' => row[k] = sent' - byteCount' + 1 + k
    <3> TAKE k \in Index
    <3> HAVE k < byteCount'
    <3>1. CASE byteCount <= k
      BY <3>1, <1>1, <1>2, <1>3, SizeIsNat, ParamAssumption DEF TypeOK, Index
    <3>2. CASE ~(byteCount <= k)
      <4>1. data[incoming][k] = sent - byteCount + 1 + k
        BY <3>2, <1>1, SizeIsNat DEF TypeOK, Index, StreamInv
      <4> QED
        BY <3>2, <4>1, <1>1, <1>2, <1>3, SizeIsNat, ParamAssumption DEF TypeOK, Index
    <3> QED
      BY <3>1, <3>2
  <2> HIDE DEF row
  <2> QED
    BY <1>1, <2>2, <2>3, <2>4 DEF TypeOK, Other
<1>5. TypeOK'
  <2>1. bk0rdy' \in BOOLEAN /\ trcpt0' \in BOOLEAN /\ bk0rdy' = trcpt0'
    BY DEF HwPacket
  <2> QED
    BY <1>1, <1>2, <1>3, <1>4, <2>1, ParamAssumption DEF TypeOK, mainVars
<1>6. RoleInv'
  <2>1. trcpt0' => bk0rdy'
    BY DEF HwPacket
  <2> QED
    BY <1>1, <1>3, <2>1 DEF RoleInv, mainVars
<1>7. CountInv'
  BY <1>1, <1>3, PacketRoom DEF CountInv, mainVars
<1>8. StreamInv'
  <2>1. ~ready[incoming] /\ ~(pc = "clear" /\ ready[current] /\ ready[bank])
    BY <1>1 DEF RoleInv, TypeOK, Other
  <2> QED
    BY <1>1, <1>2, <1>3, <1>4, <2>1
       DEF StreamInv, RoleInv, Unread, InTransfer, Drained, TypeOK, Other, mainVars
<1> QED
  BY <1>5, <1>6, <1>7, <1>8 DEF IInv

-----------------------------------------------------------------------------
(* The interrupt handler.                                                  *)

\* When it runs the reader's bank is not the one that was filled.
LEMMA TransferDone ==
    ASSUME IInv, HandleEndpoint
    PROVE  /\ TypeOK /\ RoleInv /\ CountInv /\ StreamInv
           /\ bk0rdy /\ trcpt0 /\ ~notify /\ address = incoming
           /\ ~ready[incoming] /\ first[incoming] = 0
           /\ pc = "clear" => ready[bank] /\ ~ready[current] /\ incoming = current
           /\ trcpt0' = FALSE
           /\ last' = [last EXCEPT ![incoming] = byteCount]
           /\ UNCHANGED <<sent, data, first, mainVars>>
<1>1. TypeOK /\ RoleInv /\ CountInv /\ StreamInv
  BY DEF IInv
<1>2. bk0rdy /\ trcpt0 /\ ~notify /\ address = incoming
  BY <1>1 DEF HandleEndpoint, RoleInv
<1>3. ~ready[incoming] /\ (pc = "clear" => ready[bank] /\ ~ready[current] /\ incoming = current)
  BY <1>1, <1>2 DEF RoleInv, TypeOK, Other, Bank
<1>4. first[incoming] = 0
  BY <1>1, <1>3, SizeIsNat DEF CountInv, TypeOK
<1> QED
  BY <1>1, <1>2, <1>3, <1>4 DEF HandleEndpoint

LEMMA KeepBankInv ==
    ASSUME IInv, HandleEndpoint, KeepBank
    PROVE  IInv'
<1> USE DEF Bank
<1>1. /\ byteCount = 0 /\ byteCount' = 0 /\ bk0rdy' = FALSE
      /\ UNCHANGED <<incoming, address, ready, notify>>
  BY DEF KeepBank, Release
<1>2. TypeOK'
  <2>1. bk0rdy' \in BOOLEAN /\ trcpt0' \in BOOLEAN
    BY TransferDone, <1>1
  <2>2. last' \in [Bank -> 0 .. Size] /\ 0 \in 0 .. Size
    BY TransferDone, SizeIsNat DEF TypeOK
  <2> QED
    BY TransferDone, <1>1, <2>1, <2>2 DEF TypeOK, mainVars
<1>3. RoleInv'
  BY TransferDone, <1>1 DEF RoleInv, mainVars
<1>4. CountInv'
  <2>1. 0 \in 0 .. Packets - 1 /\ 0 = 0 * PacketSize
    BY ParamAssumption
  <2>2. \A b \in Bank : ready[b] => last'[b] = last[b]
    BY TransferDone DEF TypeOK
  <2> QED
    BY TransferDone, <1>1, <2>1, <2>2 DEF CountInv, TypeOK, mainVars
<1>5. StreamInv'
  <2>1. \A b \in Bank : ready[b] => last'[b] = last[b]
    BY TransferDone DEF TypeOK
  <2> QED
    BY TransferDone, <1>1, <2>1, SizeIsNat
       DEF StreamInv, Unread, InTransfer, Drained, TypeOK, Index, Other, mainVars
<1> QED
  BY <1>2, <1>3, <1>4, <1>5 DEF IInv

LEMMA SwapBanksInv ==
    ASSUME IInv, HandleEndpoint, SwapBanks
    PROVE  IInv'
<1> USE DEF Bank
<1>1. /\ incoming' = Other(incoming) /\ address' = Other(incoming)
      /\ ready' = [ready EXCEPT ![incoming] = TRUE]
      /\ notify' = ready[Other(incoming)]
      /\ notify' => byteCount' = byteCount /\ bk0rdy' = bk0rdy
      /\ ~notify' => byteCount' = 0 /\ bk0rdy' = FALSE
  BY Zenon DEF SwapBanks, Release
<1>2. /\ notify' <=> ready[Other(incoming)]
      /\ notify' => byteCount' = byteCount /\ bk0rdy'
      /\ ~notify' => byteCount' = 0 /\ ~bk0rdy'
  <2>1. bk0rdy
    BY TransferDone
  <2>2. notify' <=> ready[Other(incoming)]
    BY <1>1, Zenon
  <2>3. notify' => byteCount' = byteCount /\ bk0rdy'
    BY <1>1, <2>1, Zenon
  <2>4. ~notify' => byteCount' = 0 /\ ~bk0rdy'
    BY <1>1, Zenon
  <2> QED
    BY <2>2, <2>3, <2>4, Zenon
<1>3. /\ bk0rdy' \in BOOLEAN /\ notify' \in BOOLEAN
      /\ ready' \in [Bank -> BOOLEAN]
  <2>1. bk0rdy \in BOOLEAN /\ incoming \in Bank /\ Other(incoming) \in Bank
        /\ ready \in [Bank -> BOOLEAN]
    BY TransferDone DEF TypeOK, Other
  <2>2. ready' \in [Bank -> BOOLEAN] /\ notify' \in BOOLEAN
    BY <1>1, <2>1, Zenon
  <2>3. bk0rdy' \in BOOLEAN
    BY <1>1, <2>1, Zenon
  <2> QED
    BY <2>2, <2>3
<1>4. /\ ready'[incoming]
      /\ ready'[Other(incoming)] <=> ready[Other(incoming)]
  BY TransferDone, <1>1 DEF TypeOK, Other
<1>5. /\ last' \in [Bank -> 0 .. Size]
      /\ last'[incoming] = byteCount
      /\ last'[Other(incoming)] = last[Other(incoming)]
  BY TransferDone DEF TypeOK, Other
<1>6. TypeOK'
  BY TransferDone, <1>1, <1>2, <1>3, <1>5, SizeIsNat DEF TypeOK, Other, mainVars
<1>7. RoleInv'
  BY TransferDone, <1>1, <1>2, <1>4 DEF RoleInv, TypeOK, Other, mainVars
<1>8. CountInv'
  <2>1. 0 \in 0 .. Packets - 1 /\ 0 = 0 * PacketSize
    BY ParamAssumption
  <2>2. \A b \in Bank : ready[b] => last'[b] = last[b] /\ ready'[b]
    BY TransferDone, <1>4, <1>5 DEF TypeOK, Other
  <2>3. first' = first /\ promise' = promise /\ current' = current /\ pc' = pc
    BY TransferDone DEF mainVars
  <2> QED
    BY TransferDone, <1>2, <2>1, <2>2, <2>3 DEF CountInv, TypeOK
<1>9. StreamInv'
  <2>1. /\ first' = first /\ data' = data /\ sent' = sent /\ got' = got
        /\ lastByte' = lastByte /\ current' = current /\ pc' = pc /\ bank' = bank
    BY TransferDone DEF mainVars
  <2>2. InTransfer' = 0 /\ InTransfer = byteCount
    BY TransferDone, <1>2 DEF InTransfer
  <2>3. ~notify' => \A k \in Index : ~(k < byteCount')
    BY <1>2, SizeIsNat DEF Index
  <2>4. CASE incoming = current
    <3>1. /\ ~ready[current] /\ first[current] = 0
          /\ ready[Other(current)] => pc = "clear" /\ bank = Other(current)
      BY TransferDone, <2>4 DEF RoleInv, TypeOK, Other
    <3>2. /\ Unread(current) = 0 /\ Unread(Other(current)) = 0
          /\ Unread(current)' = byteCount /\ Unread(Other(current))' = 0
      BY TransferDone, <1>4, <1>5, <2>1, <2>4, <3>1 DEF Unread, Drained, RoleInv, TypeOK, Other
    <3>3. \A k \in Index : k < byteCount => data[current][k] = got + 1 + k
      BY TransferDone, <2>2, <2>4, <3>2, SizeIsNat DEF StreamInv, TypeOK, Index
    <3>4. sent' = got' + Unread(current)' + Unread(Other(current))' + InTransfer'
      BY TransferDone, <2>1, <2>2, <3>2 DEF StreamInv, TypeOK
    <3>5. ready'[Other(current)] => pc' = "clear"
      BY <1>4, <2>1, <2>4, <3>1
    <3>6. \A k \in Index : first'[current] <= k /\ k < last'[current] =>
              data'[current][k] = got' + 1 + (k - first'[current])
      <4>1. first'[current] = 0 /\ last'[current] = byteCount /\ got \in Nat
        BY TransferDone, <1>5, <2>1, <2>4, <3>1, ParamAssumption DEF TypeOK
      <4>2. Index \subseteq Nat
        BY SizeIsNat DEF Index
      <4> QED
        BY <2>1, <3>3, <4>1, <4>2
    <3>7. lastByte = got
      BY TransferDone DEF StreamInv
    <3> QED
      BY <2>1, <2>3, <3>4, <3>5, <3>6, <3>7 DEF StreamInv
  <2>5. CASE incoming = Other(current)
    <3>1. ready[current] /\ ~ready[Other(current)] /\ pc # "clear" /\ Other(Other(current)) = current
      BY TransferDone, <2>5 DEF RoleInv, TypeOK, Other
    <3>2. /\ Unread(current) = last[current] - first[current]
          /\ Unread(Other(current)) = 0
          /\ Unread(current)' = Unread(current)
          /\ Unread(Other(current))' = byteCount
      BY TransferDone, <1>4, <1>5, <2>1, <2>5, <3>1 DEF Unread, Drained, TypeOK, Other
    <3>3. \A k \in Index : k < byteCount =>
              data[Other(current)][k] = got + 1 + Unread(current) + k
      <4>1. sent = got + Unread(current) + byteCount /\ Unread(current) \in 0 .. Size
        BY TransferDone, <2>2, <3>1, <3>2, SizeIsNat DEF StreamInv, TypeOK, CountInv
      <4>2. \A k \in Index : k < byteCount =>
                data[Other(current)][k] = sent - byteCount + 1 + k
        BY TransferDone, <2>5 DEF StreamInv
      <4>3. /\ sent \in Nat /\ got \in Nat /\ byteCount \in Nat
            /\ Unread(current) \in Nat /\ Index \subseteq Nat
        BY TransferDone, <4>1, SizeIsNat, ParamAssumption DEF TypeOK, Index
      <4>4. sent - byteCount + 1 = got + 1 + Unread(current)
        BY <4>1, <4>3
      <4> QED
        BY <4>2, <4>3, <4>4
    <3>4. sent' = got' + Unread(current)' + Unread(Other(current))' + InTransfer'
      BY TransferDone, <2>1, <2>2, <3>2 DEF StreamInv, TypeOK
    <3>5. lastByte = got /\ \A k \in Index : first[current] <= k /\ k < last[current] =>
              data[current][k] = got + 1 + (k - first[current])
      BY TransferDone, <3>1 DEF StreamInv
    <3>6. last'[current] = last[current] /\ last'[Other(current)] = byteCount
      BY <1>5, <2>5, <3>1
    <3> QED
      BY <2>1, <2>3, <3>2, <3>3, <3>4, <3>5, <3>6 DEF StreamInv
  <2> QED
    BY TransferDone, <2>4, <2>5 DEF TypeOK, Other
<1> QED
  BY <1>6, <1>7, <1>8, <1>9 DEF IInv

LEMMA HandleEndpointInv == IInv /\ HandleEndpoint => IInv'
BY KeepBankInv, SwapBanksInv DEF HandleEndpoint

-----------------------------------------------------------------------------
(* The main program.                                                       *)

LEMMA RecvCallInv ==
    ASSUME IInv, NEW len \in 0 .. MaxLen, RecvCall(len)
    PROVE  IInv'
<1>1. /\ TypeOK /\ RoleInv /\ CountInv /\ StreamInv
      /\ pc = "idle" /\ ready[current] /\ pc' = "copy" /\ bank' = current /\ want' = len
      /\ UNCHANGED <<hwVars, bankVars, current, got, lastByte, promise>>
  BY DEF IInv, RecvCall
<1>2. TypeOK'
  BY <1>1 DEF TypeOK, PC, hwVars, bankVars
<1>3. RoleInv'
  BY <1>1 DEF RoleInv, hwVars, bankVars
<1>4. CountInv'
  BY <1>1 DEF CountInv, hwVars, bankVars
<1>5. StreamInv'
  BY <1>1 DEF StreamInv, Unread, InTransfer, Drained, hwVars, bankVars
<1> QED
  BY <1>2, <1>3, <1>4, <1>5 DEF IInv

LEMMA RecvCopyInv ==
    ASSUME IInv, RecvCopy
    PROVE  IInv'
<1> USE DEF Bank
<1>1. /\ TypeOK /\ RoleInv /\ CountInv /\ StreamInv
      /\ pc = "copy" /\ bank = current /\ ready[current]
      /\ want > 0 /\ first[current] < last[current]
      /\ lastByte' = data[current][first[current]]
      /\ first' = [first EXCEPT ![current] = first[current] + 1]
      /\ got' = got + 1 /\ want' = want - 1
      /\ promise' = IF promise = 0 THEN 0 ELSE promise - 1
      /\ UNCHANGED <<hwVars, incoming, data, last, ready, notify, current, pc, bank>>
  BY DEF IInv, RecvCopy, RoleInv
<1>2. /\ first[current] \in Index /\ last[current] \in 0 .. Size
      /\ first' \in [Bank -> 0 .. Size]
      /\ first'[current] = first[current] + 1
      /\ first'[Other(current)] = first[Other(current)]
      /\ first[Other(current)] = 0
  <2>1. /\ first \in [Bank -> 0 .. Size] /\ last \in [Bank -> 0 .. Size]
        /\ current \in Bank /\ Other(current) \in Bank /\ Other(current) # current
    BY <1>1 DEF TypeOK, Other
  <2>2. first[current] \in 0 .. Size /\ last[current] \in 0 .. Size /\ Size \in Nat
    BY <2>1, SizeIsNat
  <2>3. first[current] \in Index /\ first[current] + 1 \in 0 .. Size
    BY <1>1, <2>2 DEF Index
  <2>4. ~(first[Other(current)] > 0) /\ first[Other(current)] \in 0 .. Size
    BY <1>1, <2>1 DEF CountInv
  <2>5. first[Other(current)] = 0
    BY <2>2, <2>4
  <2> QED
    BY <1>1, <2>1, <2>2, <2>3, <2>5
<1>3. /\ Unread(current) = last[current] - first[current]
      /\ Unread(current)' = Unread(current) - 1
      /\ Unread(Other(current))' = Unread(Other(current))
      /\ Unread(Other(current)) \in 0 .. Size
      /\ InTransfer' = InTransfer /\ InTransfer \in 0 .. Size
  <2>1. /\ first'[current] = first[current] + 1 /\ last[current] \in Nat
        /\ first[current] \in Nat /\ last' = last /\ pc' = "copy"
    BY <1>1, <1>2, SizeIsNat DEF Index
  <2>2. Unread(current) = last[current] - first[current]
    BY <1>1 DEF Unread, Drained
  <2>3. Unread(current)' = last[current] - (first[current] + 1)
    BY <1>1, <1>2 DEF Unread, Drained
  <2>4. /\ Unread(Other(current)) =
              IF ready[Other(current)] THEN last[Other(current)] - 0 ELSE 0
        /\ Unread(Other(current))' = Unread(Other(current))
    BY <1>1, <1>2 DEF Unread, Drained
  <2>5. last[Other(current)] \in 0 .. Size
    BY <1>1 DEF TypeOK, Other
  <2>6. Unread(Other(current)) \in 0 .. Size
    BY <2>4, <2>5, SizeIsNat
  <2>7. InTransfer' = InTransfer /\ InTransfer \in 0 .. Size
    BY <1>1, SizeIsNat DEF InTransfer, TypeOK, hwVars
  <2> QED
    BY <2>1, <2>2, <2>3, <2>4, <2>6, <2>7
<1>4. lastByte' = got' /\ got' \in 0 .. StreamLen
  <2>1. data[current][first[current]] = got + 1 + (first[current] - first[current])
    <3>1. \A k \in Index : first[current] <= k /\ k < last[current] =>
              data[current][k] = got + 1 + (k - first[current])
      BY <1>1 DEF StreamInv
    <3>2. first[current] <= first[current]
      BY <1>2, SizeIsNat DEF Index
    <3> QED
      BY <1>1, <1>2, <3>1, <3>2, Zenon
  <2>2. sent = got + Unread(current) + Unread(Other(current)) + InTransfer
    BY <1>1 DEF StreamInv
  <2>3. Unread(current) \in Nat \ {0} /\ first[current] \in Nat
    BY <1>1, <1>2, <1>3, SizeIsNat DEF Index
  <2>4. /\ sent \in 0 .. StreamLen /\ got \in Nat
        /\ Unread(Other(current)) \in Nat /\ InTransfer \in Nat
    BY <1>1, <1>3, SizeIsNat, ParamAssumption DEF TypeOK
  <2>5. data[current][first[current]] = got + 1
    BY <2>1, <2>3, <2>4
  <2>6. got + 1 <= sent /\ got + 1 \in Nat
    BY <2>2, <2>3, <2>4
  <2>7. got + 1 \in 0 .. StreamLen
    BY <2>4, <2>6, ParamAssumption
  <2> QED
    BY <1>1, <2>5, <2>7
<1>5. TypeOK'
  BY <1>1, <1>2, <1>4, SizeIsNat, ParamAssumption DEF TypeOK, hwVars
<1>6. RoleInv'
  BY <1>1 DEF RoleInv, hwVars
<1>7. CountInv'
  <2>1. /\ first[current] \in Nat /\ last[current] \in Nat /\ promise \in Nat
        /\ first'[current] = first[current] + 1 /\ first'[current] <= last[current]
    BY <1>1, <1>2, SizeIsNat DEF TypeOK, Index
  <2>2. ~bk0rdy' => \E k \in 0 .. Packets - 1 : byteCount' = k * PacketSize
    BY <1>1 DEF CountInv, hwVars
  <2>3. \A b \in Bank : b # current => first'[b] = 0
    BY <1>1, <1>2 DEF TypeOK, Other
  <2>4. \A b \in Bank : first'[b] > 0 =>
            b = current' /\ ready'[b] /\ pc' # "clear" /\ first'[b] <= last'[b]
    BY <1>1, <2>1, <2>3
  <2>5. promise > 0 => promise <= last[current] - first[current]
    BY <1>1 DEF CountInv
  <2>6. promise' > 0 => promise' <= last[current] - first'[current]
    BY <1>1, <2>1, <2>5
  <2> QED
    BY <1>1, <2>2, <2>4, <2>6 DEF CountInv
<1>8. StreamInv'
  <2>1. /\ sent = got + Unread(current) + Unread(Other(current)) + InTransfer
        /\ \A k \in Index : first[current] <= k /\ k < last[current] =>
              data[current][k] = got + 1 + (k - first[current])
        /\ ready[Other(current)] => \A k \in Index : k < last[Other(current)] =>
              data[Other(current)][k] = got + 1 + Unread(current) + k
    BY <1>1 DEF StreamInv
  <2>2. /\ got \in Nat /\ first[current] \in Nat /\ last[current] \in Nat
        /\ Unread(current) \in Nat /\ Unread(Other(current)) \in Nat
        /\ InTransfer \in Nat /\ sent \in Nat /\ Index \subseteq Nat
    <3>1. got \in Nat /\ sent \in Nat /\ Size \in Nat
      BY <1>1, SizeIsNat, ParamAssumption DEF TypeOK
    <3>2. /\ first[current] \in Nat /\ last[current] \in Nat /\ Index \subseteq Nat
      BY <1>2, <3>1 DEF Index
    <3> QED
      BY <1>1, <1>3, <3>1, <3>2
  <2>3. sent' = got' + Unread(current)' + Unread(Other(current))' + InTransfer'
    BY <1>1, <1>3, <2>1, <2>2 DEF hwVars
  <2>4. \A k \in Index : first'[current] <= k /\ k < last[current] =>
            data[current][k] = got' + 1 + (k - first'[current])
    BY <1>1, <1>2, <2>1, <2>2
  <2>5. ready[Other(current)] => \A k \in Index : k < last[Other(current)] =>
            data[Other(current)][k] = got' + 1 + Unread(current)' + k
    BY <1>1, <1>3, <2>1, <2>2
  <2> QED
    BY <1>1, <1>4, <2>3, <2>4, <2>5 DEF StreamInv, hwVars
<1> QED
  BY <1>5, <1>6, <1>7, <1>8 DEF IInv

LEMMA RecvLoopEndInv ==
    ASSUME IInv, RecvLoopEnd
    PROVE  IInv'
<1> USE DEF Bank
<1>1. /\ TypeOK /\ RoleInv /\ CountInv /\ StreamInv
      /\ pc = "copy" /\ bank = current /\ ready[current] /\ want' = 0
      /\ UNCHANGED <<hwVars, incoming, data, last, ready, notify, bank, got,
                     lastByte, promise>>
  BY DEF IInv, RecvLoopEnd, RoleInv
<1>2. CASE first[current] # last[current]
  <2>1. pc' = "idle" /\ first' = first /\ current' = current
    BY <1>1, <1>2 DEF RecvLoopEnd
  <2>2. TypeOK'
    BY <1>1, <2>1, ParamAssumption DEF TypeOK, PC, hwVars
  <2>3. RoleInv'
    BY <1>1, <2>1 DEF RoleInv, hwVars
  <2>4. CountInv'
    BY <1>1, <2>1 DEF CountInv, hwVars
  <2>5. StreamInv'
    BY <1>1, <2>1 DEF StreamInv, Unread, InTransfer, Drained, hwVars
  <2> QED
    BY <2>2, <2>3, <2>4, <2>5 DEF IInv
<1>3. CASE first[current] = last[current]
  <2>1. /\ pc' = "clear" /\ current' = Other(current)
        /\ first' = [first EXCEPT ![current] = 0]
    BY <1>1, <1>3 DEF RecvLoopEnd
  <2>2. /\ first' \in [Bank -> 0 .. Size] /\ current' \in Bank
        /\ \A b \in Bank : first'[b] = 0
        /\ Other(Other(current)) = current
        /\ promise = 0
    BY <1>1, <1>3, <2>1, SizeIsNat DEF TypeOK, Other, CountInv
  <2>3. TypeOK'
    BY <1>1, <2>1, <2>2, ParamAssumption DEF TypeOK, PC, hwVars
  <2>4. RoleInv'
    BY <1>1, <2>1, <2>2 DEF RoleInv, TypeOK, Other, hwVars
  <2>5. CountInv'
    BY <1>1, <2>1, <2>2 DEF CountInv, hwVars
  <2>6. StreamInv'
    <3>1. /\ Unread(current) = 0
          /\ Unread(current)' = Unread(Other(current))
          /\ Unread(Other(current))' = 0
          /\ InTransfer' = InTransfer
      BY <1>1, <1>3, <2>1, <2>2, SizeIsNat
         DEF Unread, InTransfer, Drained, TypeOK, CountInv, Other, hwVars
    <3> QED
      <4>1. /\ sent = got + Unread(current) + Unread(Other(current)) + InTransfer
            /\ ready[Other(current)] => \A k \in Index : k < last[Other(current)] =>
                  data[Other(current)][k] = got + 1 + Unread(current) + k
        BY <1>1 DEF StreamInv
      <4>2. /\ got \in Nat /\ Unread(Other(current)) \in 0 .. Size
            /\ InTransfer \in Nat /\ Index \subseteq Nat
        BY <1>1, <2>2, SizeIsNat, ParamAssumption
           DEF TypeOK, Index, Unread, InTransfer, Drained, Other, CountInv
      <4>3. sent' = got' + Unread(current)' + Unread(Other(current))' + InTransfer'
        BY <1>1, <3>1, <4>1, <4>2 DEF hwVars
      <4>4. ready'[current'] => \A k \in Index : first'[current'] <= k /\ k < last'[current'] =>
                data'[current'][k] = got' + 1 + (k - first'[current'])
        BY <1>1, <2>1, <2>2, <3>1, <4>1, <4>2
      <4> QED
        BY <1>1, <2>1, <4>3, <4>4 DEF StreamInv, hwVars
  <2> QED
    BY <2>3, <2>4, <2>5, <2>6 DEF IInv
<1> QED
  BY <1>2, <1>3

LEMMA RecvClearInv ==
    ASSUME IInv, RecvClear
    PROVE  IInv'
<1> USE DEF Bank
<1>1. /\ TypeOK /\ RoleInv /\ CountInv /\ StreamInv
      /\ pc = "clear" /\ current = Other(bank) /\ ready[bank] /\ promise = 0
      /\ pc' = "idle"
      /\ ready' = [ready EXCEPT ![bank] = FALSE]
      /\ notify' = FALSE
      /\ UNCHANGED <<trcpt0, address, sent, incoming, data, first, last, current,
                     bank, want, got, lastByte, promise>>
  BY DEF IInv, RecvClear, RoleInv, CountInv
<1>2. /\ bank = Other(current) /\ current \in Bank /\ bank \in Bank /\ bank # current
      /\ ready' \in [Bank -> BOOLEAN]
      /\ ~ready'[bank]
      /\ ready'[current] <=> ready[current]
  BY <1>1 DEF TypeOK, Other
<1>3. /\ notify => byteCount' = 0 /\ bk0rdy' = FALSE
      /\ ~notify => byteCount' = byteCount /\ bk0rdy' = bk0rdy
      /\ bk0rdy' \in BOOLEAN /\ byteCount' \in 0 .. Size
  BY <1>1, SizeIsNat DEF RecvClear, Release, TypeOK
<1>4. trcpt0' => bk0rdy'
  <2>1. CASE notify
    BY <1>1, <1>3, <2>1 DEF RoleInv
  <2>2. CASE ~notify
    BY <1>1, <1>3, <2>2 DEF RoleInv
  <2> QED
    BY <2>1, <2>2
<1>5. TypeOK'
  BY <1>1, <1>2, <1>3 DEF TypeOK, PC
<1>6. RoleInv'
  BY <1>1, <1>2, <1>4 DEF RoleInv
<1>7. CountInv'
  <2>1. 0 \in 0 .. Packets - 1 /\ 0 = 0 * PacketSize
    BY ParamAssumption
  <2>2. ~bk0rdy' => \E k \in 0 .. Packets - 1 : byteCount' = k * PacketSize
    BY <1>1, <1>3, <2>1 DEF CountInv
  <2> QED
    BY <1>1, <1>2, <2>2 DEF CountInv
<1>8. StreamInv'
  <2>1. Unread(current)' = Unread(current)
    BY <1>1, <1>2 DEF Unread, Drained
  <2>2. Unread(Other(current)) = 0 /\ Unread(Other(current))' = 0
    BY <1>1, <1>2 DEF Unread, Drained
  <2>3. InTransfer' = InTransfer
    BY <1>1, <1>3 DEF InTransfer
  <2>4. \A k \in Index : k < byteCount' =>
            data[incoming][k] = sent - byteCount' + 1 + k
    <3>1. CASE notify
      BY <1>3, <3>1, SizeIsNat DEF Index
    <3>2. CASE ~notify
      BY <1>1, <1>3, <3>2 DEF StreamInv
    <3> QED
      BY <3>1, <3>2
  <2> QED
    BY <1>1, <1>2, <2>1, <2>2, <2>3, <2>4 DEF StreamInv
<1> QED
  BY <1>5, <1>6, <1>7, <1>8 DEF IInv

LEMMA AvailableCallInv ==
    ASSUME IInv, AvailableCall
    PROVE  IInv'
<1>1. /\ TypeOK /\ RoleInv /\ CountInv /\ StreamInv
      /\ pc = "idle" /\ bank' = current
      /\ \/ ready[current] /\ pc' = "avail" /\ promise' = promise
         \/ pc' = "idle" /\ promise' = 0
      /\ UNCHANGED <<hwVars, bankVars, current, want, got, lastByte>>
  BY DEF IInv, AvailableCall
<1>2. TypeOK'
  BY <1>1, SizeIsNat DEF TypeOK, PC, hwVars, bankVars
<1>3. RoleInv'
  BY <1>1 DEF RoleInv, hwVars, bankVars
<1>4. CountInv'
  BY <1>1 DEF CountInv, hwVars, bankVars
<1>5. StreamInv'
  BY <1>1 DEF StreamInv, Unread, InTransfer, Drained, hwVars, bankVars
<1> QED
  BY <1>2, <1>3, <1>4, <1>5 DEF IInv

LEMMA AvailableReturnInv ==
    ASSUME IInv, AvailableReturn
    PROVE  IInv'
<1> USE DEF Bank
<1>1. /\ TypeOK /\ RoleInv /\ CountInv /\ StreamInv
      /\ pc = "avail" /\ bank = current /\ ready[current] /\ pc' = "idle"
      /\ promise' = last[current] - first[current]
      /\ UNCHANGED <<hwVars, bankVars, current, bank, want, got, lastByte>>
  BY DEF IInv, AvailableReturn, RoleInv, Remaining
<1>2. promise' \in 0 .. Size
  BY <1>1, SizeIsNat DEF TypeOK, CountInv
<1>3. TypeOK'
  BY <1>1, <1>2 DEF TypeOK, PC, hwVars, bankVars
<1>4. RoleInv'
  BY <1>1 DEF RoleInv, hwVars, bankVars
<1>5. CountInv'
  BY <1>1, <1>2, SizeIsNat DEF CountInv, hwVars, bankVars
<1>6. StreamInv'
  BY <1>1 DEF StreamInv, Unread, InTransfer, Drained, hwVars, bankVars
<1> QED
  BY <1>3, <1>4, <1>5, <1>6 DEF IInv

-----------------------------------------------------------------------------
(* The inductive invariant, and what follows from it.                      *)

LEMMA NextInv == IInv /\ [Next]_vars => IInv'
<1> SUFFICES ASSUME IInv, [Next]_vars PROVE IInv'
  OBVIOUS
<1>1. ASSUME NEW len \in 0 .. MaxLen, RecvCall(len) PROVE IInv'
  BY <1>1, RecvCallInv
<1>2. CASE RecvCopy
  BY <1>2, RecvCopyInv
<1>3. CASE RecvLoopEnd
  BY <1>3, RecvLoopEndInv
<1>4. CASE RecvClear
  BY <1>4, RecvClearInv
<1>5. CASE AvailableCall
  BY <1>5, AvailableCallInv
<1>6. CASE AvailableReturn
  BY <1>6, AvailableReturnInv
<1>7. CASE HandleEndpoint
  BY <1>7, HandleEndpointInv
<1>8. ASSUME NEW n \in 0 .. PacketSize, HwPacket(n) PROVE IInv'
  BY <1>8, HwPacketInv
<1>9. CASE UNCHANGED vars
  BY <1>9 DEF vars, hwVars, bankVars, mainVars, IInv, TypeOK, RoleInv, CountInv,
              StreamInv, Unread, InTransfer, Drained
<1> QED
  BY <1>1, <1>2, <1>3, <1>4, <1>5, <1>6, <1>7, <1>8, <1>9 DEF Next, Main

\* No step but a bus reset puts an endpoint to sleep.
LEMMA NextAwake == IInv /\ Awake /\ [Next]_vars => Awake'
<1> SUFFICES ASSUME IInv, Awake, [Next]_vars PROVE Awake'
  OBVIOUS
<1>1. CASE UNCHANGED <<bk0rdy, trcpt0, notify>>
  BY <1>1 DEF Awake
<1>2. CASE RecvClear
  BY <1>2, Zenon DEF RecvClear, Release, Awake
<1>3. CASE HandleEndpoint
  <2>1. KeepBank => ~bk0rdy'
    BY DEF KeepBank, Release
  <2>2. SwapBanks => (notify' \/ ~bk0rdy')
    BY Zenon DEF SwapBanks, Release
  <2> QED
    BY <1>3, <2>1, <2>2, Zenon DEF HandleEndpoint, Awake
<1>4. ASSUME NEW n \in 0 .. PacketSize, HwPacket(n) PROVE Awake'
  BY <1>4 DEF HwPacket, Awake
<1> QED
  BY <1>1, <1>2, <1>3, <1>4
     DEF Next, Main, RecvCall, RecvCopy, RecvLoopEnd, AvailableCall,
         AvailableReturn, vars, hwVars, bankVars

LEMMA NextAwaited == IInv /\ Awaited /\ [Next]_vars => Awaited'
<1> SUFFICES ASSUME IInv, Awaited, [Next]_vars, NEW b \in Bank,
                    ready'[b], ~Drained(b)', ~(pc' = "copy" /\ b = bank')
             PROVE  first'[b] < last'[b]
  BY DEF Awaited
<1>1. /\ TypeOK /\ RoleInv /\ CountInv /\ first[b] \in Nat /\ last[b] \in Nat
      /\ bank \in Bank /\ current \in Bank /\ incoming \in Bank
  BY SizeIsNat DEF IInv, TypeOK
<1>2. CASE UNCHANGED vars
  BY <1>1, <1>2 DEF Awaited, Drained, vars, hwVars, bankVars, mainVars
<1>3. ASSUME NEW len \in 0 .. MaxLen, RecvCall(len) PROVE first'[b] < last'[b]
  BY <1>1, <1>3 DEF RecvCall, Awaited, Drained, bankVars
<1>4. CASE RecvCopy
  BY <1>1, <1>4 DEF RecvCopy, Awaited, Drained, TypeOK
<1>5. CASE RecvLoopEnd
  <2>1. CASE b = bank
    <3>1. first[bank] # last[bank] /\ first' = first /\ last' = last
      BY <1>1, <1>5, <2>1 DEF RecvLoopEnd, Drained
    <3>2. first[bank] <= last[bank]
      BY <1>1, <2>1 DEF CountInv
    <3> QED
      BY <1>1, <2>1, <3>1, <3>2
  <2>2. CASE b # bank
    BY <1>1, <1>5, <2>2 DEF RecvLoopEnd, Awaited, Drained, TypeOK
  <2> QED
    BY <2>1, <2>2
<1>6. CASE RecvClear
  BY <1>1, <1>6 DEF RecvClear, Awaited, Drained, TypeOK
<1>7. CASE AvailableCall \/ AvailableReturn
  BY <1>1, <1>7 DEF AvailableCall, AvailableReturn, Awaited, Drained, RoleInv, bankVars
<1>8. CASE HandleEndpoint
  <2>1. CASE b = incoming
    <3>1. first[b] = 0 /\ first' = first /\ last'[b] = byteCount
      BY <1>1, <1>8, <2>1, TransferDone DEF TypeOK
    <3>2. KeepBank => ready' = ready /\ ~ready[b]
      BY <1>8, <2>1, TransferDone DEF KeepBank
    <3>3. SwapBanks
      BY <1>8, <3>2 DEF HandleEndpoint
    <3>4. byteCount # 0 /\ byteCount \in Nat
      BY <1>1, <3>3, SizeIsNat DEF SwapBanks, TypeOK
    <3> QED
      BY <3>1, <3>4
  <2>2. CASE b # incoming
    BY <1>1, <1>8, <2>2
    DEF HandleEndpoint, KeepBank, SwapBanks, Awaited, Drained, TypeOK, mainVars
  <2> QED
    BY <2>1, <2>2
<1>9. ASSUME NEW n \in 0 .. PacketSize, HwPacket(n) PROVE first'[b] < last'[b]
  BY <1>1, <1>9 DEF HwPacket, Awaited, Drained, mainVars
<1> QED
  BY <1>2, <1>3, <1>4, <1>5, <1>6, <1>7, <1>8, <1>9 DEF Next, Main

\* The invariant holds in every reachable state.
THEOREM Invariance == Safety => []IInv
BY InitInv, NextInv, PTL DEF Safety

\* Every variable stays in its range: no counter leaves its bank.
THEOREM TypeCorrect == Safety => []TypeOK
<1>1. IInv => TypeOK
  BY DEF IInv
<1> QED
  BY Invariance, <1>1, PTL

LEMMA InvDmaSafe == IInv => DmaSafe
<1> SUFFICES ASSUME IInv, ~bk0rdy PROVE
      /\ address = incoming /\ ~ready[address]
      /\ ~(pc \in {"copy", "avail"} /\ bank = address)
      /\ byteCount + PacketSize <= Size
  BY DEF DmaSafe
<1>1. address = incoming /\ ~ready[address] /\ ~(pc \in {"copy", "avail"} /\ bank = address)
  BY DEF IInv, RoleInv, TypeOK, Other, Bank
<1>2. PICK k \in 0 .. Packets - 1 : byteCount = k * PacketSize
  BY DEF IInv, CountInv
<1> QED
  BY <1>1, <1>2, PacketFits

LEMMA InvNoLostWakeup == IInv /\ Awake => NoLostWakeup
BY DEF IInv, RoleInv, Awake, NoLostWakeup

LEMMA InvPromiseKept == IInv => PromiseKept
BY DEF IInv, CountInv, PromiseKept, Remaining

\* The peripheral writes only into a bank that no recv() or available() is
\* using, and only inside it.
THEOREM DmaIsSafe == Safety => []DmaSafe
BY Invariance, InvDmaSafe, PTL

\* The endpoint refuses the host only while somebody is going to release it.
THEOREM NoWakeupIsLost == Safety => []NoLostWakeup
BY Invariance, InitInv, NextAwake, InvNoLostWakeup, PTL DEF Safety

\* What available() returned can be read.
THEOREM PromisesAreKept == Safety => []PromiseKept
BY Invariance, InvPromiseKept, PTL

Constant ==
    \A b \in Bank : ready[b] /\ ready'[b] => last'[b] = last[b] /\ data'[b] = data[b]

LEMMA NextConstant == ASSUME IInv, Next PROVE Constant
<1>1. TypeOK /\ RoleInv
  BY DEF IInv
<1>2. CASE Main
  BY <1>2 DEF Main, RecvCall, RecvCopy, RecvLoopEnd, RecvClear, AvailableCall,
              AvailableReturn, bankVars, Constant
<1>3. CASE HandleEndpoint
  BY <1>3, TransferDone DEF TypeOK, Bank, Constant
<1>4. ASSUME NEW n \in 0 .. PacketSize, HwPacket(n) PROVE Constant
  <2>1. address = incoming /\ ~ready[incoming] /\ last' = last
    BY <1>1, <1>4 DEF HwPacket, RoleInv, TypeOK, Other, Bank
  <2>2. \A b \in Bank : b # address => data'[b] = data[b]
    BY <1>1, <1>4 DEF HwPacket, TypeOK
  <2> QED
    BY <2>1, <2>2 DEF Constant
<1> QED
  BY <1>2, <1>3, <1>4 DEF Next

\* The comments at lines 82 and 105 of the handler: while the flag of a bank
\* stays set, its counter and its contents do not change.
THEOREM ReadyBanksAreConstant == Safety => ReadyBankConstant
<1>1. IInv /\ [Next]_vars => [Constant]_vars
  BY NextConstant
<1> QED
  BY Invariance, <1>1, PTL DEF Safety, ReadyBankConstant, Constant

Honours == pc = "copy" /\ pc' # "copy" => want = 0 \/ promise = 0

LEMMA NextHonours == ASSUME IInv, Next PROVE Honours
<1> SUFFICES ASSUME pc = "copy", pc' # "copy" PROVE want = 0 \/ promise = 0
  BY DEF Honours
<1>1. RecvLoopEnd
  BY DEF Next, Main, RecvCall, RecvCopy, RecvClear, AvailableCall, AvailableReturn,
         HandleEndpoint, HwPacket, mainVars
<1>2. TypeOK /\ bank = current /\ (want = 0 \/ first[current] >= last[current])
  BY <1>1 DEF IInv, RoleInv, RecvLoopEnd
<1>3. promise > 0 => promise <= last[current] - first[current]
  BY DEF IInv, CountInv
<1> QED
  BY <1>2, <1>3, SizeIsNat DEF TypeOK, Bank

\* recv() returns less than it was asked for only when it has handed over all
\* that available() reported.
THEOREM AvailableIsHonoured == Safety => RecvHonoursAvailable
<1>1. IInv /\ [Next]_vars => [Honours]_vars
  BY NextHonours
<1> QED
  BY Invariance, <1>1, PTL DEF Safety, RecvHonoursAvailable, Honours

-----------------------------------------------------------------------------
(* The two banks implement the byte stream.                                *)

\* The bytes of complete transfers are those the reader can get.
LEMMA CompleteIs ==
    ASSUME IInv
    PROVE  /\ Complete \in Nat /\ got <= Complete /\ Complete <= sent
           /\ ~notify => sent - got <= Size + byteCount
           /\ ready[current] /\ pc # "clear" /\ first[current] < last[current]
                => got < Complete
<1> USE DEF Bank
<1>1. TypeOK /\ RoleInv /\ CountInv /\ StreamInv
  BY DEF IInv
<1>2. PICK uc \in 0 .. Size : uc = Unread(current)
  BY <1>1, SizeIsNat DEF TypeOK, CountInv, Unread
<1>3. PICK uo \in 0 .. Size : uo = Unread(Other(current))
  BY <1>1, SizeIsNat DEF TypeOK, CountInv, Unread, Other
<1>4. /\ sent \in Nat /\ got \in Nat /\ byteCount \in 0 .. Size
      /\ sent = got + uc + uo + InTransfer
      /\ InTransfer = IF notify THEN 0 ELSE byteCount
  BY <1>1, <1>2, <1>3, ParamAssumption DEF StreamInv, TypeOK, InTransfer
<1>5. /\ notify => bk0rdy
      /\ ~bk0rdy => Complete = sent - byteCount
      /\ bk0rdy => Complete = sent
  BY <1>1 DEF RoleInv, Complete
<1>6. Complete \in {got + uc + uo, got + uc + uo + InTransfer} /\ InTransfer \in 0 .. Size
  <2>1. CASE bk0rdy
    BY <1>4, <1>5, <2>1, SizeIsNat
  <2>2. CASE ~bk0rdy
    BY <1>4, <1>5, <2>2, SizeIsNat
  <2> QED
    BY <2>1, <2>2
<1>7. ~notify => sent - got <= Size + byteCount
  <2> SUFFICES ASSUME ~notify PROVE sent - got <= Size + byteCount
    OBVIOUS
  <2>1. uc = 0 \/ uo = 0
    BY <1>1, <1>2, <1>3 DEF RoleInv, Unread, Drained, TypeOK, Other
  <2> QED
    BY <1>4, <1>6, <2>1, SizeIsNat
<1>8. ready[current] /\ pc # "clear" /\ first[current] < last[current] => uc > 0
  BY <1>1, <1>2, SizeIsNat DEF Unread, Drained, TypeOK
<1> QED
  BY <1>4, <1>6, <1>7, <1>8, SizeIsNat

LEMMA StreamInit == Init => Stream!Init
BY DEF Init, Stream!Init, Complete

LEMMA StreamAccept ==
    ASSUME IInv, IInv', NEW n \in 0 .. PacketSize, HwPacket(n)
    PROVE  Stream!Next
<1>1. /\ TypeOK /\ ~bk0rdy /\ Complete = sent - byteCount
      /\ sent' = sent + n /\ got' = got /\ lastByte' = lastByte
      /\ byteCount' = byteCount + n
  BY DEF IInv, HwPacket, mainVars, Complete
<1>2. Complete' = IF bk0rdy' THEN sent' ELSE sent' - byteCount'
  BY DEF Complete
<1>3. sent' - byteCount' = Complete
  BY <1>1, SizeIsNat, ParamAssumption DEF TypeOK
<1>4. Complete' \in {Complete, sent'}
  BY <1>2, <1>3
<1>5. sent + n - got <= 2 * Size
  <2>1. sent - got <= Size + byteCount
    BY <1>1, CompleteIs DEF IInv, RoleInv
  <2>2. byteCount + n <= Size
    BY <1>1, PacketRoom, SizeIsNat
  <2> QED
    BY <1>1, <2>1, <2>2, SizeIsNat, ParamAssumption DEF TypeOK
<1>6. n \in 0 .. 2 * Size
  <2>1. 0 \in 0 .. Packets - 1 /\ 0 * PacketSize = 0
    BY ParamAssumption
  <2>2. PacketSize <= Size
    BY <2>1, PacketFits, SizeIsNat, ParamAssumption
  <2> QED
    BY <2>2, SizeIsNat, ParamAssumption
<1> QED
  BY <1>1, <1>4, <1>5, <1>6 DEF Stream!Next, Stream!Accept

LEMMA StreamDeliver ==
    ASSUME IInv, IInv', RecvCopy
    PROVE  Stream!Next
<1>1. got < Complete
  BY CompleteIs DEF IInv, RoleInv, RecvCopy
<1>2. got' = got + 1 /\ sent' = sent /\ Complete' = Complete
  BY DEF RecvCopy, hwVars, Complete
<1>3. lastByte' = got'
  BY DEF IInv, StreamInv
<1> QED
  BY <1>1, <1>2, <1>3 DEF Stream!Next, Stream!Deliver

LEMMA StreamStutter ==
    ASSUME IInv, HandleEndpoint \/ RecvClear
    PROVE  UNCHANGED Stream!vars
<1>1. sent' = sent /\ got' = got /\ lastByte' = lastByte
  BY DEF HandleEndpoint, RecvClear, mainVars
<1>2. TypeOK /\ RoleInv
  BY DEF IInv
<1>3. CASE (bk0rdy /\ bk0rdy') \/ (bk0rdy /\ ~bk0rdy' /\ byteCount' = 0)
  <2>1. Complete = sent /\ (Complete' = sent' \/ Complete' = sent' - 0)
    BY <1>3 DEF Complete
  <2> QED
    BY <1>1, <1>2, <2>1, ParamAssumption DEF Stream!vars, TypeOK
<1>4. CASE UNCHANGED <<bk0rdy, byteCount>>
  BY <1>1, <1>4 DEF Stream!vars, Complete
<1>5. CASE HandleEndpoint
  <2>1. bk0rdy
    BY <1>5, TransferDone
  <2>2. (bk0rdy' = FALSE /\ byteCount' = 0) \/ UNCHANGED <<bk0rdy, byteCount>>
    BY <1>5, Zenon DEF HandleEndpoint, KeepBank, SwapBanks, Release
  <2> QED
    BY <1>3, <1>4, <2>1, <2>2
<1>6. CASE RecvClear
  <2>1. notify => bk0rdy
    BY <1>2 DEF RoleInv
  <2>2. (notify /\ bk0rdy' = FALSE /\ byteCount' = 0) \/ UNCHANGED <<bk0rdy, byteCount>>
    BY <1>6, Zenon DEF RecvClear, Release
  <2> QED
    BY <1>3, <1>4, <2>1, <2>2
<1> QED
  BY <1>5, <1>6

LEMMA NextStream ==
    ASSUME IInv, IInv', [Next]_vars
    PROVE  Stream!Next \/ UNCHANGED Stream!vars
<1>1. ASSUME NEW n \in 0 .. PacketSize, HwPacket(n) PROVE Stream!Next
  BY <1>1, StreamAccept
<1>2. CASE RecvCopy
  BY <1>2, StreamDeliver
<1>3. CASE HandleEndpoint \/ RecvClear
  BY <1>3, StreamStutter
<1>4. CASE UNCHANGED <<sent, got, lastByte, bk0rdy, byteCount>>
  BY <1>4 DEF Stream!vars, Complete
<1>5. \/ \E n \in 0 .. PacketSize : HwPacket(n)
      \/ RecvCopy \/ HandleEndpoint \/ RecvClear
      \/ UNCHANGED <<sent, got, lastByte, bk0rdy, byteCount>>
  BY DEF Next, Main, RecvCall, RecvLoopEnd, AvailableCall, AvailableReturn,
         vars, hwVars, mainVars
<1> QED
  BY <1>1, <1>2, <1>3, <1>4, <1>5

\* The receiver implements the byte stream: every byte the endpoint accepts is
\* handed over once and in order, at most two banks are unread, and no byte is
\* handed over before its transfer is complete.
THEOREM StreamRefinement == Safety => Stream!Safety
<1>1. IInv /\ IInv' /\ [Next]_vars => [Stream!Next]_(Stream!vars)
  BY NextStream
<1> QED
  BY Invariance, StreamInit, <1>1, PTL DEF Safety, Stream!Safety

-----------------------------------------------------------------------------
(* The sessions.  As long as no configuration comes inside a call          *)
(* (MidCall = FALSE), the invariant of the receiver survives, and it is a  *)
(* sequence of byte streams.                                               *)

\* A step of the session is one of the receiver, or leaves it alone, or makes
\* a new one.
LEMMA SessionStep ==
    ASSUME MidCall = FALSE, TypeOK, [SessionNext]_<<vars, sessionVars>>
    PROVE  \/ [Next]_vars /\ UNCHANGED sessionVars
           \/ BusReset
           \/ UNCHANGED <<vars, enabled>> /\ configured' = FALSE
           \/ pc = "idle" /\ Fresh' /\ configured' \in BOOLEAN
<1>1. CASE SessionMain /\ UNCHANGED sessionVars
  BY <1>1 DEF SessionMain, DeviceRecv, Next, Main
<1>2. CASE HandleEndpoint /\ UNCHANGED sessionVars
  BY <1>2 DEF Next
<1>3. CASE enabled /\ UNCHANGED sessionVars /\ \E n \in 0 .. PacketSize : HwPacket(n)
  BY <1>3 DEF Next
<1>4. CASE EndOfReset
  BY <1>4 DEF EndOfReset
<1>5. ASSUME NEW value \in BOOLEAN, SetConfiguration(value)
      PROVE  pc = "idle" /\ Fresh' /\ configured' \in BOOLEAN
  <2>1. pc = "idle" /\ pc' = "idle" /\ bank' \in Bank /\ want' \in 0 .. MaxLen
    BY <1>5 DEF SetConfiguration, TypeOK
  <2> QED
    BY <1>5, <2>1 DEF SetConfiguration, NewHandler, Release, Fresh
<1>6. CASE UNCHANGED <<vars, sessionVars>>
  BY <1>6
<1> QED
  BY <1>1, <1>2, <1>3, <1>4, <1>5, <1>6 DEF SessionNext

\* A bus reset takes nothing but the interrupt flag from the receiver.
LEMMA BusResetInv == IInv /\ BusReset => IInv'
<1> SUFFICES ASSUME IInv, BusReset PROVE IInv'
  OBVIOUS
<1>1. /\ trcpt0' = FALSE
      /\ UNCHANGED <<bk0rdy, byteCount, address, sent, bankVars, mainVars>>
  BY DEF BusReset
<1>2. TypeOK'
  BY <1>1 DEF IInv, TypeOK, bankVars, mainVars
<1>3. RoleInv'
  BY <1>1 DEF IInv, RoleInv, bankVars, mainVars
<1>4. CountInv' /\ StreamInv'
  BY <1>1 DEF IInv, CountInv, StreamInv, Unread, InTransfer, Drained,
              bankVars, mainVars
<1> QED
  BY <1>2, <1>3, <1>4 DEF IInv

LEMMA FreshAgain == Fresh' => IInv'
BY FreshInv, PTL

\* Nothing of an old configuration survives in the banks of the new one.
THEOREM SessionInvariance ==
    ASSUME MidCall = FALSE
    PROVE  SessionSafety => []IInv
<1>1. SessionInit => IInv
  BY InitInv DEF SessionInit
<1>2. IInv /\ [SessionNext]_<<vars, sessionVars>> => IInv'
  <2> SUFFICES ASSUME IInv, [SessionNext]_<<vars, sessionVars>> PROVE IInv'
    OBVIOUS
  <2>1. \/ [Next]_vars
        \/ BusReset
        \/ Fresh'
    BY SessionStep DEF IInv
  <2> QED
    BY <2>1, NextInv, BusResetInv, FreshAgain
<1> QED
  BY <1>1, <1>2, PTL DEF SessionSafety

\* Bus resets and new configurations between calls do not lead the peripheral
\* into a bank the application reads.
THEOREM SessionDmaIsSafe ==
    ASSUME MidCall = FALSE
    PROVE  SessionSafety => []DmaSafe
BY SessionInvariance, InvDmaSafe, PTL

\* An enabled endpoint refuses the host only while somebody is going to release
\* it, although a bus reset may take a pending interrupt away: the endpoint is
\* enabled again only together with a new handler, which releases it.
THEOREM SessionLosesNoWakeup ==
    ASSUME MidCall = FALSE
    PROVE  SessionSafety => []SessionNoLostWakeup
<1> DEFINE Inv == enabled => Awake
<1>1. SessionInit => Inv
  BY DEF SessionInit
<1>2. IInv /\ Inv /\ [SessionNext]_<<vars, sessionVars>> => Inv'
  <2> SUFFICES ASSUME IInv, Inv, [SessionNext]_<<vars, sessionVars>>, enabled'
               PROVE  Awake'
    OBVIOUS
  <2>1. CASE [Next]_vars /\ UNCHANGED sessionVars
    BY <2>1, NextAwake DEF sessionVars
  <2>2. CASE BusReset
    BY <2>2 DEF BusReset
  <2>3. CASE UNCHANGED <<vars, enabled>>
    BY <2>3 DEF Awake, vars, hwVars, bankVars
  <2>4. CASE Fresh'
    BY <2>4 DEF Fresh, Awake
  <2> QED
    BY <2>1, <2>2, <2>3, <2>4, SessionStep DEF IInv
<1>3. IInv /\ Inv => SessionNoLostWakeup
  BY InvNoLostWakeup DEF SessionNoLostWakeup
<1> HIDE DEF Inv
<1> QED
  BY SessionInvariance, <1>1, <1>2, <1>3, PTL DEF SessionSafety

\* Every variable of the receiver keeps its type over its sessions.
THEOREM SessionTypeCorrect ==
    ASSUME MidCall = FALSE
    PROVE  SessionSafety => []TypeOK
<1>1. IInv => TypeOK
  BY DEF IInv
<1> QED
  BY SessionInvariance, <1>1, PTL

LEMMA SessionAwaits ==
    ASSUME MidCall = FALSE
    PROVE  SessionSafety => []Awaited
<1>1. SessionInit => Awaited
  BY DEF SessionInit, Init, Awaited
<1>2. IInv /\ Awaited /\ [SessionNext]_<<vars, sessionVars>> => Awaited'
  <2> SUFFICES ASSUME IInv, Awaited, [SessionNext]_<<vars, sessionVars>> PROVE Awaited'
    OBVIOUS
  <2>1. CASE [Next]_vars
    BY <2>1, NextAwaited
  <2>2. CASE BusReset
    BY <2>2 DEF BusReset, Awaited, Drained, bankVars, mainVars
  <2>3. CASE Fresh'
    BY <2>3 DEF Fresh, Awaited
  <2> QED
    BY <2>1, <2>2, <2>3, SessionStep DEF IInv
<1> QED
  BY SessionInvariance, <1>1, <1>2, PTL DEF SessionSafety

\* What available() reported stays readable as long as the device keeps its
\* configuration; without one recv() answers -1 (DeviceClass.cpp:462), and a
\* new configuration makes a new stream, which takes the report back.  Between
\* two calls it reports something whenever a bank is ready, since a
\* zero-length packet hands over no bank.
THEOREM SessionAvailableIsTrue ==
    ASSUME MidCall = FALSE
    PROVE  SessionSafety => []AvailableTrue
<1>1. IInv /\ Awaited => AvailableTrue
  <2> SUFFICES ASSUME IInv, Awaited, pc = "idle", NEW b \in Bank, ready[b]
               PROVE  ready[current] /\ Remaining(current) > 0
    BY InvPromiseKept DEF AvailableTrue
  <2>1. ready[current] /\ current \in Bank
    BY DEF IInv, RoleInv, TypeOK, Other, Bank
  <2> QED
    BY <2>1, SizeIsNat DEF Awaited, Drained, Remaining, IInv, TypeOK
<1> QED
  BY SessionInvariance, SessionAwaits, <1>1, PTL

\* The bytes and the length of a bank stay as they are while it is ready, also
\* in a bus reset; a new configuration leaves no bank ready.
THEOREM SessionReadyBanksAreConstant ==
    ASSUME MidCall = FALSE
    PROVE  SessionSafety => ReadyBankConstant
<1>1. IInv /\ [SessionNext]_<<vars, sessionVars>> => [Constant]_vars
  <2> SUFFICES ASSUME IInv, [SessionNext]_<<vars, sessionVars>>, ~ UNCHANGED vars
               PROVE  Constant
    OBVIOUS
  <2>1. CASE Next
    BY <2>1, NextConstant
  <2>2. CASE Fresh'
    BY <2>2 DEF Fresh, Constant
  <2>3. CASE BusReset
    BY <2>3 DEF BusReset, bankVars, Constant
  <2> QED
    BY <2>1, <2>2, <2>3, SessionStep DEF IInv
<1> QED
  BY SessionInvariance, <1>1, PTL DEF SessionSafety, ReadyBankConstant, Constant

\* Over its sessions, too, recv() stops short only when everything that was
\* reported has been read.
THEOREM SessionAvailableIsHonoured ==
    ASSUME MidCall = FALSE
    PROVE  SessionSafety => RecvHonoursAvailable
<1>1. IInv /\ [SessionNext]_<<vars, sessionVars>> => [Honours]_vars
  <2> SUFFICES ASSUME IInv, [SessionNext]_<<vars, sessionVars>>, ~ UNCHANGED vars
               PROVE  Honours
    OBVIOUS
  <2>1. CASE Next
    BY <2>1, NextHonours
  <2>2. CASE pc = "idle" \/ BusReset
    BY <2>2 DEF BusReset, mainVars, Honours
  <2> QED
    BY <2>1, <2>2, SessionStep DEF IInv
<1> QED
  BY SessionInvariance, <1>1, PTL DEF SessionSafety, RecvHonoursAvailable, Honours

-----------------------------------------------------------------------------
(* The refinement.                                                         *)

LEMMA FreshBegins ==
    ASSUME Fresh', configured' \in BOOLEAN
    PROVE  Sessions!Begin
<1>1. Complete' = 0
  BY DEF Fresh, Complete
<1> QED
  BY <1>1 DEF Fresh, Sessions!Begin

LEMMA StreamIsStream ==
    /\ Stream!Next => Sessions!Next
    /\ UNCHANGED Stream!vars => UNCHANGED Sessions!vars
    /\ Stream!Init = Sessions!Init
BY DEF Stream!Next, Stream!Accept, Stream!Deliver, Stream!vars, Stream!Init,
       Sessions!Next, Sessions!Accept, Sessions!Deliver, Sessions!vars, Sessions!Init

\* The receiver implements a sequence of byte streams: one for every
\* configuration, each read from its first byte on, in order and without a gap.
THEOREM SessionRefinement ==
    ASSUME MidCall = FALSE
    PROVE  SessionSafety => Sessions!SessionsSafety
<1>1. SessionInit => Sessions!SessionsInit
  BY StreamInit, StreamIsStream DEF SessionInit, Sessions!SessionsInit
<1>2. IInv /\ IInv' /\ [SessionNext]_<<vars, sessionVars>>
        => [Sessions!SessionsNext]_<<Sessions!vars, configured>>
  <2> SUFFICES ASSUME IInv, IInv', [SessionNext]_<<vars, sessionVars>>
               PROVE  \/ Sessions!SessionsNext
                      \/ UNCHANGED <<Sessions!vars, configured>>
    OBVIOUS
  <2>1. CASE [Next]_vars /\ UNCHANGED sessionVars
    <3>1. Stream!Next \/ UNCHANGED Stream!vars
      BY <2>1, NextStream
    <3>2. Sessions!Next \/ UNCHANGED Sessions!vars
      BY <3>1, StreamIsStream
    <3>3. UNCHANGED configured
      BY <2>1 DEF sessionVars
    <3> QED
      BY <3>2, <3>3 DEF Sessions!SessionsNext, Sessions!Stream
  <2>2. CASE UNCHANGED vars /\ configured' = FALSE
    <3>1. UNCHANGED Sessions!vars
      BY <2>2 DEF vars, hwVars, mainVars, Sessions!vars, Complete
    <3> QED
      BY <2>2, <3>1 DEF Sessions!SessionsNext, Sessions!Close
  <2>3. CASE Fresh' /\ configured' \in BOOLEAN
    BY <2>3, FreshBegins DEF Sessions!SessionsNext
  <2>4. CASE BusReset
    BY <2>4 DEF BusReset, mainVars, Sessions!vars, Complete
  <2> QED
    BY <2>1, <2>2, <2>3, <2>4, SessionStep DEF IInv
<1> QED
  BY SessionInvariance, <1>1, <1>2, PTL DEF SessionSafety, Sessions!SessionsSafety
=============================================================================
