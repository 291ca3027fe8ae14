--------------------------- MODULE UsbSendProofs ---------------------------
(***************************************************************************)
(* The sender, for every number of chunks, every length of a call and      *)
(* every timeout, with any host and with bus resets and new configurations *)
(* between any two steps of send().                                        *)
(***************************************************************************)
EXTENDS UsbSend, FiniteSetTheorems, TLAPS

Flags ==
    /\ bk1rdy \in BOOLEAN /\ trcpt1 \in BOOLEAN /\ hasBytes \in BOOLEAN
    /\ enabled \in BOOLEAN /\ configured \in BOOLEAN /\ timedOut \in BOOLEAN

Numbers ==
    /\ buffer \in 0 .. MaxChunks /\ queued \in 0 .. MaxChunks
    /\ received \subseteq 1 .. MaxChunks
    /\ pc \in {"idle", "check", "wait", "giveUp", "fill", "arm"}
    /\ left \in 0 .. MaxCall /\ timeout \in 0 .. Timeout
    /\ reports \in 0 .. MaxChunks /\ spins \in 0 .. Timeout + 1
    /\ hasBytes => buffer # 0

\* While send() fills the buffer, the host cannot fetch from it: a bank that is
\* ready has no flag of an earlier packet.
BankInv ==
    /\ bk1rdy => ~trcpt1
    /\ pc \in {"fill", "arm"} => ~bk1rdy
    /\ pc = "arm" => ~trcpt1

\* From a timeout to the next packet the buffer counts as empty.
TimedOutInv ==
    /\ timedOut /\ pc # "giveUp" => ~hasBytes
    /\ pc = "giveUp" => timedOut
    /\ pc = "arm" => ~timedOut

\* What the rounds are counted from: a call begins to wait at zero, or it
\* does not wait, because the last one did.
RoundsInv ==
    /\ spins <= Timeout
    /\ pc \in {"idle", "check"} /\ ~timedOut => spins = 0
    /\ pc = "wait" /\ ~timedOut => spins + timeout <= Timeout

\* The chunks still to come.
ChunksInv ==
    /\ pc # "idle" => left > 0
    /\ pc \in {"check", "wait", "fill"} => queued + left <= MaxChunks
    /\ pc = "arm" => queued + left <= MaxChunks + 1

IInv == Numbers /\ BankInv /\ TimedOutInv /\ RoundsInv /\ ChunksInv /\ LossReported

-----------------------------------------------------------------------------
(* Counting what is missing.                                               *)

LEMMA SomeChunks ==
    ASSUME NEW n \in 0 .. MaxChunks, NEW S \in SUBSET (1 .. n)
    PROVE  IsFiniteSet(S) /\ Cardinality(S) \in 0 .. MaxChunks
<1>1. n \in Nat /\ n <= MaxChunks /\ MaxChunks \in Nat
  BY UsbSendAssumption
<1>2. IsFiniteSet(1 .. n) /\ Cardinality(1 .. n) = n
  BY <1>1, FS_Interval
<1>3. IsFiniteSet(S) /\ Cardinality(S) <= n
  BY <1>2, FS_Subset
<1> QED
  BY <1>1, <1>3, FS_CardinalityType

\* A step after which nothing more is missing needs no report.
LEMMA NothingMore ==
    ASSUME IInv, queued \in 0 .. MaxChunks, Missing' \subseteq Missing,
           reports' \in 0 .. MaxChunks, reports <= reports'
    PROVE  LossReported'
<1>1. IsFiniteSet(Missing) /\ Cardinality(Missing) \in Nat
  <2>1. Missing \in SUBSET (1 .. queued)
    BY DEF Missing
  <2> QED
    BY <2>1, SomeChunks, UsbSendAssumption
<1>2. IsFiniteSet(Missing') /\ Cardinality(Missing') <= Cardinality(Missing)
  BY <1>1, FS_Subset
<1>3. Cardinality(Missing') \in Nat
  BY <1>2, FS_CardinalityType
<1> QED
  BY <1>1, <1>2, <1>3, UsbSendAssumption DEF IInv, LossReported, Numbers

\* A step that reports may leave one chunk more missing.
LEMMA OneMore ==
    ASSUME IInv, queued' = queued, NEW c, Missing' \subseteq Missing \cup {c}, Report
    PROVE  LossReported' /\ reports' \in 0 .. MaxChunks
<1>1. MaxChunks \in Nat /\ reports \in 0 .. MaxChunks /\ queued \in 0 .. MaxChunks
  BY UsbSendAssumption DEF IInv, Numbers
<1>2. IsFiniteSet(Missing) /\ Cardinality(Missing) \in Nat
  <2>1. Missing \in SUBSET (1 .. queued)
    BY DEF Missing
  <2> QED
    BY <1>1, <2>1, SomeChunks
<1>3. /\ IsFiniteSet(Missing \cup {c})
      /\ Cardinality(Missing \cup {c}) <= Cardinality(Missing) + 1
      /\ Cardinality(Missing \cup {c}) \in Nat
  BY <1>2, FS_AddElement
<1>4. Cardinality(Missing') <= Cardinality(Missing) + 1
  BY <1>2, <1>3, FS_Subset, FS_CardinalityType
<1>5. Cardinality(Missing') \in 0 .. MaxChunks
  <2>1. queued' \in 0 .. MaxChunks /\ Missing' \in SUBSET (1 .. queued')
    BY <1>1 DEF Missing
  <2> QED
    BY <2>1, SomeChunks
<1> QED
  BY <1>1, <1>2, <1>4, <1>5 DEF IInv, LossReported, Report

-----------------------------------------------------------------------------
(* The invariant.                                                          *)

LEMMA InitInv == Init => IInv
<1> SUFFICES ASSUME Init PROVE IInv
  OBVIOUS
<1>1. Numbers
  BY UsbSendAssumption DEF Init, Numbers
<1>2. BankInv /\ TimedOutInv /\ RoundsInv /\ ChunksInv
  BY UsbSendAssumption DEF Init, BankInv, TimedOutInv, RoundsInv, ChunksInv
<1>3. LossReported
  <2>1. Missing = {}
    BY DEF Init, Missing
  <2> QED
    BY <2>1, FS_EmptySet DEF Init, LossReported
<1> QED
  BY <1>1, <1>2, <1>3 DEF IInv

\* What is left of the invariant when the chunks are accounted for.
Rest == Numbers /\ BankInv /\ TimedOutInv /\ RoundsInv /\ ChunksInv

\* The host takes what is pending.
LEMMA HostInInv == ASSUME IInv, HostIn PROVE IInv'
<1>1. Missing' \subseteq Missing
  BY DEF HostIn, mainVars, ctrlVars, Missing, Pending, IInv, BankInv
<1>2. Rest'
  BY UsbSendAssumption
     DEF IInv, Rest, Numbers, HostIn, mainVars, ctrlVars, BankInv, TimedOutInv, RoundsInv,
         ChunksInv
<1> QED
  BY <1>1, <1>2, NothingMore, UsbSendAssumption DEF IInv, Rest, Numbers, HostIn

\* The other resets leave the bank as it is.
LEMMA BusResetKeeps ==
    ASSUME BusReset, ~(bk1rdy /\ ~bk1rdy')
    PROVE  /\ bk1rdy' <=> bk1rdy
           /\ trcpt1' = FALSE
           /\ UNCHANGED <<hasBytes, buffer, mainVars, queued, received, reports, spins>>
<1>1. bk1rdy' = FALSE \/ bk1rdy' = bk1rdy
  BY Zenon DEF BusReset
<1>2. bk1rdy' => bk1rdy
  BY <1>1, Zenon
<1>3. bk1rdy => bk1rdy'
  BY Zenon
<1>4. UNCHANGED reports
  BY DEF BusReset
<1> QED
  BY <1>2, <1>3, <1>4 DEF BusReset

\* A packet the reset takes back is lost with a report.
LEMMA BusResetInv == ASSUME IInv, BusReset PROVE IInv'
<1>1. CASE bk1rdy /\ ~bk1rdy'
  <2>1. Missing' \subseteq Missing \cup {buffer} /\ queued' = queued /\ Report
    BY <1>1 DEF BusReset, mainVars, Missing, Pending
  <2>2. LossReported' /\ reports' \in 0 .. MaxChunks
    BY <2>1, OneMore
  <2>3. Rest'
    BY <1>1, <2>2 DEF IInv, Rest, Numbers, BusReset, mainVars, BankInv, TimedOutInv,
                 RoundsInv, ChunksInv
  <2> QED
    BY <2>2, <2>3 DEF IInv, Rest
<1>2. CASE ~(bk1rdy /\ ~bk1rdy')
  <2>1. Missing' \subseteq Missing
    BY <1>2, BusResetKeeps DEF mainVars, Missing, Pending
  <2>2. Numbers' /\ TimedOutInv' /\ RoundsInv' /\ ChunksInv'
    <3>1. UNCHANGED <<hasBytes, buffer, timedOut, pc, left, timeout, queued, received,
                      reports, spins>>
      BY <1>2, BusResetKeeps, Zenon DEF mainVars
    <3>2. Numbers'
      BY <3>1 DEF IInv, Numbers
    <3>3. TimedOutInv' /\ RoundsInv' /\ ChunksInv'
      BY <3>1 DEF IInv, TimedOutInv, RoundsInv, ChunksInv
    <3> QED
      BY <3>2, <3>3
  <2>3. BankInv'
    <3>1. bk1rdy' => bk1rdy
      BY <1>2, BusResetKeeps, Zenon
    <3>2. trcpt1' = FALSE /\ pc' = pc
      BY <1>2, BusResetKeeps DEF mainVars
    <3> QED
      BY <3>1, <3>2 DEF IInv, BankInv
  <2>4. Rest'
    BY <2>2, <2>3 DEF Rest
  <2> QED
    BY <1>2, <2>1, <2>4, BusResetKeeps, NothingMore, UsbSendAssumption
       DEF IInv, Rest, Numbers
<1> QED
  BY <1>1, <1>2

LEMMA SetConfigurationInv ==
    ASSUME IInv, NEW value \in BOOLEAN, SetConfiguration(value)
    PROVE  IInv'
<1>1. CASE bk1rdy
  <2>1. Missing' \subseteq Missing \cup {buffer} /\ queued' = queued /\ Report
    BY <1>1 DEF SetConfiguration, mainVars, Missing, Pending
  <2>2. LossReported' /\ reports' \in 0 .. MaxChunks
    BY <2>1, OneMore
  <2>3. Rest'
    BY <1>1, <2>2 DEF IInv, Rest, Numbers, SetConfiguration, mainVars, BankInv, TimedOutInv,
                 RoundsInv, ChunksInv
  <2> QED
    BY <2>2, <2>3 DEF IInv, Rest
<1>2. CASE ~bk1rdy
  <2>1. Missing' \subseteq Missing
    BY <1>2 DEF SetConfiguration, mainVars, Missing, Pending
  <2>2. Rest'
    BY <1>2 DEF IInv, Rest, Numbers, SetConfiguration, mainVars, BankInv, TimedOutInv, RoundsInv,
                ChunksInv
  <2> QED
    BY <1>2, <2>1, <2>2, NothingMore, UsbSendAssumption
       DEF IInv, Rest, Numbers, SetConfiguration
<1> QED
  BY <1>1, <1>2

LEMMA SendCallInv ==
    ASSUME IInv, NEW n \in 1 .. MaxCall, SendCall(n)
    PROVE  IInv'
<1>1. Missing' \subseteq Missing
  BY DEF SendCall, hwVars, ghosts, Missing, Pending
<1>2. Rest'
  BY UsbSendAssumption
     DEF IInv, Rest, Numbers, SendCall, hwVars, ghosts, BankInv, TimedOutInv, RoundsInv, ChunksInv
<1> QED
  BY <1>1, <1>2, NothingMore, UsbSendAssumption DEF IInv, Rest, Numbers, SendCall, ghosts

LEMMA CheckReadyInv == ASSUME IInv, CheckReady PROVE IInv'
<1>1. Missing' \subseteq Missing
  BY DEF CheckReady, hwVars, ghosts, Missing, Pending
<1>2. Rest'
  BY UsbSendAssumption
     DEF IInv, Rest, Numbers, CheckReady, hwVars, ghosts, BankInv, TimedOutInv, RoundsInv,
         ChunksInv
<1> QED
  BY <1>1, <1>2, NothingMore, UsbSendAssumption DEF IInv, Rest, Numbers, CheckReady, ghosts

\* A round is one of those the timeout has left.
LEMMA WaitRoundInv == ASSUME IInv, WaitRound PROVE IInv'
<1>1. Missing' \subseteq Missing
  BY DEF WaitRound, hwVars, Missing, Pending
<1>2. Rest'
  BY UsbSendAssumption
     DEF IInv, Rest, Numbers, WaitRound, MustGiveUp, CountDown, hwVars, BankInv, TimedOutInv,
         RoundsInv, ChunksInv
<1> QED
  BY <1>1, <1>2, NothingMore, UsbSendAssumption DEF IInv, Rest, Numbers, WaitRound

\* The packet that was not fetched is lost, if the host has not fetched it since.
LEMMA GiveUpInv == ASSUME IInv, GiveUp PROVE IInv'
<1>1. Missing' \subseteq Missing \cup {buffer} /\ queued' = queued /\ Report
  BY DEF GiveUp, Missing, Pending
<1>2. LossReported' /\ reports' \in 0 .. MaxChunks
  BY <1>1, OneMore
<1>3. Rest'
  BY <1>2, UsbSendAssumption
     DEF IInv, Rest, Numbers, GiveUp, MakeZlp, BankInv, TimedOutInv, RoundsInv, ChunksInv
<1> QED
  BY <1>2, <1>3 DEF IInv, Rest

\* The packet before cannot be fetched any more, so its buffer is free.
LEMMA FillInv == ASSUME IInv, Fill PROVE IInv'
<1>1. queued + 1 <= MaxChunks /\ queued \in Nat /\ ~bk1rdy
  BY UsbSendAssumption DEF IInv, Numbers, ChunksInv, BankInv, Fill
<1>2. Missing' \subseteq Missing
  BY <1>1 DEF Fill, Missing, Pending
<1>3. Rest'
  BY <1>1, UsbSendAssumption
     DEF IInv, Rest, Numbers, Fill, AckTransferComplete, BankInv, TimedOutInv, RoundsInv, ChunksInv
<1> QED
  BY <1>2, <1>3, NothingMore, UsbSendAssumption DEF IInv, Rest, Numbers, Fill

LEMMA ArmInv == ASSUME IInv, Arm PROVE IInv'
<1>1. Missing' \subseteq Missing
  BY DEF Arm, Missing, Pending
<1>2. Rest'
  BY UsbSendAssumption
     DEF IInv, Rest, Numbers, Arm, BankInv, TimedOutInv, RoundsInv, ChunksInv
<1> QED
  BY <1>1, <1>2, NothingMore, UsbSendAssumption DEF IInv, Rest, Numbers, Arm

LEMMA NextInv == IInv /\ [Next]_vars => IInv'
<1> SUFFICES ASSUME IInv, [Next]_vars PROVE IInv'
  OBVIOUS
<1>1. CASE EndOfReset \/ UNCHANGED vars
  <2>1. UNCHANGED <<hwVars, mainVars, ghosts>>
    BY <1>1 DEF EndOfReset, vars
  <2> QED
    BY <2>1 DEF IInv, Numbers, hwVars, mainVars, ghosts, BankInv, TimedOutInv, RoundsInv,
                ChunksInv, LossReported, Missing, Pending
<1> QED
  BY <1>1, HostInInv, BusResetInv, SetConfigurationInv, SendCallInv, CheckReadyInv, WaitRoundInv,
     GiveUpInv, FillInv, ArmInv DEF Next, Step

LEMMA Invariance == Spec => []IInv
BY InitInv, NextInv, PTL DEF Spec

-----------------------------------------------------------------------------
(* The theorems.                                                           *)

LEMMA FlagsKept == Flags /\ [Next]_vars => Flags'
<1> SUFFICES ASSUME Flags, [Next]_vars PROVE Flags'
  OBVIOUS
<1> USE DEF Flags, hwVars, ctrlVars, mainVars, ghosts
<1>1. ASSUME HostIn PROVE Flags'
  BY <1>1, Zenon DEF HostIn
<1>2. ASSUME EndOfReset PROVE Flags'
  BY <1>2, Zenon DEF EndOfReset
<1>3. ASSUME BusReset PROVE Flags'
  <2>1. bk1rdy' \in {FALSE, bk1rdy} /\ trcpt1' = FALSE /\ enabled' = FALSE
        /\ hasBytes' = hasBytes /\ configured' = configured /\ timedOut' = timedOut
    BY <1>3, Zenon DEF BusReset
  <2> QED
    BY <2>1, Zenon
<1>4. ASSUME NEW value \in BOOLEAN, SetConfiguration(value) PROVE Flags'
  BY <1>4, Zenon DEF SetConfiguration
<1>5. ASSUME NEW n \in 1 .. MaxCall, SendCall(n) PROVE Flags'
  BY <1>5, Zenon DEF SendCall
<1>6. ASSUME CheckReady PROVE Flags'
  BY <1>6, Zenon DEF CheckReady
<1>7. ASSUME WaitRound PROVE Flags'
  BY <1>7, Zenon DEF WaitRound
<1>8. ASSUME GiveUp \/ Fill \/ Arm PROVE Flags'
  BY <1>8, Zenon DEF GiveUp, Fill, Arm, MakeZlp, AckTransferComplete
<1>9. ASSUME UNCHANGED vars PROVE Flags'
  BY <1>9, Zenon DEF vars
<1> QED
  BY <1>1, <1>2, <1>3, <1>4, <1>5, <1>6, <1>7, <1>8, <1>9, Zenon DEF Next, Step

\* Each variable stays in its range: a call hands over no more chunks than it
\* was given, and the rounds left do not go below zero.
THEOREM TypeCorrect == Spec => []TypeOK
<1>1. Init => Flags
  BY Zenon DEF Init, Flags
<1>2. Spec => []Flags
  BY <1>1, FlagsKept, PTL DEF Spec
<1>3. IInv /\ Flags => TypeOK
  BY Zenon DEF IInv, Numbers, Flags, TypeOK
<1> QED
  BY <1>2, <1>3, Invariance, PTL

\* No chunk is lost without a report, over any sequence of calls: a chunk that
\* was handed over and can no longer arrive is matched by a send() of its own
\* that failed, or by a bus reset or a new set-up of the endpoint.
THEOREM LossIsReported == Spec => []LossReported
<1>1. IInv => LossReported
  BY DEF IInv
<1> QED
  BY <1>1, Invariance, PTL

\* From a timeout of send() to the next chunk it hands over, the host can fetch
\* nothing but an empty packet in place of the one it left waiting.
THEOREM NothingStale == Spec => []StaleNotSent
<1>1. IInv => StaleNotSent
  BY DEF IInv, TimedOutInv, StaleNotSent
<1> QED
  BY <1>1, Invariance, PTL

\* A packet that is not fetched costs one timeout, however many calls follow.
THEOREM TimeoutPaidOnce == Spec => []OneTimeout
<1>1. IInv => OneTimeout
  BY DEF IInv, RoundsInv, OneTimeout
<1> QED
  BY <1>1, Invariance, PTL

\* The buffer of a packet that may be fetched is not written.
THEOREM PacketsStayIntact == Spec => PacketIntact
<1>1. IInv /\ [Next]_vars => (bk1rdy /\ bk1rdy' => buffer' = buffer)
  <2> SUFFICES ASSUME IInv, [Next]_vars, bk1rdy PROVE buffer' = buffer
    OBVIOUS
  <2>1. ~Fill
    BY DEF IInv, BankInv, Fill
  <2> QED
    BY <2>1 DEF Next, Step, HostIn, BusReset, EndOfReset, SetConfiguration, SendCall,
                CheckReady, WaitRound, GiveUp, Arm, vars, hwVars
<1>2. Spec => [][bk1rdy /\ bk1rdy' => buffer' = buffer]_vars
  BY <1>1, Invariance, PTL DEF Spec
<1> QED
  BY <1>2 DEF PacketIntact

-----------------------------------------------------------------------------
(* The port.                                                               *)

\* The variables of the port, as send() keeps them.
portVars == <<Packet, queued, received, reports>>

LEMMA InitPort == Init => Port!Init
BY DEF Init, Packet, Port!Init

\* A step that touches neither the bank nor an account leaves the port alone.
LEMMA PortStays ==
    ASSUME UNCHANGED <<bk1rdy, hasBytes, buffer, queued, received, reports>>,
           pc' = "arm" <=> pc = "arm"
    PROVE  UNCHANGED portVars
BY DEF portVars, Packet

\* A chunk that is pending has a number; a packet of length zero adds nothing.
LEMMA HostInPort == ASSUME IInv, HostIn PROVE Port!Fetch
<1>1. Packet # {} /\ Packet = {IF hasBytes THEN buffer ELSE 0}
  BY DEF HostIn, Packet
<1>2. Packet' = {}
  <2>1. pc' # "arm" /\ ~bk1rdy'
    BY DEF IInv, BankInv, HostIn, mainVars
  <2> QED
    BY <2>1 DEF Packet
<1>3. received' = received \cup (Packet \ {0})
  BY <1>1 DEF IInv, Numbers, HostIn
<1> QED
  BY <1>1, <1>2, <1>3 DEF HostIn, Port!Fetch

LEMMA BusResetPort ==
    ASSUME IInv, BusReset
    PROVE  Port!TakeBack \/ UNCHANGED portVars
<1>1. CASE bk1rdy /\ ~bk1rdy'
  <2>1. Packet # {} /\ Packet' = {}
    BY <1>1 DEF IInv, BankInv, BusReset, mainVars, Packet
  <2> QED
    BY <1>1, <2>1 DEF BusReset, Report, Port!TakeBack, Port!Report
<1>2. CASE ~(bk1rdy /\ ~bk1rdy')
  <2>1. Packet' = Packet
    BY <1>2, BusResetKeeps DEF mainVars, Packet
  <2> QED
    BY <1>2, <2>1, BusResetKeeps DEF portVars
<1> QED
  BY <1>1, <1>2

LEMMA SetConfigurationPort ==
    ASSUME IInv, NEW value \in BOOLEAN, SetConfiguration(value)
    PROVE  Port!TakeBack \/ UNCHANGED portVars
<1>1. CASE bk1rdy
  <2>1. Packet # {} /\ Packet' = {}
    BY <1>1 DEF IInv, BankInv, SetConfiguration, mainVars, Packet
  <2> QED
    BY <1>1, <2>1 DEF SetConfiguration, Report, Port!TakeBack, Port!Report
<1>2. CASE ~bk1rdy
  BY <1>2 DEF SetConfiguration, mainVars, portVars, Packet
<1> QED
  BY <1>1, <1>2

\* The packet becomes empty; or it is gone already, and the call fails all the same.
LEMMA GiveUpPort == ASSUME IInv, GiveUp PROVE Port!TakeBack \/ Port!Fail
<1>1. CASE bk1rdy
  <2>1. Packet # {} /\ Packet' = {0}
    BY <1>1 DEF GiveUp, MakeZlp, Packet
  <2> QED
    BY <2>1 DEF GiveUp, Report, Port!TakeBack, Port!Report
<1>2. CASE ~bk1rdy
  <2>1. Packet = {} /\ Packet' = {}
    BY <1>2 DEF GiveUp, Packet
  <2> QED
    BY <2>1 DEF GiveUp, Report, Port!Fail, Port!Report
<1> QED
  BY <1>1, <1>2

\* The port is empty when the buffer is filled: the packet before was fetched or
\* taken back.
LEMMA FillPort == ASSUME IInv, Fill PROVE Port!Offer
<1>1. ~bk1rdy /\ pc = "fill" /\ pc' = "arm" /\ hasBytes' /\ buffer' = queued'
  BY DEF IInv, BankInv, Fill
<1>2. Packet = {} /\ Packet' = {queued'}
  BY <1>1 DEF Packet
<1>3. queued < MaxChunks
  BY UsbSendAssumption DEF IInv, Numbers, ChunksInv, Fill
<1> QED
  BY <1>2, <1>3 DEF Fill, Port!Offer

\* What send() was about to make ready is ready.
LEMMA ArmPort == ASSUME Arm PROVE UNCHANGED portVars
BY DEF Arm, portVars, Packet

LEMMA NextPort == IInv /\ [Next]_vars => [Port!Next]_portVars
<1> SUFFICES ASSUME IInv, [Next]_vars PROVE Port!Next \/ UNCHANGED portVars
  OBVIOUS
<1> USE DEF Port!Next
<1>1. CASE HostIn
  BY <1>1, HostInPort
<1>2. CASE EndOfReset
  BY <1>2, PortStays DEF EndOfReset, hwVars, mainVars, ghosts
<1>3. CASE BusReset
  BY <1>3, BusResetPort
<1>4. CASE \E value \in BOOLEAN : SetConfiguration(value)
  BY <1>4, SetConfigurationPort
<1>5. CASE \E n \in 1 .. MaxCall : SendCall(n)
  BY <1>5, PortStays DEF SendCall, hwVars, ghosts
<1>6. CASE CheckReady
  BY <1>6, PortStays DEF CheckReady, hwVars, ghosts
<1>7. CASE WaitRound
  BY <1>7, PortStays DEF WaitRound, hwVars
<1>8. CASE GiveUp
  BY <1>8, GiveUpPort
<1>9. CASE Fill
  BY <1>9, FillPort
<1>10. CASE Arm
  BY <1>10, ArmPort
<1>11. CASE UNCHANGED vars
  BY <1>11, PortStays DEF vars, hwVars, mainVars, ghosts
<1> QED
  BY <1>1, <1>2, <1>3, <1>4, <1>5, <1>6, <1>7, <1>8, <1>9, <1>10, <1>11 DEF Next, Step

\* send() implements the port, with any host, any timeout and any bus resets: a
\* chunk is offered when the one before was fetched or taken back with a report,
\* and never again.
THEOREM PortRefinement == Spec => PortSpec
<1>1. Spec => Port!Init /\ [][Port!Next]_portVars
  BY InitPort, NextPort, Invariance, PTL DEF Spec
<1> QED
  BY <1>1 DEF PortSpec, Port!Spec, Port!vars, portVars
=============================================================================
