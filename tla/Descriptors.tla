---------------------------- MODULE Descriptors ----------------------------
(***************************************************************************)
(* What the host learns about the device when it is plugged in: the answer *)
(* to GET_DESCRIPTOR (usb/DeviceClass.cpp), put together from the          *)
(* descriptor of the CDC class and those of the modules that have been     *)
(* plugged into PluggableUSB, and fetched in packets.                      *)
(*                                                                         *)
(* A descriptor is a sequence of pieces.  Of a piece the model has its     *)
(* length and the fields that other pieces, or the device, must agree      *)
(* with.  The host asks what hosts ask: the first bytes of a descriptor,   *)
(* as much as it is then told, or the largest length there is.             *)
(***************************************************************************)
EXTENDS Naturals, SequencesExt

CONSTANTS
    Module,        \* modules the program may plug in, see ModuleAssumption
    Chars,         \* characters of each string: [Strings -> Nat]
    MaxPacket      \* EPX_SIZE, the packets of endpoint 0

EndpointTypes == {"interruptIn", "bulkIn", "bulkOut"}
Strings == {"manufacturer", "product", "serial"}

\* A module says how many interfaces it has, which endpoints, and how long the
\* descriptors of its class are.
ModuleAssumption ==
    /\ \A m \in Module : /\ m.interfaces \in Nat \ {0} /\ m.extra \in Nat
                         /\ m.endpoints \in Seq(EndpointTypes)
    /\ MaxPacket \in Nat \ {0}
    /\ Chars \in [Strings -> 0 .. 126]

ASSUME ModuleAssumption

Endpoints == 7          \* USB_ENDPOINTS
MaxLength == 255        \* the largest length hosts ask for

VARIABLES
    plugged,         \* the list that begins at rootNode
    lastIf, lastEp,  \* the next numbers
    numbers,         \* pluggedInterface and pluggedEndpoint of each module
    refused,         \* modules plug() answered false for
    attached,        \* the device has been attached to the bus
    stage,           \* the host: "idle", "data", "done" or "stalled"
    request,         \* what it asked for
    known,           \* lengths it has been told: [what -> 0 or length]
    answer,          \* pieces that lie in the buffer of endpoint 0
    armed, ready,    \* BYTE_COUNT and BK1RDY of its IN bank
    multi,           \* MULTI_PACKET_SIZE: bytes sent
    received         \* bytes the host has got

plugVars == <<plugged, lastIf, lastEp, numbers, refused, attached>>
bankVars == <<answer, armed, ready, multi>>
hostVars == <<stage, request, known, received>>
vars == <<plugVars, bankVars, hostVars>>

-----------------------------------------------------------------------------
(* The pieces.                                                             *)

DeviceDescriptor == [what |-> "device", len |-> 18, total |-> 18]
Language == [what |-> "language", len |-> 4, total |-> 4]
Config(total, interfaces) ==
    [what |-> "config", len |-> 9, total |-> total, interfaces |-> interfaces]
Iad(first, interfaces) ==
    [what |-> "iad", len |-> 8, first |-> first, interfaces |-> interfaces]
Interface(number, endpoints) ==
    [what |-> "interface", len |-> 9, number |-> number, endpoints |-> endpoints]
CdcCs == [what |-> "class", len |-> 5]
Acm == [what |-> "class", len |-> 4]
CallManagement == [what |-> "class", len |-> 5]
Endpoint(number, type) ==
    [what |-> "endpoint", len |-> 7, number |-> number, type |-> type]

\* _cdcInterface: the control interface 0 and the data interface 1.
CdcInterface == <<
    Iad(0, 2), Interface(0, 1), CdcCs, Acm, CdcCs, CallManagement, Endpoint(1, "interruptIn"),
    Interface(1, 2), Endpoint(2, "bulkOut"), Endpoint(3, "bulkIn") >>

\* What a module sends: its interfaces, all endpoints with the first of them.
ModuleInterface(m, at) ==
    <<Interface(at.interface, Len(m.endpoints)), [what |-> "class", len |-> m.extra]>>
    \o [i \in 1 .. Len(m.endpoints) |-> Endpoint(at.endpoint + i - 1, m.endpoints[i])]
    \o [i \in 1 .. m.interfaces - 1 |-> Interface(at.interface + i, 0)]

SumOf(s) == LET sum[n \in 0 .. Len(s)] == IF n = 0 THEN 0 ELSE sum[n - 1] + s[n]
            IN  sum[Len(s)]
Bytes(pieces) == SumOf([i \in DOMAIN pieces |-> pieces[i].len])

-----------------------------------------------------------------------------
(* Answers.                                                                *)

\* SendInterfaces(): the pieces of all interfaces, and how many there are.
Interfaces == CdcInterface \o FlattenSeq([i \in 1 .. Len(plugged) |->
                                  ModuleInterface(plugged[i], numbers[plugged[i]])])
InterfaceCount == 2 + SumOf([i \in DOMAIN plugged |-> plugged[i].interfaces])

\* Mutant: the first run forgets the header.
ConfigurationNoHeader(length) ==
    LET config == Config(Bytes(Interfaces), InterfaceCount)
    IN  IF length = config.len THEN <<config>> ELSE <<config>> \o Interfaces

\* sendConfiguration(): a dry run for the lengths, then the header alone or
\* everything, whatever length was asked for.
Configuration(length) ==
    LET config == Config(Bytes(Interfaces) + 9, InterfaceCount)
    IN  IF length = config.len THEN <<config>> ELSE <<config>> \o Interfaces

\* The loop of sendStringDescriptor(): the index it ends with, for a string of
\* n characters.
StringEnd(n, length) ==
    LET loop[c \in 0 .. n] ==
            \* the index when c characters are left
            LET i == 2 + 2 * (n - c)
            IN  IF i >= length \/ c = 0 THEN i
                ELSE IF i + 1 = length THEN length ELSE loop[c - 1]
    IN  loop[n]

\* A string of one byte or none is refused; the length is one byte.
StringDescriptor(n, length) ==
    LET maxlen == length % 256
    IN  IF maxlen < 2 THEN <<>>
        ELSE <<[what |-> "string", len |-> StringEnd(n, maxlen), total |-> 2 * n + 2]>>

\* The first bytes of a constant descriptor; a length of zero stands for all.
Cut(piece, length) ==
    IF length # 0 /\ piece.len > length THEN <<[piece EXCEPT !.len = length]>> ELSE <<piece>>

\* sendDescriptor(): the pieces of the answer, none for a request it refuses.
Descriptor(what, length) ==
    CASE what = "config"   -> Configuration(length)
      [] what = "device"   -> Cut(DeviceDescriptor, length)
      [] what = "language" -> Cut(Language, length)
      [] what \in Strings  -> StringDescriptor(Chars[what], length)
      [] OTHER             -> <<>>

What == {"config", "device", "language", "unknown"} \cup Strings

Init ==
    /\ plugged = <<>> /\ lastIf = 2 /\ lastEp = 4 /\ refused = {} /\ attached = FALSE
    /\ numbers = [m \in Module |-> [interface |-> 0, endpoint |-> 0]]
    /\ stage = "idle" /\ request = [what |-> "device", length |-> 0]
    /\ known = [w \in What |-> 0] /\ received = 0
    /\ answer = <<>> /\ armed = 0 /\ ready = FALSE /\ multi = 0

-----------------------------------------------------------------------------
(* The main program.                                                       *)

\* Mutant: the next interface keeps its number.
TakeNumbersSameInterface(m) ==
    /\ numbers' = [numbers EXCEPT ![m] = [interface |-> lastIf, endpoint |-> lastEp]]
    /\ lastEp' = lastEp + Len(m.endpoints)
    /\ lastIf' = lastIf

TakeNumbers(m) ==
    /\ numbers' = [numbers EXCEPT ![m] = [interface |-> lastIf, endpoint |-> lastEp]]
    /\ lastIf' = lastIf + m.interfaces
    /\ lastEp' = lastEp + Len(m.endpoints)

\* plug(), for a module that is not plugged in yet, before the device is
\* attached: later the host would not ask again.
Plug(m) ==
    /\ ~attached /\ m \notin ToSet(plugged) \cup refused
    /\ IF lastEp + Len(m.endpoints) > Endpoints
       THEN refused' = refused \cup {m} /\ UNCHANGED <<plugged, lastIf, lastEp, numbers>>
       ELSE plugged' = Append(plugged, m) /\ TakeNumbers(m) /\ UNCHANGED refused
    /\ UNCHANGED <<attached, bankVars, hostVars>>

Attach ==
    /\ ~attached /\ attached' = TRUE
    /\ UNCHANGED <<plugged, lastIf, lastEp, numbers, refused, bankVars, hostVars>>

-----------------------------------------------------------------------------
(* The interrupt: GET_DESCRIPTOR.                                          *)

\* Mutant: the bank is not handed to the peripheral.
SendControlNotReady(pieces) ==
    answer' = pieces /\ armed' = Bytes(pieces) /\ multi' = 0 /\ ready' = FALSE

\* armSend() and, in ISRHandler(), the bank that is made ready.
SendControl(pieces) ==
    answer' = pieces /\ armed' = Bytes(pieces) /\ multi' = 0 /\ ready' = TRUE

IsrDescriptor(what, length) ==
    LET pieces == Descriptor(what, length)
    IN  IF pieces = <<>> THEN stage' = "stalled" /\ UNCHANGED bankVars
                         ELSE stage' = "data" /\ SendControl(pieces)

-----------------------------------------------------------------------------
(* The host and the peripheral.                                            *)

FirstLengths == [device |-> {8, 64}, config |-> {9}, language |-> {2}, unknown |-> {2},
                 manufacturer |-> {4}, product |-> {2, 3}, serial |-> {2}]

HostAsks(what, length) ==
    /\ attached /\ stage = "idle"
    /\ length \in FirstLengths[what] \cup {MaxLength} \cup ({known[what]} \ {0})
    /\ request' = [what |-> what, length |-> length]
    /\ received' = 0
    /\ IsrDescriptor(what, length)
    /\ UNCHANGED <<plugVars, known>>

\* The host fetches a packet.  A short one, or the last byte it asked for, ends
\* the data, and it has read in the first piece how long the whole is.
HostIn ==
    /\ stage = "data" /\ ready
    /\ LET n == IF armed - multi < MaxPacket THEN armed - multi ELSE MaxPacket
       IN  /\ received' = received + n
           /\ multi' = multi + n
           /\ ready' = (multi' < armed)
           /\ stage' = IF n < MaxPacket \/ received' >= request.length THEN "done" ELSE stage
    /\ known' = IF stage' = "done" THEN [known EXCEPT ![request.what] = Head(answer).total]
                                   ELSE known
    /\ UNCHANGED <<plugVars, request, answer, armed>>

HostStalled ==
    /\ stage = "stalled" /\ stage' = "idle"
    /\ UNCHANGED <<plugVars, bankVars, request, known, received>>

HostDone ==
    /\ stage = "done" /\ stage' = "idle"
    /\ UNCHANGED <<plugVars, bankVars, request, known, received>>

\* The host has waited long enough for a packet and drops the request.
HostDrops ==
    /\ stage = "data" /\ ~ready /\ stage' = "idle"
    /\ UNCHANGED <<plugVars, bankVars, request, known, received>>

Next ==
    \/ \E m \in Module : Plug(m)
    \/ Attach
    \/ \E what \in What, length \in 0 .. MaxLength : HostAsks(what, length)
    \/ HostIn \/ HostStalled \/ HostDone \/ HostDrops

\* A host controller repeats its tokens until a packet comes.
Spec == Init /\ [][Next]_vars /\ WF_vars(HostIn)

-----------------------------------------------------------------------------

\* The host gets what it asked for, and as much as the descriptor says it is
\* long: the length in its first piece, which comes from a dry run over all
\* interfaces or from the length of a string, is the number of bytes sent.
AnswerWhole ==
    stage = "done" =>
        LET total == Head(answer).total
        IN  received = IF request.length < total THEN request.length ELSE total

\* EndPoints of the constructor, by which initEndpoints() sets them up.
EndPoints == <<"interruptIn", "bulkOut", "bulkIn">>

Places(pieces, what) == {i \in DOMAIN pieces : pieces[i].what = what}
Numbers(pieces, what) == {pieces[i].number : i \in Places(pieces, what)}

\* Where a host finds the endpoints of the interface at i: behind it, and before
\* the next one.
EndpointsOf(pieces, i) ==
    {j \in Places(pieces, "endpoint") :
        i < j /\ \A k \in Places(pieces, "interface") : ~(i < k /\ k < j)}

\* A complete configuration makes sense to a host that parses it: it has the
\* interfaces it announces, numbered from 0, each with as many endpoints behind
\* it as it says, nothing twice, no endpoint the device does not have or that
\* belongs to no interface, and those of CDC have the type the device sets them
\* up with.
ConfigurationParses ==
    answer # <<>> /\ Head(answer).what = "config" /\ Len(answer) > 1 =>
        LET pieces == Tail(answer)
        IN  /\ Numbers(pieces, "interface") = 0 .. Head(answer).interfaces - 1
            /\ Numbers(pieces, "endpoint") \subseteq 1 .. Endpoints - 1
            /\ \A what \in {"interface", "endpoint"} : \A i, j \in Places(pieces, what) :
                  pieces[i].number = pieces[j].number => i = j
            /\ \A i \in Places(pieces, "interface") :
                  Cardinality(EndpointsOf(pieces, i)) = pieces[i].endpoints
            /\ \A j \in Places(pieces, "endpoint") :
                  /\ \E i \in Places(pieces, "interface") : i < j
                  /\ pieces[j].number \in DOMAIN EndPoints
                        => pieces[j].type = EndPoints[pieces[j].number]

\* Every request for a descriptor ends, except for one whose answer is shorter
\* than the length asked for and fills its last packet: the device sends no
\* empty packet behind it and the host waits.
TransferEnds ==
    stage = "data" ~> stage # "data" \/ (armed < request.length /\ armed % MaxPacket = 0)
=============================================================================
