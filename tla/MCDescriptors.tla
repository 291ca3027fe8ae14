--------------------------- MODULE MCDescriptors ---------------------------
(***************************************************************************)
(* The strings of usb/DeviceInfo.hpp, "Feather M0" and "Adafruit", and the *)
(* serial number of 32 digits; modules like the ones people plug in.  With *)
(* the MIDI module alone the configuration has 75 + 53 = 128 bytes.        *)
(***************************************************************************)
EXTENDS Descriptors

MCChars == [product |-> 10, manufacturer |-> 8, serial |-> 32]

MCModule == {
    [interfaces |-> 1, endpoints |-> <<"interruptIn">>, extra |-> 9],
    [interfaces |-> 1, endpoints |-> <<"bulkOut", "bulkIn">>, extra |-> 0],
    [interfaces |-> 2, endpoints |-> <<"bulkOut", "bulkIn">>, extra |-> 21] }
=============================================================================
