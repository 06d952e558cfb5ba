---------------------------- MODULE MCBootLoader ----------------------------
(* Bytes of a word: 2.  16 addresses, the boot code at 8..11.               *)
EXTENDS BootLoader

Crc1 == <<"crc", 1>>
Low == [id |-> "low", addr |-> 3, n |-> 2, crc |-> Crc1]
High == [id |-> "high", addr |-> 12, n |-> 3, crc |-> <<"crc", 2>>]
Across == [id |-> "across", addr |-> 6, n |-> 3, crc |-> <<"crc", 3>>]
Hijack == [id |-> "hijack", addr |-> 3, n |-> 2, crc |-> PRINT_STRING]

Programs == {High, Across}
HijackPrograms == {Low, Hijack}
=============================================================================
