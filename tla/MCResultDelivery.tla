--------------------------- MODULE MCResultDelivery ---------------------------
EXTENDS ResultDelivery, TLC

CONSTANTS r1, r2, r3

(* With a limit of 4 bytes: r1's logs are cut inside a character, r2's     *)
(* between two, r3's are short enough.                                     *)
SampleLogs ==
    [r \in Results |->
        CASE r = r1 -> <<1, 2, 2, 1>> [] r = r2 -> <<1, 3, 2>> [] r = r3 -> <<2>>]
=============================================================================
