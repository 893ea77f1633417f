------------------------------ MODULE MCRs232 ------------------------------
(* Values of Rs232's constants for TLC. *)
EXTENDS Rs232

MCBytes == {0, 1}

\* Both bytes over a quiet line; one byte, damaged or not, while CTS moves.
MCUses == { [bytes |-> {0, 1}, bad |-> {FALSE}, cts |-> FALSE],
            [bytes |-> {0}, bad |-> BOOLEAN, cts |-> TRUE] }
=============================================================================
