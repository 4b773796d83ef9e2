----------------------------- MODULE MCOrdinary ----------------------------
(* One port, in two kinds of clock: an ordinary clock, and a slave-only one, *)
(* whose port has the other state machine and renews its transport.         *)
EXTENDS MCPtpClock

VARIABLE kind

slaveOnly == INSTANCE PtpClock WITH
                 SlaveOnly <- TRUE, InitCanFail <- FALSE,
                 HwTimestamps <- FALSE, Bonded <- FALSE

MCInit == \/ kind = "ordinary"   /\ Init
          \/ kind = "slave-only" /\ slaveOnly!Init

MCNext == /\ UNCHANGED kind
          /\ \/ kind = "ordinary"   /\ Next
             \/ kind = "slave-only" /\ slaveOnly!Next

MCSpec == MCInit /\ [][MCNext]_<<vars, kind>>
=============================================================================
