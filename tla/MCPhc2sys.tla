------------------------------ MODULE MCPhc2sys ----------------------------
(* An instance of Phc2sys: two ports, each with its PHC.                    *)
EXTENDS Phc2sys

MCPortStates == {PS_LISTENING, PS_UNCALIBRATED, PS_SLAVE}
MCFirstStates == {<<PS_SLAVE, PS_LISTENING>>}
MCOwnPhc == [p \in Ports |-> p]
=============================================================================
