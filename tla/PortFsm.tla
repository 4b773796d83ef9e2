------------------------------ MODULE PortFsm ------------------------------
(***************************************************************************)
(* The two port state machines of ptpPortInit.c: _ptpFsm for a boundary or *)
(* ordinary clock, _ptpSlaveFsm for a slave-only one.                      *)
(***************************************************************************)

States == { "INITIALIZING", "FAULTY", "DISABLED", "LISTENING", "PRE_MASTER",
            "MASTER", "PASSIVE", "UNCALIBRATED", "SLAVE", "GRAND_MASTER" }

Down      == {"INITIALIZING", "FAULTY", "DISABLED"}
Mastering == {"MASTER", "GRAND_MASTER"}
Slaving   == {"UNCALIBRATED", "SLAVE"}
Listeners == {"LISTENING", "PASSIVE"} \cup Slaving

Events == { "NONE", "POWERUP", "INITIALIZE", "DESIGNATED_ENABLED",
            "DESIGNATED_DISABLED", "FAULT_CLEARED", "FAULT_DETECTED",
            "STATE_DECISION_EVENT", "QUALIFICATION_TIMEOUT_EXPIRES",
            "ANNOUNCE_RECEIPT_TIMEOUT_EXPIRES", "SYNCHRONIZATION_FAULT",
            "MASTER_CLOCK_SELECTED", "INIT_COMPLETE",
            "RS_MASTER", "RS_GRAND_MASTER", "RS_SLAVE", "RS_PASSIVE" }

portIsEnabled(s) == s \notin Down

(* What both machines do with a port that is down.                         *)
DownFsm(s, e) ==
    CASE s = "INITIALIZING" /\ e = "FAULT_DETECTED"  -> "FAULTY"
      [] s = "INITIALIZING" /\ e = "INIT_COMPLETE"   -> "LISTENING"
      [] s = "FAULTY" /\ e = "DESIGNATED_DISABLED"   -> "DISABLED"
      [] s = "FAULTY" /\ e = "FAULT_CLEARED"         -> "INITIALIZING"
      [] s = "DISABLED" /\ e = "DESIGNATED_ENABLED"  -> "INITIALIZING"
      [] OTHER -> s

(* An enabled port of _ptpFsm on an event other than a fault.              *)
RoleFsm(s, e, mdiff) ==
    CASE e = "ANNOUNCE_RECEIPT_TIMEOUT_EXPIRES" /\ s \in Listeners -> "MASTER"
      [] e = "QUALIFICATION_TIMEOUT_EXPIRES" /\ s = "PRE_MASTER"   -> "MASTER"
      [] e = "RS_MASTER" /\ s \in Listeners       -> "PRE_MASTER"
      [] e = "RS_GRAND_MASTER" /\ s \in Listeners -> "GRAND_MASTER"
      [] e = "RS_PASSIVE"                         -> "PASSIVE"
      [] e = "RS_SLAVE" /\ (s # "SLAVE" \/ mdiff) -> "UNCALIBRATED"
      [] e = "MASTER_CLOCK_SELECTED" /\ s = "UNCALIBRATED" -> "SLAVE"
      [] e = "SYNCHRONIZATION_FAULT" /\ s = "SLAVE" -> "UNCALIBRATED"
      [] OTHER -> s

(* The same for _ptpSlaveFsm, which knows three enabled states.            *)
SlaveRoleFsm(s, e, mdiff) ==
    CASE e \in { "ANNOUNCE_RECEIPT_TIMEOUT_EXPIRES", "RS_MASTER",
                 "RS_GRAND_MASTER", "RS_PASSIVE" } -> "LISTENING"
      [] e = "RS_SLAVE" /\ (s = "LISTENING" \/ (s = "SLAVE" /\ mdiff))
            -> "UNCALIBRATED"
      [] e = "MASTER_CLOCK_SELECTED" /\ s = "UNCALIBRATED" -> "SLAVE"
      [] e = "SYNCHRONIZATION_FAULT" /\ s = "SLAVE" -> "UNCALIBRATED"
      [] OTHER -> s

EnabledFsm(slaveOnly, s, e, mdiff) ==
    IF e = "DESIGNATED_DISABLED" THEN "DISABLED"
    ELSE IF e = "FAULT_DETECTED" THEN "FAULTY"
    ELSE IF slaveOnly THEN SlaveRoleFsm(s, e, mdiff)
    ELSE RoleFsm(s, e, mdiff)

Fsm(slaveOnly, s, e, mdiff) ==
    IF e \in {"INITIALIZE", "POWERUP"} THEN "INITIALIZING"
    ELSE IF s \in Down THEN DownFsm(s, e)
    ELSE IF slaveOnly /\ s \notin {"LISTENING"} \cup Slaving THEN s
    ELSE EnabledFsm(slaveOnly, s, e, mdiff)
=============================================================================
