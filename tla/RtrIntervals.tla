---------------------------- MODULE RtrIntervals ----------------------------
(***************************************************************************)
(* The interval values an End of Data PDU carries (protocol versions 1 and *)
(* 2) and the rule by which a socket takes them over: packets.c,           *)
(* rtr_check_interval_range and rtr_check_interval_option.                 *)
(***************************************************************************)
EXTENDS Integers

Modes == {"IGNORE_ANY", "ACCEPT_ANY", "DEFAULT_MIN_MAX", "IGNORE_ON_FAILURE"}

rtr_check_interval_range(interval, minimum, maximum) ==
    IF interval < minimum THEN "BELOW"
    ELSE IF interval > maximum THEN "ABOVE" ELSE "INSIDE"

\* Faulty variant: a value below the minimum is taken over.
CheckOptionTakesLow(mode, current, interval, minimum, maximum) ==
    LET range == rtr_check_interval_range(interval, minimum, maximum)
    IN  IF range # "ABOVE" \/ mode = "ACCEPT_ANY" THEN interval
        ELSE IF mode # "DEFAULT_MIN_MAX" THEN current ELSE maximum

(* The value the socket holds after an EOD PDU announced `interval` while   *)
(* it held `current`; IGNORE_ANY is decided by the caller.                  *)
rtr_check_interval_option(mode, current, interval, minimum, maximum) ==
    LET range == rtr_check_interval_range(interval, minimum, maximum)
    IN  IF range = "INSIDE" \/ mode = "ACCEPT_ANY" THEN interval
        ELSE IF mode # "DEFAULT_MIN_MAX" THEN current
        ELSE IF range = "BELOW" THEN minimum ELSE maximum

(* rtr_handle_eod_pdu: version 0 has no intervals, IGNORE_ANY skips them.   *)
NegotiatedInterval(ver, mode, current, interval, minimum, maximum) ==
    IF ver \in {1, 2} /\ mode # "IGNORE_ANY"
    THEN rtr_check_interval_option(mode, current, interval, minimum, maximum)
    ELSE current
=============================================================================
