---------------------------- MODULE MarkerResync ----------------------------
(***************************************************************************)
(* Resynchronizing on restart markers (jdmarker.c), for a source as in     *)
(* MarkerScan.                                                             *)
(***************************************************************************)
EXTENDS MarkerScan

(* jpeg_resync_to_restart: what to do with a marker that is not the        *)
(* desired restart marker.                                                 *)
PassesOverEOI(marker, desired) ==                               \* mutant
    IF ~IsRST(marker) THEN "scan_on" ELSE "discard"
RecoveryAction(marker, desired) ==
    IF marker < SOF0 THEN "scan_on"
    ELSE IF ~IsRST(marker) THEN "leave"
    ELSE IF marker \in {RSTn((desired + 1) % 8), RSTn((desired + 2) % 8)} THEN "leave"
    ELSE IF marker \in {RSTn((desired - 1) % 8), RSTn((desired - 2) % 8)} THEN "scan_on"
    ELSE "discard"

RECURSIVE jpeg_resync_to_restart(_, _, _)
jpeg_resync_to_restart(data, s, desired) ==
    IF ~s.ok THEN s
    ELSE CASE RecoveryAction(s.unread_marker, desired) = "discard" ->
                [s EXCEPT !.unread_marker = 0]
           [] RecoveryAction(s.unread_marker, desired) = "leave" -> s
           [] OTHER -> jpeg_resync_to_restart(data, next_marker(data, s), desired)

NumbersNotFolded(s) ==                                          \* mutant
    IF s.ok THEN [s EXCEPT !.next_restart_num = @ + 1] ELSE s
NextNumber(s) == IF s.ok THEN [s EXCEPT !.next_restart_num = (@ + 1) % 8] ELSE s

(* The marker that ends a restart interval.                                *)
AtMarker(data, s) ==
    IF s.ok /\ s.unread_marker = RSTn(s.next_restart_num)
    THEN [s EXCEPT !.unread_marker = 0]
    ELSE jpeg_resync_to_restart(data, s, s.next_restart_num)
read_restart_marker(data, s) ==
    NextNumber(AtMarker(data, IF s.unread_marker = 0 THEN next_marker(data, s) ELSE s))
=============================================================================
