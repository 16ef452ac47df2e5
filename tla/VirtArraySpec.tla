---------------------------- MODULE VirtArraySpec ----------------------------
(***************************************************************************)
(* What a virtual array of the memory manager (jmemmgr.c) promises to the  *)
(* component that requested it: an array of rows that grows from the top,  *)
(* every access returning the rows as they were last written.  Nothing is  *)
(* said of the strip buffer in memory or of the backing store.             *)
(***************************************************************************)
EXTENDS Naturals

CONSTANTS
    rows_in_array,  \* height of the array
    maxaccess,      \* most rows one access may ask for
    Value,          \* what a row may hold
    Zero            \* a row of zeros

VARIABLES
    state,          \* "none", "requested", "ready", or "error" after ERREXIT
    pre_zero,       \* rows not yet written read as zeros
    arr,            \* the defined rows 0 .. n-1
    view,           \* the strip the caller was last given
    seen            \* the rows of that strip as they were given, until the
                    \* caller stores into it

vars == <<state, pre_zero, arr, view, seen>>

NoRows == [r \in {} |-> Zero]
NoView == [start |-> 0, num |-> 0, writable |-> FALSE]

StripRows(v) == {r \in 0 .. rows_in_array - 1 :
                    v.start <= r /\ r < v.start + v.num}

Init ==
    /\ state = "none" /\ pre_zero = FALSE
    /\ arr = NoRows
    /\ view = NoView /\ seen = NoRows

Request(z) ==
    /\ state = "none"
    /\ state' = "requested" /\ pre_zero' = z
    /\ UNCHANGED <<arr, view, seen>>

Realize ==
    /\ state = "requested" /\ state' = "ready"
    /\ UNCHANGED <<pre_zero, arr, view, seen>>

(* Any call may end in an error; nothing can be read any more.             *)
Fail ==
    /\ state \in {"requested", "ready"} /\ state' = "error"
    /\ arr' = NoRows
    /\ view' = NoView /\ seen' = NoRows
    /\ UNCHANGED pre_zero

Free ==
    /\ state # "none" /\ state' = "none" /\ pre_zero' = FALSE
    /\ arr' = NoRows
    /\ view' = NoView /\ seen' = NoRows

(* A strip inside the array is handed out.  A writer may extend the        *)
(* defined part but not skip any of it; a reader of an array that is not   *)
(* zeroed stays inside it.                                                 *)
Access(v) ==
    LET n == v.start + v.num
    IN  /\ state = "ready"
        /\ n <= rows_in_array /\ v.num <= maxaccess
        /\ v.writable \/ ~ pre_zero
              => \A r \in 0 .. (IF v.writable THEN v.start ELSE n) - 1 :
                     r \in DOMAIN arr
        /\ \E new \in [StripRows(v) -> Value] :
              /\ \A r \in StripRows(v) :
                     /\ r \in DOMAIN arr => new[r] = arr[r]
                     /\ r \notin DOMAIN arr /\ pre_zero => new[r] = Zero
              /\ seen' = new
              /\ arr' = [r \in DOMAIN arr \cup
                               (IF v.writable THEN StripRows(v) ELSE {}) |->
                            IF r \in DOMAIN arr THEN arr[r] ELSE new[r]]
        /\ view' = v
        /\ UNCHANGED <<state, pre_zero>>

(* The caller stores into a row of the strip it was given for writing.     *)
Write(r, x) ==
    /\ state = "ready" /\ view.writable /\ r \in StripRows(view)
    /\ arr' = [arr EXCEPT ![r] = x]
    /\ seen' = NoRows
    /\ UNCHANGED <<state, pre_zero, view>>

View == [start : 0 .. rows_in_array, num : 1 .. maxaccess,
         writable : BOOLEAN]

Next ==
    \/ \E z \in BOOLEAN : Request(z)
    \/ Realize
    \/ Fail
    \/ Free
    \/ \E v \in View : Access(v)
    \/ \E r \in 0 .. rows_in_array - 1, x \in Value : Write(r, x)

Spec == Init /\ [][Next]_vars
=============================================================================
