------------------------------ MODULE VirtArray ------------------------------
(***************************************************************************)
(* The virtual arrays of jmemmgr.c: an array of rows too high for memory,  *)
(* seen through a strip buffer (mem_buffer) that slides over it and is     *)
(* swapped with a backing store.  The code exists twice, for sample rows   *)
(* and for coefficient block rows, the two copies identical but for the    *)
(* size of a row; the module models one array and stands for both.         *)
(*                                                                         *)
(* One access that misses the buffer is several steps: each transfer of a  *)
(* chunk is a call of the system-dependent backing store (external), which *)
(* may fail and leave through ERREXIT.                                     *)
(***************************************************************************)
EXTENDS Integers

CONSTANTS
    rows_in_array,  \* height of the array
    maxaccess,      \* most rows one access may ask for
    Value,          \* what a row may hold
    Zero,           \* a row of zeros
    Heights         \* what realize_virt_arrays may find for max_minheights

ASSUME ArrayAssumption ==
    /\ rows_in_array \in Nat \ {0}
    /\ maxaccess \in Nat \ {0}
    /\ Zero \in Value
    /\ Heights \subseteq Nat \ {0}

VARIABLES
    state,          \* "none", "requested", "ready", or "error" after ERREXIT
    err,            \* the message of the error
    pre_zero, rows_in_mem, rowsperchunk, cur_start_row, first_undef_row,
    dirty, b_s_open,
    mem_buffer,     \* the rows of the strip buffer
    store,          \* the rows of the temporary file: its length is 0 .. n-1
    open_stores,    \* temporary files opened and not yet closed
    io,             \* "none", or the do_*_io in progress: "flush", "load"
    io_row,         \* its loop counter i, a row of mem_buffer
    file_offset,    \* in rows
    call,           \* the arguments of the access in progress
    view,           \* the strip the caller was last given
    seen            \* the rows of that strip as they were given, until the
                    \* caller stores into it

control == <<pre_zero, rows_in_mem, rowsperchunk, cur_start_row,
             first_undef_row, dirty>>
backing == <<b_s_open, store, open_stores>>
loop == <<io, io_row, file_offset, call>>
given == <<view, seen>>
vars == <<state, err, control, backing, mem_buffer, loop, given>>

NoView == [start |-> 0, num |-> 0, writable |-> FALSE]
NoRows == [r \in {} |-> Zero]

Strip(v) == {r \in 0 .. rows_in_array - 1 :
                v.start <= r /\ r < v.start + v.num}

Smaller(a, b) == IF a < b THEN a ELSE b
Larger(a, b) == IF a < b THEN b ELSE a

InBuffer(r) == cur_start_row <= r /\ r < cur_start_row + rows_in_mem

-----------------------------------------------------------------------------
Init ==
    /\ state = "none" /\ err = "none"
    /\ pre_zero = FALSE /\ rows_in_mem = 0 /\ rowsperchunk = 0
    /\ cur_start_row = 0 /\ first_undef_row = 0
    /\ dirty = FALSE /\ b_s_open = FALSE
    /\ mem_buffer = NoRows /\ store = NoRows /\ open_stores = 0
    /\ io = "none" /\ io_row = 0 /\ file_offset = 0
    /\ call = NoView /\ view = NoView /\ seen = NoRows

(* ERREXIT: control returns to the application by longjmp.                 *)
Raise(e) ==
    /\ state' = "error" /\ err' = e
    /\ io' = "none" /\ call' = NoView
    /\ view' = NoView /\ seen' = NoRows
    /\ io_row' = 0 /\ file_offset' = 0

RequestVirtArray(z) ==
    /\ state = "none"
    /\ state' = "requested" /\ pre_zero' = z /\ b_s_open' = FALSE
    /\ UNCHANGED <<err, rows_in_mem, rowsperchunk, cur_start_row,
                   first_undef_row, dirty, mem_buffer, store, open_stores,
                   loop, given>>

(* The height of the buffer, and the backing store when the array does not *)
(* fit.  Opening the file and allocating the buffer may fail.  The buffer  *)
(* comes with whatever the memory held.                                    *)
Realize(max_minheights) ==
    LET minheights == (rows_in_array - 1) \div maxaccess + 1
        fits == minheights <= max_minheights
    IN  /\ state = "requested"
        /\ rows_in_mem' = IF fits THEN rows_in_array
                                  ELSE max_minheights * maxaccess
        /\ UNCHANGED pre_zero
        /\ \/ /\ ~ fits
              /\ Raise("TFILE_CREATE")
              /\ UNCHANGED <<rowsperchunk, cur_start_row, first_undef_row,
                             dirty, mem_buffer, backing>>
           \/ /\ b_s_open' = ~ fits
              /\ store' = NoRows
              /\ open_stores' = open_stores + (IF fits THEN 0 ELSE 1)
              /\ \/ /\ Raise("OUT_OF_MEMORY")
                    /\ UNCHANGED <<rowsperchunk, cur_start_row,
                                   first_undef_row, dirty, mem_buffer>>
                 \/ /\ state' = "ready" /\ UNCHANGED <<err, loop, given>>
                    /\ mem_buffer' \in [0 .. rows_in_mem' - 1 -> Value]
                    /\ rowsperchunk' \in 1 .. rows_in_mem'
                    /\ cur_start_row' = 0 /\ first_undef_row' = 0
                    /\ dirty' = FALSE

-----------------------------------------------------------------------------
(* The rows the next turn of the loop of do_sarray_io or do_barray_io may  *)
(* transfer: at most a chunk, and no row that is undefined or past the end *)
(* of the array.                                                           *)
ChunkRows ==
    LET thisrow == cur_start_row + io_row
    IN  Smaller(Smaller(rowsperchunk, rows_in_mem - io_row),
                Smaller(first_undef_row - thisrow, rows_in_array - thisrow))

ChunkLeft == io_row < rows_in_mem /\ ChunkRows > 0

NextChunk ==
    /\ io_row' = io_row + rowsperchunk
    /\ file_offset' = file_offset + ChunkRows

(* write_backing_store: the rows replace those of the file; a write past   *)
(* its end would leave a hole.                                             *)
FlushChunk ==
    /\ io = "flush" /\ ChunkLeft
    /\ \/ /\ store' =
               [q \in DOMAIN store \cup (0 .. file_offset + ChunkRows - 1) |->
                  IF file_offset <= q /\ q < file_offset + ChunkRows
                  THEN mem_buffer[io_row + (q - file_offset)]
                  ELSE IF q \in DOMAIN store THEN store[q] ELSE Zero]
          /\ NextChunk
          /\ UNCHANGED <<state, err, io, call, given>>
       \/ Raise("TFILE_WRITE") /\ UNCHANGED store
    /\ UNCHANGED <<control, mem_buffer, b_s_open, open_stores>>

(* Where the buffer goes for the strip v: it starts there when the caller  *)
(* moves forward, it ends there when the caller moves back.                *)
TopFor(v) == Larger(v.start + v.num - rows_in_mem, 0)

Reposition(v) ==
    /\ cur_start_row' = IF v.start > cur_start_row THEN v.start
                                                   ELSE TopFor(v)
    /\ io' = "load" /\ io_row' = 0 /\ file_offset' = cur_start_row'
    /\ call' = v

FlushDone ==
    /\ io = "flush" /\ ~ ChunkLeft
    /\ dirty' = FALSE
    /\ Reposition(call)
    /\ UNCHANGED <<state, err, pre_zero, rows_in_mem, rowsperchunk,
                   first_undef_row, backing, mem_buffer, given>>

(* read_backing_store: a read past the end of the file is short.           *)
LoadChunk ==
    /\ io = "load" /\ ChunkLeft
    /\ \/ /\ file_offset + ChunkRows - 1 \in DOMAIN store
          /\ mem_buffer' =
               [i \in DOMAIN mem_buffer |->
                  IF io_row <= i /\ i < io_row + ChunkRows
                  THEN store[file_offset + (i - io_row)]
                  ELSE mem_buffer[i]]
          /\ NextChunk
          /\ UNCHANGED <<state, err, io, call, given>>
       \/ /\ Raise(IF file_offset + ChunkRows - 1 \in DOMAIN store
                   THEN "TFILE_READ" ELSE "SHORT_READ")
          /\ UNCHANGED mem_buffer
    /\ UNCHANGED <<control, backing>>

(* The second half of access_virt_sarray and access_virt_barray: the strip *)
(* is in the buffer; rows never written are zeroed if that was asked for,  *)
(* rows a writer asked for are defined from now on.                        *)
SkipsAllowed(v) ==                        \* mutant: a writer may skip rows
    ~ v.writable /\ ~ pre_zero /\ first_undef_row < v.start + v.num
Misused(v) ==
    \/ v.writable /\ first_undef_row < v.start
    \/ /\ ~ v.writable /\ ~ pre_zero
       /\ first_undef_row < v.start + v.num

ReadersDefine(v) == Larger(first_undef_row, v.start + v.num)    \* mutant
DefinedBy(v) ==
    IF v.writable THEN Larger(first_undef_row, v.start + v.num)
                  ELSE first_undef_row

NotDirtied(v) == dirty                                          \* mutant
DirtiedBy(v) == dirty \/ v.writable

Grant(v) ==
    LET end_row == v.start + v.num
    IN  /\ \/ /\ Misused(v)
              /\ Raise("BAD_VIRTUAL_ACCESS")
              /\ UNCHANGED <<control, mem_buffer>>
           \/ /\ ~ Misused(v)
              /\ mem_buffer' =
                   [i \in DOMAIN mem_buffer |->
                      IF /\ pre_zero
                         /\ Larger(first_undef_row, v.start)
                               <= cur_start_row + i
                         /\ cur_start_row + i < end_row
                      THEN Zero ELSE mem_buffer[i]]
              /\ first_undef_row' = DefinedBy(v)
              /\ dirty' = DirtiedBy(v)
              /\ view' = v
              /\ seen' = [r \in Strip(v) |-> mem_buffer'[r - cur_start_row]]
              /\ io' = "none" /\ io_row' = 0 /\ file_offset' = 0
              /\ call' = NoView
              /\ UNCHANGED <<state, err, pre_zero, rows_in_mem, rowsperchunk,
                             cur_start_row>>
        /\ UNCHANGED backing

LoadDone == io = "load" /\ ~ ChunkLeft /\ Grant(call)

(* access_virt_sarray and access_virt_barray up to the first transfer.     *)
Access(v) ==
    LET bad == \/ v.start + v.num > rows_in_array
               \/ v.num > maxaccess
               \/ state = "requested"
        hit == /\ cur_start_row <= v.start
               /\ v.start + v.num <= cur_start_row + rows_in_mem
    IN  /\ state \in {"requested", "ready"} /\ io = "none"
        /\ \/ /\ bad \/ (~ hit /\ ~ b_s_open)
              /\ Raise(IF bad THEN "BAD_VIRTUAL_ACCESS" ELSE "VIRTUAL_BUG")
              /\ UNCHANGED <<control, backing, mem_buffer>>
           \/ ~ bad /\ hit /\ Grant(v)
           \/ /\ ~ bad /\ ~ hit /\ b_s_open /\ dirty
              /\ io' = "flush" /\ io_row' = 0 /\ file_offset' = cur_start_row
              /\ call' = v
              /\ UNCHANGED <<state, err, control, backing, mem_buffer, given>>
           \/ /\ ~ bad /\ ~ hit /\ b_s_open /\ ~ dirty
              /\ Reposition(v)
              /\ UNCHANGED <<state, err, pre_zero, rows_in_mem, rowsperchunk,
                             first_undef_row, dirty, backing, mem_buffer,
                             given>>

(* The caller, external to the memory manager, stores into a row of the    *)
(* strip it was given for writing.                                         *)
Write(r, x) ==
    /\ state = "ready" /\ io = "none" /\ view.writable /\ r \in Strip(view)
    /\ mem_buffer' = [mem_buffer EXCEPT ![r - cur_start_row] = x]
    /\ seen' = NoRows
    /\ UNCHANGED <<state, err, control, backing, loop, view>>

NotAfterError == IF b_s_open /\ state # "error" THEN 1 ELSE 0   \* mutant
Closed == IF b_s_open THEN 1 ELSE 0

(* free_pool of the image pool, from jpeg_abort or jpeg_destroy, also      *)
(* after an error: the control block, the buffer and the file are gone.    *)
FreePool ==
    /\ state # "none" /\ io = "none"
    /\ state' = "none" /\ err' = "none"
    /\ b_s_open' = FALSE
    /\ open_stores' = open_stores - Closed
    /\ view' = NoView /\ seen' = NoRows
    /\ pre_zero' = FALSE /\ rows_in_mem' = 0 /\ rowsperchunk' = 0
    /\ cur_start_row' = 0 /\ first_undef_row' = 0 /\ dirty' = FALSE
    /\ mem_buffer' = NoRows /\ store' = NoRows
    /\ UNCHANGED loop

-----------------------------------------------------------------------------
View == [start : 0 .. rows_in_array, num : 1 .. maxaccess + 1,
         writable : BOOLEAN]

Transfer == FlushChunk \/ FlushDone \/ LoadChunk \/ LoadDone

Next ==
    \/ \E z \in BOOLEAN : RequestVirtArray(z)
    \/ \E m \in Heights : Realize(m)
    \/ \E v \in View : Access(v)
    \/ Transfer
    \/ \E r \in 0 .. rows_in_array - 1, x \in Value : Write(r, x)
    \/ FreePool

Spec == Init /\ [][Next]_vars

-----------------------------------------------------------------------------
TypeOK ==
    /\ state \in {"none", "requested", "ready", "error"}
    /\ err \in {"none", "TFILE_CREATE", "OUT_OF_MEMORY", "TFILE_WRITE",
               "TFILE_READ", "SHORT_READ", "BAD_VIRTUAL_ACCESS",
               "VIRTUAL_BUG"}
    /\ pre_zero \in BOOLEAN /\ dirty \in BOOLEAN /\ b_s_open \in BOOLEAN
    /\ rows_in_mem \in Nat /\ rowsperchunk \in Nat
    /\ cur_start_row \in Nat /\ first_undef_row \in Nat
    /\ open_stores \in Nat
    /\ io \in {"none", "flush", "load"}
    /\ io_row \in Nat /\ file_offset \in Nat
    /\ call \in View \cup {NoView} /\ view \in View \cup {NoView}
    /\ state = "ready" => mem_buffer \in [0 .. rows_in_mem - 1 -> Value]
    /\ \A q \in DOMAIN store : store[q] \in Value

(* The rows the strip buffer and the temporary file hold together.  While  *)
(* the buffer is being loaded the file alone holds them.                   *)
Buffered(r) == InBuffer(r) /\ io # "load"

Contents ==
    IF state = "ready"
    THEN [r \in {q \in 0 .. first_undef_row - 1 :
                    Buffered(q) \/ q \in DOMAIN store} |->
            IF Buffered(r) THEN mem_buffer[r - cur_start_row] ELSE store[r]]
    ELSE NoRows

(* A virtual array is an array: whatever the order of the accesses and     *)
(* wherever the buffer has been, every access gives the rows as they were  *)
(* last written, and rows never written as zeros if that was asked for.    *)
Array == INSTANCE VirtArraySpec WITH arr <- Contents

ArraySpec == Array!Spec

(* Whatever is not in the buffer, and all of it when the buffer is clean,  *)
(* is in the temporary file: the write a clean buffer saves is never       *)
(* missed.                                                                 *)
Coherent ==
    state = "ready" =>
        \A r \in 0 .. first_undef_row - 1 :
            /\ ~ InBuffer(r) \/ ~ dirty => r \in DOMAIN store
            /\ InBuffer(r) /\ ~ dirty /\ io = "none"
                  => store[r] = mem_buffer[r - cur_start_row]

(* No legal or illegal access makes the manager miss a strip it should     *)
(* have (JERR_VIRTUAL_BUG), or read past the end of its own temporary file *)
(* (JERR_TFILE_READ without a failing device).                             *)
NoInternalError == err \notin {"VIRTUAL_BUG", "SHORT_READ"}

(* The file is only ever extended at its end: some file systems cannot     *)
(* seek beyond it (the reason structure.doc gives for the top-to-bottom    *)
(* first pass).                                                            *)
NoHoles ==
    [][\A q \in DOMAIN store' :
          file_offset <= q \/ q \in DOMAIN store]_store

(* Errors between opening the file, allocating the buffer and freeing the  *)
(* pool neither lose an open file nor close one twice.                     *)
StoreClosed ==
    /\ open_stores = (IF b_s_open THEN 1 ELSE 0)
    /\ state = "none" => open_stores = 0

(* The temporary file has what the buffer has not, and is closed once.     *)
StoreRight == Coherent /\ StoreClosed
=============================================================================
