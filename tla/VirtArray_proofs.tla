--------------------------- MODULE VirtArray_proofs ---------------------------
(***************************************************************************)
(* A virtual array is an array, for every height, width of access, size of *)
(* the strip buffer and size of the chunks: proofs about VirtArray.        *)
(***************************************************************************)
EXTENDS VirtArray, TLAPS

Types ==
    /\ state \in {"none", "requested", "ready", "error"}
    /\ err \in {"none", "TFILE_CREATE", "OUT_OF_MEMORY", "TFILE_WRITE",
                "TFILE_READ", "SHORT_READ", "BAD_VIRTUAL_ACCESS",
                "VIRTUAL_BUG"}
    /\ pre_zero \in BOOLEAN /\ dirty \in BOOLEAN /\ b_s_open \in BOOLEAN
    /\ rows_in_mem \in Nat /\ rowsperchunk \in Nat
    /\ cur_start_row \in Nat /\ first_undef_row \in Nat
    /\ open_stores \in Nat
    /\ io \in {"none", "flush", "load"}
    /\ io_row \in Nat /\ file_offset \in Nat
    /\ call \in View \cup {NoView} /\ view \in View \cup {NoView}
    /\ store \in [DOMAIN store -> Value] /\ DOMAIN store \subseteq Nat

(* The buffer of a realized array: full height and at rest, or backed by a *)
(* file and at least as high as the widest access.                         *)
BufferOK ==
    state = "ready" =>
        /\ mem_buffer \in [0 .. rows_in_mem - 1 -> Value]
        /\ rowsperchunk \in 1 .. rows_in_mem
        /\ first_undef_row <= rows_in_array
        /\ b_s_open => maxaccess <= rows_in_mem
        /\ ~ b_s_open => rows_in_mem = rows_in_array /\ cur_start_row = 0

(* A transfer belongs to a legal access; the rows below its counter agree  *)
(* with the file, and the offset is where the next chunk belongs.  A load  *)
(* has already put the buffer over the strip.                              *)
InCall(v) ==
    v \in View /\ v.start + v.num <= rows_in_array /\ v.num <= maxaccess

Covers(v) ==
    cur_start_row <= v.start /\ v.start + v.num <= cur_start_row + rows_in_mem

Transferred ==
    \A r \in 0 .. first_undef_row - 1 :
        InBuffer(r) /\ r < cur_start_row + io_row
            => r \in DOMAIN store /\ store[r] = mem_buffer[r - cur_start_row]

TransferOK ==
    io # "none" =>
        /\ state = "ready" /\ b_s_open /\ InCall(call)
        /\ ChunkLeft => file_offset = cur_start_row + io_row
        /\ io = "flush" => dirty
        /\ io = "load" => ~ dirty /\ Covers(call)
        /\ Transferred

(* A strip handed out for writing stays in the buffer, defined and dirty.  *)
ViewOK ==
    /\ state # "ready" => view = NoView
    /\ state = "ready" /\ io = "none" /\ view.writable =>
          dirty /\ Covers(view) /\ view.start + view.num <= first_undef_row

StoreOK ==
    /\ open_stores = (IF b_s_open THEN 1 ELSE 0)
    /\ state \in {"none", "requested"} => ~ b_s_open

IndInv ==
    /\ Types /\ BufferOK /\ TransferOK /\ ViewOK /\ Coherent
    /\ StoreOK /\ NoInternalError

-----------------------------------------------------------------------------
(* The next chunk lies inside the buffer, the defined rows and the array,  *)
(* and the loop stops only when one of them is used up.                    *)
LEMMA ChunkBounds ==
    ASSUME Types
    PROVE  /\ ChunkRows \in Int
           /\ ChunkRows <= rowsperchunk
           /\ ChunkRows <= rows_in_mem - io_row
           /\ ChunkRows <= first_undef_row - (cur_start_row + io_row)
           /\ ChunkRows <= rows_in_array - (cur_start_row + io_row)
           /\ ChunkRows \in {rowsperchunk, rows_in_mem - io_row,
                             first_undef_row - (cur_start_row + io_row),
                             rows_in_array - (cur_start_row + io_row)}
BY ArrayAssumption DEF Types, ChunkRows, Smaller

LEMMA ChunkBoundsPrimed ==
    ASSUME Types'
    PROVE  /\ ChunkRows' \in Int
           /\ ChunkRows' <= first_undef_row' - (cur_start_row' + io_row')
           /\ ChunkRows' <= rows_in_array - (cur_start_row' + io_row')
<1>1. \A a, b \in Int : /\ Smaller(a, b) \in Int
                        /\ Smaller(a, b) <= a /\ Smaller(a, b) <= b
  BY SMT DEF Smaller
<1> DEFINE a == rowsperchunk'
           b == rows_in_mem' - io_row'
           c == first_undef_row' - (cur_start_row' + io_row')
           d == rows_in_array - (cur_start_row' + io_row')
<1>2. a \in Int /\ b \in Int /\ c \in Int /\ d \in Int
  BY ArrayAssumption DEF Types
<1>3. ChunkRows' = Smaller(Smaller(a, b), Smaller(c, d))
  BY DEF ChunkRows
<1> HIDE DEF a, b, c, d
<1>4. /\ Smaller(a, b) \in Int /\ Smaller(c, d) \in Int
      /\ Smaller(c, d) <= c /\ Smaller(c, d) <= d
  BY <1>1, <1>2, Zenon
<1>5. ChunkRows' \in Int /\ ChunkRows' <= Smaller(c, d)
  BY <1>1, <1>3, <1>4, Zenon
<1> QED
  BY <1>2, <1>4, <1>5, SMT DEF c, d

LEMMA Arith ==
    /\ \A n \in Nat : n + 0 = n
    /\ \A n \in Nat : \A r \in 0 .. n - 1 : r \in Nat /\ r < n
    /\ \A a, b, m, n \in Int : a <= b /\ b < m /\ m <= n => a <= b /\ b < n
BY SMT

LEMMA NoRowsType ==
    NoRows \in [DOMAIN NoRows -> Value] /\ DOMAIN NoRows \subseteq Nat
BY SMT DEF NoRows

LEMMA InitInv == Init => IndInv
<1> SUFFICES ASSUME Init PROVE IndInv
  OBVIOUS
<1>1. Types
  <2>1. store \in [DOMAIN store -> Value] /\ DOMAIN store \subseteq Nat
    BY NoRowsType, Zenon DEF Init
  <2>2. /\ state = "none" /\ err = "none" /\ io = "none"
        /\ pre_zero \in BOOLEAN /\ dirty \in BOOLEAN /\ b_s_open \in BOOLEAN
    BY Zenon DEF Init
  <2>3. /\ rows_in_mem \in Nat /\ rowsperchunk \in Nat
        /\ cur_start_row \in Nat /\ first_undef_row \in Nat
        /\ open_stores \in Nat /\ io_row \in Nat /\ file_offset \in Nat
    BY SMT DEF Init
  <2> QED
    BY <2>1, <2>2, <2>3, Zenon DEF Types, Init
<1> QED
  BY <1>1, SMT DEF Init, IndInv, BufferOK, TransferOK, ViewOK, Coherent,
     StoreOK, NoInternalError

(* ERREXIT leaves nothing to preserve but the account of open files.       *)
LEMMA RaiseInv ==
    ASSUME IndInv, NEW e, Raise(e), state # "none",
           e \in {"TFILE_CREATE", "OUT_OF_MEMORY", "TFILE_WRITE",
                  "TFILE_READ", "BAD_VIRTUAL_ACCESS"},
           pre_zero' \in BOOLEAN, dirty' \in BOOLEAN, b_s_open' \in BOOLEAN,
           rows_in_mem' \in Nat, rowsperchunk' \in Nat,
           cur_start_row' \in Nat, first_undef_row' \in Nat,
           open_stores' = (IF b_s_open' THEN 1 ELSE 0),
           store' \in [DOMAIN store' -> Value], DOMAIN store' \subseteq Nat
    PROVE  IndInv'
<1>1. StoreOK' /\ NoInternalError'
  BY SMT DEF Raise, StoreOK, NoInternalError
<1> QED
  BY <1>1 DEF IndInv, Raise, BufferOK, TransferOK, ViewOK, Coherent, Types

LEMMA RequestInv ==
    ASSUME IndInv, NEW z \in BOOLEAN, RequestVirtArray(z)
    PROVE  IndInv'
<1>1. BufferOK' /\ ViewOK' /\ Coherent'
  BY SMT DEF IndInv, RequestVirtArray, BufferOK, ViewOK, Coherent, given
<1>2. StoreOK' /\ NoInternalError'
  BY SMT DEF IndInv, RequestVirtArray, StoreOK, NoInternalError
<1> QED
  BY <1>1, <1>2, Zenon DEF IndInv, Types, RequestVirtArray, loop, given, TransferOK

LEMMA FreeInv ==
    ASSUME IndInv, FreePool
    PROVE  IndInv'
<1>1. Types'
  <2>1. open_stores' \in Nat
    BY SMT DEF IndInv, Types, FreePool, Closed, StoreOK
  <2>2. /\ rows_in_mem' \in Nat /\ rowsperchunk' \in Nat
        /\ cur_start_row' \in Nat /\ first_undef_row' \in Nat
    BY SMT DEF FreePool
  <2>3. store' \in [DOMAIN store' -> Value] /\ DOMAIN store' \subseteq Nat
    BY NoRowsType, Zenon DEF FreePool
  <2> QED
    BY <2>1, <2>2, <2>3, Zenon DEF IndInv, Types, FreePool, loop
<1>2. StoreOK' /\ NoInternalError'
  BY SMT DEF IndInv, FreePool, StoreOK, NoInternalError, Closed
<1> QED
  BY <1>1, <1>2 DEF IndInv, FreePool, BufferOK, ViewOK, Coherent, TransferOK, loop

-----------------------------------------------------------------------------
(* realize_virt_arrays.                                                    *)
LEMMA RealizeInv ==
    ASSUME IndInv, NEW m \in Heights, Realize(m)
    PROVE  IndInv'
<1> DEFINE fits == (rows_in_array - 1) \div maxaccess + 1 <= m
<1>1. Types /\ BufferOK /\ TransferOK /\ ViewOK /\ Coherent
      /\ StoreOK /\ NoInternalError
  BY Zenon DEF IndInv
<1>2. /\ state = "requested" /\ ~ b_s_open /\ open_stores = 0
      /\ pre_zero' = pre_zero
      /\ rows_in_mem' = IF fits THEN rows_in_array ELSE m * maxaccess
  BY <1>1, Zenon DEF Realize, StoreOK
<1>3. /\ rows_in_mem' \in Nat \ {0}
      /\ ~ fits => maxaccess <= rows_in_mem'
  <2> HIDE DEF fits
  <2> QED
    BY <1>2, ArrayAssumption, SMT
<1> HIDE DEF fits
<1>4. CASE /\ ~ fits /\ Raise("TFILE_CREATE")
           /\ UNCHANGED <<rowsperchunk, cur_start_row, first_undef_row,
                          dirty, mem_buffer, backing>>
  BY <1>4, <1>1, <1>2, <1>3, RaiseInv, Zenon DEF backing, Types, StoreOK
<1>5. ASSUME b_s_open' = ~ fits, store' = NoRows,
             open_stores' = open_stores + (IF fits THEN 0 ELSE 1)
      PROVE  /\ b_s_open' \in BOOLEAN
             /\ store' \in [DOMAIN store' -> Value]
             /\ DOMAIN store' \subseteq Nat
             /\ open_stores' = (IF b_s_open' THEN 1 ELSE 0)
  <2>1. /\ b_s_open' \in BOOLEAN /\ store' \in [DOMAIN store' -> Value]
        /\ DOMAIN store' \subseteq Nat
    BY <1>5, NoRowsType, Zenon
  <2>2. CASE fits
    <3>1. ~ b_s_open' /\ open_stores' = 0 + 0
      BY <1>2, <1>5, <2>2, Zenon
    <3> QED
      BY <2>1, <3>1, SMT
  <2>3. CASE ~ fits
    <3>1. b_s_open' /\ open_stores' = 0 + 1
      BY <1>2, <1>5, <2>3, Zenon
    <3> QED
      BY <2>1, <3>1, SMT
  <2> QED
    BY <2>1, <2>2, <2>3, Zenon
<1>6. CASE /\ b_s_open' = ~ fits /\ store' = NoRows
           /\ open_stores' = open_stores + (IF fits THEN 0 ELSE 1)
           /\ Raise("OUT_OF_MEMORY")
           /\ UNCHANGED <<rowsperchunk, cur_start_row, first_undef_row,
                          dirty, mem_buffer>>
  BY <1>6, <1>1, <1>2, <1>3, <1>5, RaiseInv, Zenon DEF Types
<1>7. CASE /\ b_s_open' = ~ fits /\ store' = NoRows
           /\ open_stores' = open_stores + (IF fits THEN 0 ELSE 1)
           /\ state' = "ready" /\ UNCHANGED <<err, loop, given>>
           /\ mem_buffer' \in [0 .. rows_in_mem' - 1 -> Value]
           /\ rowsperchunk' \in 1 .. rows_in_mem'
           /\ cur_start_row' = 0 /\ first_undef_row' = 0
           /\ dirty' = FALSE
  <2>1. /\ err' = err /\ io' = io /\ io_row' = io_row
        /\ file_offset' = file_offset /\ call' = call /\ view' = view
        /\ io = "none"
    BY <1>1, <1>2, <1>7, SMT DEF loop, given, TransferOK
  <2>2. Types'
    <3>1. /\ rowsperchunk' \in Nat /\ open_stores' \in Nat
          /\ cur_start_row' \in Nat /\ first_undef_row' \in Nat
          /\ rows_in_mem' \in Nat
      BY <1>2, <1>3, <1>7, SMT
    <3> QED
      BY <1>1, <1>2, <1>5, <1>7, <2>1, <3>1, Zenon DEF Types
  <2>3. BufferOK'
    <3>1. first_undef_row' <= rows_in_array
      BY <1>7, ArrayAssumption, SMT
    <3> QED
      BY <1>7, <1>2, <1>3, <3>1, Zenon DEF BufferOK
  <2>4. StoreOK'
    BY <1>5, <1>7, SMT DEF StoreOK
  <2> QED
    BY <2>2, <2>3, <1>1, <1>7, <2>1, <1>2, <2>4 DEF IndInv, TransferOK, Coherent,
       NoInternalError, ViewOK, NoView
<1> QED
  BY <1>4, <1>6, <1>7, Zenon DEF Realize, fits

-----------------------------------------------------------------------------
(* write_backing_store: the rows written agree with the buffer, the others *)
(* stay.                                                                   *)
LEMMA FlushChunkInv ==
    ASSUME IndInv, FlushChunk
    PROVE  IndInv'
<1>1. Types /\ BufferOK /\ TransferOK /\ ViewOK /\ Coherent
      /\ StoreOK /\ NoInternalError
  BY Zenon DEF IndInv
<1>2. /\ io = "flush" /\ io_row < rows_in_mem /\ ChunkRows > 0
      /\ pre_zero' = pre_zero /\ rows_in_mem' = rows_in_mem
      /\ rowsperchunk' = rowsperchunk /\ cur_start_row' = cur_start_row
      /\ first_undef_row' = first_undef_row /\ dirty' = dirty
      /\ mem_buffer' = mem_buffer /\ b_s_open' = b_s_open
      /\ open_stores' = open_stores
  BY Zenon DEF FlushChunk, control, ChunkLeft
<1>3. /\ state = "ready" /\ b_s_open /\ InCall(call) /\ dirty
      /\ file_offset = cur_start_row + io_row /\ Transferred
  BY <1>1, <1>2, SMT DEF TransferOK, ChunkLeft
<1>4. CASE Raise("TFILE_WRITE") /\ UNCHANGED store
  BY <1>1, <1>2, <1>4, <1>3, RaiseInv DEF Types, StoreOK
<1>5. CASE /\ store' =
                [q \in DOMAIN store \cup (0 .. file_offset + ChunkRows - 1) |->
                   IF file_offset <= q /\ q < file_offset + ChunkRows
                   THEN mem_buffer[io_row + (q - file_offset)]
                   ELSE IF q \in DOMAIN store THEN store[q] ELSE Zero]
           /\ NextChunk
           /\ UNCHANGED <<state, err, io, call, given>>
  <2> DEFINE n == ChunkRows
  <2>1. /\ n \in Nat /\ n >= 1 /\ n <= rowsperchunk
        /\ n <= rows_in_mem - io_row /\ n <= first_undef_row - file_offset
        /\ n \in {rowsperchunk, rows_in_mem - io_row,
                  first_undef_row - file_offset,
                  rows_in_array - file_offset}
        /\ io_row \in Nat /\ file_offset \in Nat /\ cur_start_row \in Nat
        /\ first_undef_row \in Nat /\ rows_in_mem \in Nat
        /\ rowsperchunk \in Nat /\ rows_in_array \in Nat
        /\ first_undef_row <= rows_in_array
    <3>1. /\ io_row \in Nat /\ file_offset \in Nat
          /\ cur_start_row \in Nat /\ first_undef_row \in Nat
          /\ rows_in_mem \in Nat /\ rowsperchunk \in Nat
          /\ rows_in_array \in Nat \ {0}
          /\ first_undef_row <= rows_in_array
          /\ file_offset = cur_start_row + io_row /\ n > 0
      BY <1>1, <1>2, <1>3, ArrayAssumption, Zenon DEF Types, BufferOK
    <3>2. /\ n \in Int /\ n <= rowsperchunk /\ n <= rows_in_mem - io_row
          /\ n <= first_undef_row - (cur_start_row + io_row)
          /\ n \in {rowsperchunk, rows_in_mem - io_row,
                    first_undef_row - (cur_start_row + io_row),
                    rows_in_array - (cur_start_row + io_row)}
      BY <1>1, ChunkBounds, Zenon
    <3> HIDE DEF n
    <3> QED
      BY <3>1, <3>2, SMT
  <2>2. /\ io_row' = io_row + rowsperchunk /\ file_offset' = file_offset + n
        /\ state' = state /\ err' = err /\ io' = io /\ call' = call
        /\ view' = view /\ seen' = seen
    BY <1>5, Zenon DEF NextChunk, given
  <2>3. ASSUME NEW r, r \in DOMAIN store
        PROVE  /\ r \in DOMAIN store'
               /\ ~ (file_offset <= r /\ r < file_offset + n)
                     => store'[r] = store[r]
    BY <1>5, <2>3, Zenon DEF n
  <2>4. ASSUME NEW r \in Nat, file_offset <= r, r < file_offset + n
        PROVE  /\ r \in DOMAIN store'
               /\ store'[r] = mem_buffer[r - cur_start_row]
    BY <2>1, <2>4, <1>3, <1>5 DEF n
  <2> HIDE DEF n
  <2>5. Types'
    <3>1. io_row' \in Nat /\ file_offset' \in Nat
      BY <2>1, <2>2, SMT
    <3>2. store' \in [DOMAIN store' -> Value]
      <4>1. ASSUME NEW q \in DOMAIN store \cup (0 .. file_offset + n - 1)
            PROVE  (IF file_offset <= q /\ q < file_offset + n
                    THEN mem_buffer[io_row + (q - file_offset)]
                    ELSE IF q \in DOMAIN store THEN store[q] ELSE Zero)
                      \in Value
        <5>1. CASE file_offset <= q /\ q < file_offset + n
          <6>1. q \in Int
            BY <1>1, <2>1 DEF Types
          <6>2. mem_buffer \in [0 .. rows_in_mem - 1 -> Value]
            BY <1>1, <1>3, Zenon DEF BufferOK
          <6> QED
            BY <5>1, <2>1, <6>1, <6>2
        <5>2. CASE ~ (file_offset <= q /\ q < file_offset + n)
          BY <1>1, <5>2, ArrayAssumption, Zenon DEF Types
        <5> QED
          BY <5>1, <5>2
      <4> QED
        BY <1>5, <4>1, Zenon DEF n
    <3>3. DOMAIN store' \subseteq Nat
      BY <2>1, <1>5, <1>1 DEF n, Types
    <3> QED
      BY <1>1, <1>2, <2>2, <3>1, <3>2, <3>3, ZenonT(60) DEF Types
  <2>6. TransferOK'
    <3>1. ASSUME ChunkLeft' PROVE file_offset' = cur_start_row' + io_row'
      BY <3>1, <2>5, ChunkBoundsPrimed, <1>2, <1>3, <2>1, <2>2 DEF ChunkLeft
    <3>2. Transferred'
      <4> SUFFICES ASSUME NEW r \in 0 .. first_undef_row - 1,
                          cur_start_row <= r, r < cur_start_row + rows_in_mem,
                          r < cur_start_row + io_row + rowsperchunk
                   PROVE  r \in DOMAIN store'
                          /\ store'[r] = mem_buffer[r - cur_start_row]
        BY <1>2, <2>1, <2>2, SMT DEF Transferred, InBuffer
      <4>1. CASE r < file_offset
        BY <1>3, <4>1, <2>1, <2>3 DEF Transferred, InBuffer
      <4>2. CASE ~ r < file_offset
        BY <1>3, <2>1, <4>2, <2>4
      <4> QED
        BY <4>1, <4>2
    <3> QED
      BY <1>2, <1>3, <2>2, <3>1, <3>2 DEF TransferOK, InCall, View
  <2>7. Coherent'
    <3> SUFFICES ASSUME NEW r \in 0 .. first_undef_row - 1, ~ InBuffer(r)
                 PROVE  r \in DOMAIN store'
      BY <1>2, <1>3, <2>2, SMT DEF Coherent, InBuffer
    <3> QED
      BY <2>3, <1>1, <1>3, Zenon DEF Coherent
  <2>8. StoreOK'
    BY <1>1, <1>2, <2>2, Zenon DEF StoreOK
  <2> QED
    BY <2>5, <1>1, <1>2, <2>2, <2>6, <2>7, <2>8, SMT DEF IndInv, BufferOK, ViewOK,
       NoInternalError
<1> QED
  BY <1>4, <1>5, Zenon DEF FlushChunk

-----------------------------------------------------------------------------
(* When a flush is over every defined row is in the file.                  *)
LEMMA FlushedAll ==
    ASSUME IndInv, io # "none", ~ ChunkLeft
    PROVE  \A r \in 0 .. first_undef_row - 1 :
              InBuffer(r) => /\ r \in DOMAIN store
                             /\ store[r] = mem_buffer[r - cur_start_row]
<1>1. Types /\ BufferOK /\ state = "ready" /\ Transferred
  BY Zenon DEF IndInv, TransferOK
<1>2. /\ rowsperchunk \in Nat /\ rowsperchunk >= 1 /\ io_row \in Nat
      /\ cur_start_row \in Nat /\ first_undef_row \in Nat
      /\ rows_in_mem \in Nat /\ rows_in_array \in Nat
      /\ first_undef_row <= rows_in_array
  BY <1>1, ArrayAssumption, SMT DEF Types, BufferOK
<1> SUFFICES ASSUME NEW r \in 0 .. first_undef_row - 1, InBuffer(r)
             PROVE  /\ r \in DOMAIN store
                    /\ store[r] = mem_buffer[r - cur_start_row]
  OBVIOUS
<1> QED
  BY <1>1, <1>2, ChunkBounds DEF Transferred, InBuffer, ChunkLeft

(* The buffer moves over the strip v; what it held is in the file.         *)
LEMMA RepositionInv ==
    ASSUME IndInv, NEW v, InCall(v), Reposition(v), state = "ready", b_s_open,
           \A r \in 0 .. first_undef_row - 1 : r \in DOMAIN store,
           ~ dirty',
           dirty' \in BOOLEAN,
           UNCHANGED <<state, err, pre_zero, rows_in_mem, rowsperchunk,
                       first_undef_row, backing, mem_buffer, given>>
    PROVE  IndInv'
<1>1. Types /\ BufferOK /\ TransferOK /\ ViewOK /\ Coherent
      /\ StoreOK /\ NoInternalError
  BY Zenon DEF IndInv
<1>2. /\ state' = state /\ err' = err /\ pre_zero' = pre_zero
      /\ rows_in_mem' = rows_in_mem /\ rowsperchunk' = rowsperchunk
      /\ first_undef_row' = first_undef_row /\ b_s_open' = b_s_open
      /\ store' = store /\ open_stores' = open_stores
      /\ mem_buffer' = mem_buffer /\ view' = view
      /\ io' = "load" /\ io_row' = 0 /\ file_offset' = cur_start_row'
      /\ call' = v
  BY Zenon DEF Reposition, backing, given
<1>3. /\ v \in View /\ v.start \in Nat /\ v.num \in Nat
      /\ v.start + v.num <= rows_in_array /\ v.num <= maxaccess
      /\ maxaccess <= rows_in_mem /\ rows_in_mem \in Nat
      /\ cur_start_row \in Nat /\ rows_in_array \in Nat
      /\ maxaccess \in Nat
  BY <1>1, ArrayAssumption, SMT DEF InCall, View, BufferOK, Types
<1>4. /\ cur_start_row' \in Nat /\ cur_start_row' <= v.start
      /\ v.start + v.num <= cur_start_row' + rows_in_mem
  BY <1>3, SMT DEF Reposition, TopFor, Larger
<1>5. Types'
  BY <1>2, <1>4, <1>1, <1>3 DEF Types
<1>6. TransferOK'
  <2>1. file_offset' = cur_start_row' + io_row'
    BY <1>2, <1>4, Arith, Zenon
  <2>2. Transferred'
    <3>1. ASSUME NEW r \in 0 .. first_undef_row' - 1, InBuffer(r)',
                 r < cur_start_row' + io_row'
          PROVE  FALSE
      <4>1. /\ cur_start_row' <= r /\ r < cur_start_row' + io_row'
            /\ cur_start_row' \in Nat /\ io_row' = 0
        BY <1>2, <1>4, <3>1, Zenon DEF InBuffer
      <4>2. r < cur_start_row'
        BY <4>1, Arith, Zenon
      <4> QED
        BY <4>1, <4>2, SMT
    <3> QED
      BY <3>1, Zenon DEF Transferred
  <2> QED
    BY <1>2, <2>1, <2>2, <1>4, SMT DEF TransferOK, InCall, View, Covers
<1>7. Coherent'
  BY <1>2, SMT DEF Coherent
<1>8. StoreOK'
  BY <1>1, <1>2, Zenon DEF StoreOK
<1> QED
  BY <1>5, <1>1, <1>2, <1>6, <1>7, <1>8, SMT DEF IndInv, BufferOK, ViewOK, NoInternalError

LEMMA FlushDoneInv ==
    ASSUME IndInv, FlushDone
    PROVE  IndInv'
BY FlushedAll, RepositionInv DEF FlushDone, IndInv, TransferOK, Coherent

(* read_backing_store: every row the load wants is in the file.            *)
LEMMA LoadChunkInv ==
    ASSUME IndInv, LoadChunk
    PROVE  IndInv' /\ (state' = "ready" => UNCHANGED <<state, store>>)
<1>1. Types /\ BufferOK /\ TransferOK /\ ViewOK /\ Coherent
      /\ StoreOK /\ NoInternalError
  BY Zenon DEF IndInv
<1>2. /\ io = "load" /\ io_row < rows_in_mem /\ ChunkRows > 0
      /\ pre_zero' = pre_zero /\ rows_in_mem' = rows_in_mem
      /\ rowsperchunk' = rowsperchunk /\ cur_start_row' = cur_start_row
      /\ first_undef_row' = first_undef_row /\ dirty' = dirty
      /\ b_s_open' = b_s_open /\ open_stores' = open_stores
      /\ store' = store
  BY Zenon DEF LoadChunk, control, backing, ChunkLeft
<1>3. /\ state = "ready" /\ b_s_open /\ InCall(call) /\ ~ dirty
      /\ file_offset = cur_start_row + io_row /\ Transferred /\ Covers(call)
  BY <1>1, <1>2, SMT DEF TransferOK, ChunkLeft
<1>4. \A r \in 0 .. first_undef_row - 1 : r \in DOMAIN store
  BY <1>1, <1>3, Zenon DEF Coherent
<1> DEFINE n == ChunkRows
<1>5. /\ n \in Nat /\ n >= 1 /\ n <= rowsperchunk
      /\ n <= rows_in_mem - io_row /\ n <= first_undef_row - file_offset
      /\ n \in {rowsperchunk, rows_in_mem - io_row,
                first_undef_row - file_offset,
                rows_in_array - file_offset}
      /\ io_row \in Nat /\ file_offset \in Nat /\ cur_start_row \in Nat
      /\ first_undef_row \in Nat /\ rows_in_mem \in Nat
      /\ rowsperchunk \in Nat /\ rows_in_array \in Nat
      /\ first_undef_row <= rows_in_array
  <2>1. /\ io_row \in Nat /\ file_offset \in Nat
        /\ cur_start_row \in Nat /\ first_undef_row \in Nat
        /\ rows_in_mem \in Nat /\ rowsperchunk \in Nat
        /\ rows_in_array \in Nat \ {0}
        /\ first_undef_row <= rows_in_array
        /\ file_offset = cur_start_row + io_row /\ n > 0
    BY <1>1, <1>2, <1>3, ArrayAssumption, Zenon DEF Types, BufferOK
  <2>2. /\ n \in Int /\ n <= rowsperchunk /\ n <= rows_in_mem - io_row
        /\ n <= first_undef_row - (cur_start_row + io_row)
        /\ n \in {rowsperchunk, rows_in_mem - io_row,
                  first_undef_row - (cur_start_row + io_row),
                  rows_in_array - (cur_start_row + io_row)}
    BY <1>1, ChunkBounds, Zenon
  <2> HIDE DEF n
  <2> QED
    BY <2>1, <2>2, SMT
<1>6. CASE Raise("TFILE_READ")
  BY <1>1, <1>2, <1>3, <1>6, RaiseInv DEF Types, StoreOK, Raise
<1>7. CASE /\ mem_buffer' =
                [i \in DOMAIN mem_buffer |->
                   IF io_row <= i /\ i < io_row + ChunkRows
                   THEN store[file_offset + (i - io_row)]
                   ELSE mem_buffer[i]]
           /\ NextChunk
           /\ UNCHANGED <<state, err, io, call, given>>
  <2>1. /\ io_row' = io_row + rowsperchunk /\ file_offset' = file_offset + n
        /\ state' = state /\ err' = err /\ io' = io /\ call' = call
        /\ view' = view /\ seen' = seen
    BY <1>7, Zenon DEF NextChunk, given
  <2>2. mem_buffer' = [i \in 0 .. rows_in_mem - 1 |->
                         IF io_row <= i /\ i < io_row + n
                         THEN store[file_offset + (i - io_row)]
                         ELSE mem_buffer[i]]
    BY <1>1, <1>3, <1>7, Zenon DEF BufferOK, n
  <2> HIDE DEF n
  <2>3. mem_buffer' \in [0 .. rows_in_mem - 1 -> Value]
    <3>1. ASSUME NEW i \in 0 .. rows_in_mem - 1
          PROVE  (IF io_row <= i /\ i < io_row + n
                  THEN store[file_offset + (i - io_row)]
                  ELSE mem_buffer[i]) \in Value
      <4>1. CASE io_row <= i /\ i < io_row + n
        BY <1>5, <4>1, <1>1, <1>4 DEF Types
      <4>2. CASE ~ (io_row <= i /\ i < io_row + n)
        BY <1>1, <1>3, <4>2, Zenon DEF BufferOK
      <4> QED
        BY <4>1, <4>2
    <3> QED
      BY <2>2, <3>1, Zenon
  <2>4. Types'
    <3>1. io_row' \in Nat /\ file_offset' \in Nat
      BY <1>5, <2>1, SMT
    <3> QED
      BY <1>1, <1>2, <2>1, <3>1, ZenonT(60) DEF Types
  <2>5. TransferOK'
    <3>1. ASSUME ChunkLeft' PROVE file_offset' = cur_start_row' + io_row'
      BY <3>1, <2>4, ChunkBoundsPrimed, <1>2, <1>3, <1>5, <2>1 DEF ChunkLeft
    <3>2. Transferred'
      <4> SUFFICES ASSUME NEW r \in 0 .. first_undef_row - 1,
                          cur_start_row <= r, r < cur_start_row + rows_in_mem,
                          r < cur_start_row + io_row + rowsperchunk
                   PROVE  store[r] = mem_buffer'[r - cur_start_row]
        BY <1>2, <1>4, <1>5, <2>1, SMT DEF Transferred, InBuffer
      <4>1. r - cur_start_row \in 0 .. rows_in_mem - 1
        BY <1>5, SMT
      <4>2. CASE r < file_offset
        <5>1. store[r] = mem_buffer[r - cur_start_row]
          BY <1>3, <4>2, SMT DEF Transferred, InBuffer
        <5>2. ~ io_row <= r - cur_start_row
          BY <1>3, <1>5, <4>2, SMT
        <5> QED
          BY <2>2, <4>1, <5>1, <5>2, Zenon
      <4>3. CASE ~ r < file_offset
        <5>1. /\ io_row <= r - cur_start_row
              /\ r - cur_start_row < io_row + n
              /\ file_offset + ((r - cur_start_row) - io_row) = r
          BY <1>3, <1>5, <4>3, SMT
        <5> QED
          BY <2>2, <4>1, <5>1, Zenon
      <4> QED
        BY <4>2, <4>3
    <3> QED
      BY <1>2, <1>3, <2>1, <3>1, <3>2 DEF TransferOK, InCall, View, Covers
  <2>6. ViewOK' /\ NoInternalError'
    BY <1>1, <1>2, <2>1, SMT DEF ViewOK, NoInternalError
  <2>7. Coherent'
    BY <1>2, <1>4, <2>1, SMT DEF Coherent
  <2>8. StoreOK'
    BY <1>1, <1>2, <2>1, Zenon DEF StoreOK
  <2> QED
    BY <1>2, <2>1, <2>4, <1>1, <2>3, <2>5, <2>6, <2>7, <2>8, Zenon DEF IndInv, BufferOK
<1> QED
  BY <1>5, <1>4, <1>6, <1>7 DEF LoadChunk, n

-----------------------------------------------------------------------------
(* The strip is in the buffer and is handed out.                           *)
LEMMA GrantInv ==
    ASSUME IndInv, NEW v, InCall(v), Covers(v), Grant(v), state = "ready",
           io = "none" \/ (io = "load" /\ ~ ChunkLeft)
    PROVE  IndInv'
<1>1. Types /\ BufferOK /\ TransferOK /\ ViewOK /\ Coherent
      /\ StoreOK /\ NoInternalError
  BY Zenon DEF IndInv
<1>2. /\ b_s_open' = b_s_open /\ store' = store /\ open_stores' = open_stores
  BY Zenon DEF Grant, backing
<1>3. CASE Misused(v)
  BY <1>3, <1>1, <1>2, RaiseInv DEF Grant, control, Types, StoreOK
<1>4. CASE ~ Misused(v)
  <2>1. /\ mem_buffer' =
             [i \in DOMAIN mem_buffer |->
                IF /\ pre_zero
                   /\ Larger(first_undef_row, v.start) <= cur_start_row + i
                   /\ cur_start_row + i < v.start + v.num
                THEN Zero ELSE mem_buffer[i]]
        /\ first_undef_row' = DefinedBy(v) /\ dirty' = DirtiedBy(v)
        /\ view' = v /\ io' = "none" /\ io_row' = 0 /\ file_offset' = 0
        /\ call' = NoView
        /\ state' = state /\ err' = err /\ pre_zero' = pre_zero
        /\ rows_in_mem' = rows_in_mem /\ rowsperchunk' = rowsperchunk
        /\ cur_start_row' = cur_start_row
    BY <1>4, Zenon DEF Grant
  <2>2. /\ v \in View /\ v.start \in Nat /\ v.num \in Nat
        /\ v.writable \in BOOLEAN
        /\ v.start + v.num <= rows_in_array /\ v.num <= maxaccess
        /\ cur_start_row <= v.start
        /\ v.start + v.num <= cur_start_row + rows_in_mem
        /\ rows_in_mem \in Nat /\ cur_start_row \in Nat
        /\ first_undef_row \in Nat /\ first_undef_row <= rows_in_array
        /\ rows_in_array \in Nat
    BY <1>1, ArrayAssumption, SMT DEF InCall, View, BufferOK, Types, Covers
  <2>3. /\ first_undef_row' \in Nat /\ first_undef_row' <= rows_in_array
        /\ first_undef_row <= first_undef_row'
        /\ first_undef_row' # first_undef_row
              => /\ v.writable /\ first_undef_row' = v.start + v.num
        /\ v.writable => v.start + v.num <= first_undef_row'
    BY <2>1, <2>2, SMT DEF DefinedBy, Larger
  <2>4. /\ dirty' \in BOOLEAN /\ (v.writable => dirty') /\ (dirty => dirty')
        /\ (~ dirty /\ ~ v.writable => ~ dirty')
    BY <2>1, Zenon DEF DirtiedBy
  <2>5. Types'
    BY <2>1, <1>1, <1>2, <2>2, <2>3, <2>4 DEF Types
  <2>6. BufferOK'
    BY <1>1, <2>1, ArrayAssumption, <1>2, <2>3, Zenon DEF BufferOK
  <2>7. ViewOK'
    BY <2>1, <2>2, <2>3, <2>4, SMT DEF ViewOK, Covers
  <2>8. ASSUME NEW r \in 0 .. first_undef_row - 1, InBuffer(r)
        PROVE  mem_buffer'[r - cur_start_row] = mem_buffer[r - cur_start_row]
    BY <2>2, <2>8, <1>1, <2>1 DEF InBuffer, BufferOK, Larger
  <2>9. Coherent'
    <3> SUFFICES ASSUME NEW r \in 0 .. first_undef_row' - 1
                 PROVE  /\ ~ InBuffer(r) \/ ~ dirty' => r \in DOMAIN store
                        /\ InBuffer(r) /\ ~ dirty'
                              => store[r] = mem_buffer'[r - cur_start_row]
      BY <1>2, <2>1, SMT DEF Coherent, InBuffer
    <3>1. CASE r < first_undef_row
      <4>1. r \in 0 .. first_undef_row - 1
        BY <2>2, <3>1, SMT
      <4>2. ASSUME InBuffer(r), ~ dirty'
            PROVE  store[r] = mem_buffer'[r - cur_start_row]
        BY <1>1, <2>4, <4>1, <4>2, FlushedAll, <2>8 DEF Coherent
      <4> QED
        BY <1>1, <2>4, <4>1, <4>2 DEF Coherent
    <3>2. CASE ~ r < first_undef_row
      <4>1. /\ r \in Nat /\ first_undef_row <= r /\ r < first_undef_row'
            /\ first_undef_row' # first_undef_row
        <5>1. first_undef_row \in Nat /\ first_undef_row' \in Nat
          BY <2>2, <2>3, Zenon
        <5>2. r \in Nat /\ r < first_undef_row'
          BY <5>1, Arith, Zenon
        <5> QED
          BY <5>1, <5>2, <3>2, SMT
      <4>2. v.writable /\ r < v.start + v.num /\ dirty'
        BY <2>3, <2>4, <4>1, Zenon
      <4> QED
        BY <4>2, <2>2, <1>4, <4>1 DEF Misused, InBuffer
    <3> QED
      BY <3>1, <3>2
  <2> QED
    BY <2>5, <2>6, <1>1, <2>1, <2>7, <2>9, <1>2 DEF IndInv, TransferOK, NoInternalError,
       StoreOK
<1> QED
  BY <1>3, <1>4, Zenon

LEMMA LoadDoneInv ==
    ASSUME IndInv, LoadDone
    PROVE  IndInv'
BY GrantInv DEF LoadDone, IndInv, TransferOK

(* What is wrong with an access that fails at once is always its           *)
(* arguments: an array without a backing store is in the buffer entirely.  *)
LEMMA NoVirtualBug ==
    ASSUME IndInv, state = "ready", ~ b_s_open,
           NEW v \in View, v.start + v.num <= rows_in_array
    PROVE  Covers(v)
BY ArrayAssumption DEF IndInv, BufferOK, View, Covers

LEMMA AccessInv ==
    ASSUME IndInv, NEW v \in View, Access(v)
    PROVE  IndInv'
<1>1. Types /\ BufferOK /\ TransferOK /\ ViewOK /\ Coherent
      /\ StoreOK /\ NoInternalError
  BY Zenon DEF IndInv
<1> DEFINE bad == \/ v.start + v.num > rows_in_array
                  \/ v.num > maxaccess
                  \/ state = "requested"
           hit == /\ cur_start_row <= v.start
                  /\ v.start + v.num <= cur_start_row + rows_in_mem
<1>2. state \in {"requested", "ready"} /\ io = "none"
  BY Zenon DEF Access
<1>3. ASSUME ~ bad PROVE state = "ready" /\ InCall(v)
  BY ArrayAssumption, <1>2, <1>3 DEF View, InCall
<1>4. hit <=> Covers(v)
  BY DEF Covers
<1> HIDE DEF bad, hit
<1>5. ASSUME ~ bad, ~ hit PROVE b_s_open
  BY <1>3, <1>5, <1>4, NoVirtualBug, Zenon DEF InCall
<1>6. CASE /\ Raise(IF bad THEN "BAD_VIRTUAL_ACCESS" ELSE "VIRTUAL_BUG")
           /\ bad \/ (~ hit /\ ~ b_s_open)
           /\ UNCHANGED <<control, backing, mem_buffer>>
  BY <1>6, <1>1, <1>2, <1>5, RaiseInv, SMT DEF control, backing, StoreOK, Types
<1>7. CASE ~ bad /\ hit /\ Grant(v)
  BY <1>2, <1>3, <1>4, <1>7, GrantInv, Zenon
<1>8. CASE /\ ~ bad /\ ~ hit /\ b_s_open /\ dirty
           /\ io' = "flush" /\ io_row' = 0 /\ file_offset' = cur_start_row
           /\ call' = v
           /\ UNCHANGED <<state, err, control, backing, mem_buffer, given>>
  <2>1. /\ state' = state /\ err' = err /\ pre_zero' = pre_zero
        /\ rows_in_mem' = rows_in_mem /\ rowsperchunk' = rowsperchunk
        /\ cur_start_row' = cur_start_row
        /\ first_undef_row' = first_undef_row /\ dirty' = dirty
        /\ b_s_open' = b_s_open /\ store' = store
        /\ open_stores' = open_stores /\ mem_buffer' = mem_buffer
        /\ view' = view /\ state = "ready" /\ InCall(v)
    BY <1>3, <1>8, Zenon DEF control, backing, given
  <2>2. cur_start_row \in Nat
    BY <1>1, Zenon DEF Types
  <2>3. TransferOK'
    BY <1>8, <2>1, <2>2 DEF InCall, View, Transferred, InBuffer, TransferOK
  <2>4. ViewOK' /\ Coherent' /\ NoInternalError'
    BY <1>1, <1>2, <1>8, <2>1, SMT
       DEF ViewOK, Coherent, NoInternalError, InBuffer
  <2> QED
    BY <1>8, <2>2, <1>1, <2>1, <2>3, <2>4 DEF IndInv, BufferOK, StoreOK, Types
<1>9. CASE /\ ~ bad /\ ~ hit /\ b_s_open /\ ~ dirty
           /\ Reposition(v)
           /\ UNCHANGED <<state, err, pre_zero, rows_in_mem, rowsperchunk,
                          first_undef_row, dirty, backing, mem_buffer,
                          given>>
  BY <1>1, <1>9, <1>3, RepositionInv, Zenon DEF Types, Coherent
<1> QED
  BY <1>6, <1>7, <1>8, <1>9, Zenon DEF Access, bad, hit

(* The caller stores into a row it was given for writing.                  *)
LEMMA WriteInv ==
    ASSUME IndInv, NEW r \in 0 .. rows_in_array - 1, NEW x \in Value,
           Write(r, x)
    PROVE  IndInv'
<1>1. Types /\ BufferOK /\ TransferOK /\ ViewOK /\ Coherent
      /\ StoreOK /\ NoInternalError
  BY Zenon DEF IndInv
<1>2. /\ state = "ready" /\ io = "none" /\ view.writable /\ r \in Strip(view)
      /\ mem_buffer' = [mem_buffer EXCEPT ![r - cur_start_row] = x]
      /\ state' = state /\ err' = err /\ pre_zero' = pre_zero
      /\ rows_in_mem' = rows_in_mem /\ rowsperchunk' = rowsperchunk
      /\ cur_start_row' = cur_start_row
      /\ first_undef_row' = first_undef_row /\ dirty' = dirty
      /\ b_s_open' = b_s_open /\ store' = store
      /\ open_stores' = open_stores /\ io' = io /\ io_row' = io_row
      /\ file_offset' = file_offset /\ call' = call /\ view' = view
  BY Zenon DEF Write, control, backing, loop
<1>3. TransferOK' /\ ViewOK' /\ NoInternalError'
  BY <1>1, <1>2, SMT DEF TransferOK, ViewOK, NoInternalError, Covers
<1>4. Coherent'
  BY <1>1, <1>2 DEF Coherent, InBuffer, ViewOK
<1>5. StoreOK'
  BY <1>1, <1>2, Zenon DEF StoreOK
<1> QED
  BY <1>1, <1>2, <1>3, <1>4, <1>5, Zenon DEF IndInv, Types, BufferOK

LEMMA NextInv == IndInv /\ [Next]_vars => IndInv'
<1> SUFFICES ASSUME IndInv, [Next]_vars PROVE IndInv'
  OBVIOUS
<1>1. CASE UNCHANGED vars
  BY <1>1, SMT DEF vars, control, backing, loop, given, IndInv, Types,
     BufferOK, TransferOK, ViewOK, Coherent, StoreOK, NoInternalError,
     InCall, Covers, Transferred, InBuffer, ChunkLeft, ChunkRows, View
<1>2. CASE Next
  BY <1>2, RequestInv, RealizeInv, AccessInv, FlushChunkInv, FlushDoneInv,
     LoadChunkInv, LoadDoneInv, WriteInv, FreeInv, Zenon DEF Next, Transfer
<1> QED
  BY <1>1, <1>2

-----------------------------------------------------------------------------
(* The rows the buffer and the file hold are exactly the defined ones.     *)
LEMMA ContentsIs ==
    ASSUME IndInv, state = "ready"
    PROVE  /\ Contents = [r \in 0 .. first_undef_row - 1 |->
                            IF InBuffer(r) /\ io # "load"
                            THEN mem_buffer[r - cur_start_row]
                            ELSE store[r]]
           /\ DOMAIN Contents = 0 .. first_undef_row - 1
BY Zenon DEF IndInv, TransferOK, Coherent, Buffered, Contents

LEMMA ContentsIsPrimed ==
    ASSUME IndInv', state' = "ready"
    PROVE  Contents' = [r \in 0 .. first_undef_row' - 1 |->
                          IF InBuffer(r)' /\ io' # "load"
                          THEN mem_buffer'[r - cur_start_row']
                          ELSE store'[r]]
BY Zenon DEF IndInv, TransferOK, Coherent, Buffered, Contents

(* A transfer in progress does not change what the two hold together.      *)
LEMMA Stutters ==
    ASSUME IndInv, IndInv', state = "ready", state' = "ready",
           first_undef_row' = first_undef_row,
           \A r \in 0 .. first_undef_row - 1 :
              (IF InBuffer(r)' /\ io' # "load"
               THEN mem_buffer'[r - cur_start_row'] ELSE store'[r])
              = (IF InBuffer(r) /\ io # "load"
                 THEN mem_buffer[r - cur_start_row] ELSE store[r])
    PROVE  Contents' = Contents
BY ContentsIs, ContentsIsPrimed, Zenon

LEMMA RaiseFails ==
    ASSUME NEW e, Raise(e), state \in {"requested", "ready"},
           pre_zero' = pre_zero
    PROVE  Array!Fail
BY DEF Raise, Array!Fail, Contents, Array!NoRows, NoRows, Array!NoView, NoView

LEMMA InitRefines == Init => Array!Init
<1> SUFFICES ASSUME Init PROVE Array!Init
  OBVIOUS
<1> QED
  BY DEF Init, Array!Init, Contents, NoRows, Array!NoRows, NoView, Array!NoView

LEMMA RequestRefines ==
    ASSUME NEW z \in BOOLEAN, RequestVirtArray(z)
    PROVE  Array!Request(z)
BY DEF RequestVirtArray, given, Array!Request, Contents

LEMMA RealizeRefines ==
    ASSUME NEW m \in Heights, Realize(m)
    PROVE  Array!Fail \/ Array!Realize
BY RaiseFails DEF Realize, given, Contents, NoRows, Array!Realize

LEMMA FreeRefines ==
    ASSUME FreePool
    PROVE  Array!Free
BY DEF FreePool, Array!Free, Contents, NoRows, Array!NoRows, NoView, Array!NoView

LEMMA WriteRefines ==
    ASSUME IndInv, IndInv',
           NEW r \in 0 .. rows_in_array - 1, NEW x \in Value, Write(r, x)
    PROVE  Array!Write(r, x)
<1>1. /\ state = "ready" /\ io = "none" /\ view.writable /\ r \in Strip(view)
      /\ mem_buffer' = [mem_buffer EXCEPT ![r - cur_start_row] = x]
      /\ state' = state /\ pre_zero' = pre_zero
      /\ rows_in_mem' = rows_in_mem /\ cur_start_row' = cur_start_row
      /\ first_undef_row' = first_undef_row
      /\ store' = store /\ io' = io /\ view' = view /\ seen' = NoRows
  BY Zenon DEF Write, control, backing, loop
<1>2. /\ cur_start_row \in Nat /\ rows_in_mem \in Nat
      /\ first_undef_row \in Nat
      /\ mem_buffer \in [0 .. rows_in_mem - 1 -> Value]
      /\ Covers(view) /\ view.start + view.num <= first_undef_row
      /\ view.start \in Nat /\ view.num \in Nat
  <2>1. /\ cur_start_row \in Nat /\ rows_in_mem \in Nat
        /\ first_undef_row \in Nat
        /\ mem_buffer \in [0 .. rows_in_mem - 1 -> Value]
        /\ Covers(view) /\ view.start + view.num <= first_undef_row
        /\ view \in View \cup {NoView}
    BY <1>1, Zenon DEF IndInv, Types, BufferOK, ViewOK
  <2> QED
    BY <2>1, ArrayAssumption, SMT DEF View, NoView
<1>3. InBuffer(r) /\ r \in 0 .. first_undef_row - 1
  BY <1>1, <1>2, SMT DEF Strip, Covers, InBuffer
<1>4. Contents' = [Contents EXCEPT ![r] = x]
  <2>1. ASSUME NEW q \in 0 .. first_undef_row - 1, InBuffer(q)
        PROVE  mem_buffer'[q - cur_start_row]
                 = IF q = r THEN x ELSE mem_buffer[q - cur_start_row]
    BY <1>1, <1>2, <1>3, <2>1, SMT DEF InBuffer
  <2> QED
    BY <1>3, <1>1, ContentsIs, ContentsIsPrimed, <2>1 DEF InBuffer
<1> QED
  BY <1>1, <1>4, Zenon DEF Array!Write, Array!StripRows, Strip, NoRows,
     Array!NoRows

(* A strip handed out holds the rows of the array, and a writer's strip    *)
(* extends it.                                                             *)
LEMMA GrantRefines ==
    ASSUME IndInv, IndInv', NEW v, InCall(v), Covers(v), Grant(v),
           state = "ready", io = "none" \/ (io = "load" /\ ~ ChunkLeft)
    PROVE  Array!Fail \/ Array!Access(v)
<1>1. Types /\ BufferOK /\ TransferOK /\ ViewOK /\ Coherent
  BY Zenon DEF IndInv
<1>2. CASE Misused(v)
  BY <1>2, RaiseFails DEF Grant, control
<1>3. CASE ~ Misused(v)
  <2> DEFINE end == v.start + v.num
             fu == first_undef_row
             old(r) == IF InBuffer(r) /\ io # "load"
                       THEN mem_buffer[r - cur_start_row] ELSE store[r]
             rows == Strip(v)
  <2>1. /\ mem_buffer' =
             [i \in DOMAIN mem_buffer |->
                IF /\ pre_zero
                   /\ Larger(first_undef_row, v.start) <= cur_start_row + i
                   /\ cur_start_row + i < v.start + v.num
                THEN Zero ELSE mem_buffer[i]]
        /\ first_undef_row' = DefinedBy(v)
        /\ view' = v /\ io' = "none"
        /\ seen' = [r \in Strip(v) |-> mem_buffer'[r - cur_start_row]]
        /\ state' = state /\ pre_zero' = pre_zero
        /\ rows_in_mem' = rows_in_mem /\ cur_start_row' = cur_start_row
        /\ store' = store
    BY <1>3, Zenon DEF Grant, backing
  <2>2. /\ v \in View /\ v.start \in Nat /\ v.num \in Nat
        /\ v.writable \in BOOLEAN
        /\ end <= rows_in_array /\ v.num <= maxaccess
        /\ cur_start_row <= v.start /\ end <= cur_start_row + rows_in_mem
        /\ rows_in_mem \in Nat /\ cur_start_row \in Nat
        /\ fu \in Nat /\ fu <= rows_in_array
        /\ rows_in_array \in Nat
    BY <1>1, ArrayAssumption, SMT DEF InCall, View, BufferOK, Types, Covers
  <2>3. /\ v.writable => v.start <= fu
        /\ ~ v.writable /\ ~ pre_zero => end <= fu
    BY <1>3, <2>2 DEF Misused
  <2>4. DOMAIN mem_buffer = 0 .. rows_in_mem - 1
        /\ mem_buffer \in [0 .. rows_in_mem - 1 -> Value]
    BY <1>1, Zenon DEF BufferOK
  <2>5. ASSUME NEW r \in rows
        PROVE  /\ r \in Nat /\ v.start <= r /\ r < end
               /\ r - cur_start_row \in 0 .. rows_in_mem - 1
               /\ cur_start_row + (r - cur_start_row) = r
               /\ InBuffer(r)
    BY <2>2, <2>5, SMT DEF Strip, InBuffer
  <2>6. ASSUME NEW r \in rows
        PROVE  mem_buffer'[r - cur_start_row]
                 = IF pre_zero /\ Larger(fu, v.start) <= r
                   THEN Zero ELSE mem_buffer[r - cur_start_row]
    BY <2>1, <2>4, <2>5, <2>6, Zenon
  <2>7. ASSUME NEW r \in 0 .. fu - 1, InBuffer(r)
        PROVE  old(r) = mem_buffer[r - cur_start_row]
    BY <2>7, FlushedAll
  <2>8. ASSUME NEW r \in 0 .. fu - 1, InBuffer(r)
        PROVE  mem_buffer'[r - cur_start_row] = mem_buffer[r - cur_start_row]
    BY <2>2, <2>8, <2>1, <2>4 DEF InBuffer, Larger
  <2>9. Contents = [r \in 0 .. fu - 1 |-> old(r)]
        /\ DOMAIN Contents = 0 .. fu - 1
    BY ContentsIs, Zenon
  <2>10. Contents' = [r \in 0 .. first_undef_row' - 1 |->
                        IF InBuffer(r) THEN mem_buffer'[r - cur_start_row]
                                       ELSE store[r]]
    BY <2>1, ContentsIsPrimed DEF InBuffer
  <2>11. 0 .. first_undef_row' - 1 =
           (0 .. fu - 1) \cup (IF v.writable THEN rows ELSE {})
    BY <2>1, <2>3, <2>2 DEF DefinedBy, Larger, Strip
  <2>12. seen' \in [rows -> Value]
    BY <2>4, <2>5, <2>6, ArrayAssumption, <2>1, Zenon
  <2>13. ASSUME NEW r \in rows
         PROVE  /\ r \in 0 .. fu - 1 => seen'[r] = old(r)
                /\ r \notin 0 .. fu - 1 /\ pre_zero => seen'[r] = Zero
    <3>1. seen'[r] = mem_buffer'[r - cur_start_row]
      BY <2>1, Zenon
    <3>2. ASSUME r \in 0 .. fu - 1 PROVE seen'[r] = old(r)
      BY <2>5, <2>7, <2>8, <3>1, <3>2, Zenon
    <3>3. ASSUME r \notin 0 .. fu - 1, pre_zero PROVE seen'[r] = Zero
      BY <2>2, <2>5, <3>3, <2>6, <3>1 DEF Larger
    <3> QED
      BY <3>2, <3>3
  <2>14. Contents' = [r \in DOMAIN Contents \cup
                              (IF v.writable THEN rows ELSE {}) |->
                        IF r \in DOMAIN Contents THEN Contents[r]
                                                 ELSE seen'[r]]
    <3> SUFFICES ASSUME NEW r \in 0 .. first_undef_row' - 1
                 PROVE  (IF InBuffer(r) THEN mem_buffer'[r - cur_start_row]
                                        ELSE store[r])
                          = IF r \in 0 .. fu - 1 THEN old(r) ELSE seen'[r]
      BY <2>9, <2>10, <2>11, Zenon
    <3>1. CASE r \in 0 .. fu - 1
      BY <2>7, <2>8, <3>1
    <3>2. CASE r \notin 0 .. fu - 1
      BY <2>11, <3>2, <2>5, <2>1
    <3> QED
      BY <3>1, <3>2
  <2>15. v.writable \/ ~ pre_zero
           => \A r \in 0 .. (IF v.writable THEN v.start ELSE end) - 1 :
                 r \in DOMAIN Contents
    <3>1. ASSUME NEW k \in Nat, k <= fu, NEW r \in 0 .. k - 1
          PROVE  r \in DOMAIN Contents
      BY <2>2, <2>9, <3>1, SMT
    <3>2. v.start \in Nat /\ end \in Nat
      BY <2>2, SMT
    <3>3. CASE v.writable
      BY <2>3, <3>1, <3>2, <3>3, Zenon
    <3>4. CASE ~ v.writable
      BY <2>3, <3>1, <3>2, <3>4, Zenon
    <3> QED
      BY <3>3, <3>4
  <2>16. \E new \in [rows -> Value] :
            /\ \A r \in rows :
                  /\ r \in DOMAIN Contents => new[r] = Contents[r]
                  /\ r \notin DOMAIN Contents /\ pre_zero => new[r] = Zero
            /\ seen' = new
            /\ Contents' = [r \in DOMAIN Contents \cup
                                    (IF v.writable THEN rows ELSE {}) |->
                              IF r \in DOMAIN Contents THEN Contents[r]
                                                       ELSE new[r]]
    BY <2>9, <2>13, <2>12, <2>14, Zenon
  <2> HIDE DEF rows
  <2> QED
    BY <2>1, <2>2, <2>15, <2>16 DEF Array!Access, Array!StripRows, Strip
<1> QED
  BY <1>2, <1>3

(* The steps that only move rows between the buffer and the file.          *)
StutterStep == UNCHANGED Array!vars

LEMMA FlushChunkRefines ==
    ASSUME IndInv, IndInv', FlushChunk
    PROVE  Array!Fail \/ StutterStep
<1>1. /\ io = "flush" /\ ChunkLeft /\ state = "ready" /\ Coherent /\ Types
      /\ file_offset = cur_start_row + io_row
  BY SMT DEF FlushChunk, IndInv, TransferOK
<1>2. /\ pre_zero' = pre_zero /\ rows_in_mem' = rows_in_mem
      /\ cur_start_row' = cur_start_row /\ first_undef_row' = first_undef_row
      /\ mem_buffer' = mem_buffer
  BY Zenon DEF FlushChunk, control
<1>3. CASE Raise("TFILE_WRITE")
  BY <1>1, <1>2, <1>3, RaiseFails
<1>4. CASE /\ store' =
               [q \in DOMAIN store \cup (0 .. file_offset + ChunkRows - 1) |->
                  IF file_offset <= q /\ q < file_offset + ChunkRows
                  THEN mem_buffer[io_row + (q - file_offset)]
                  ELSE IF q \in DOMAIN store THEN store[q] ELSE Zero]
           /\ UNCHANGED <<state, err, io, call, given>>
  <2>1. /\ cur_start_row \in Nat /\ io_row \in Nat /\ rows_in_mem \in Nat
        /\ ChunkRows \in Int /\ ChunkRows <= rows_in_mem - io_row
    BY <1>1, ChunkBounds, Zenon DEF Types
  <2>2. ASSUME NEW r \in 0 .. first_undef_row - 1, ~ InBuffer(r)
        PROVE  store'[r] = store[r]
    BY <2>2, <1>1, <2>1, <1>4 DEF InBuffer, Coherent
  <2>3. state' = "ready" /\ io' = io /\ view' = view /\ seen' = seen
    BY <1>1, <1>4, Zenon DEF given
  <2>4. \A r \in 0 .. first_undef_row - 1 :
          (IF InBuffer(r)' /\ io' # "load"
           THEN mem_buffer'[r - cur_start_row'] ELSE store'[r])
          = (IF InBuffer(r) /\ io # "load"
             THEN mem_buffer[r - cur_start_row] ELSE store[r])
    BY <1>2, <2>2, <1>1, <2>3, SMT DEF InBuffer
  <2> QED
    BY <1>1, <1>2, <2>3, <2>4, Stutters, Zenon DEF StutterStep, Array!vars
<1> QED
  BY <1>3, <1>4, Zenon DEF FlushChunk

LEMMA RepositionRefines ==
    ASSUME IndInv, IndInv', NEW v, Reposition(v), state = "ready",
           io # "load",
           \A r \in 0 .. first_undef_row - 1 :
              InBuffer(r) => store[r] = mem_buffer[r - cur_start_row],
           UNCHANGED <<state, err, pre_zero, rows_in_mem, rowsperchunk,
                       first_undef_row, backing, mem_buffer, given>>
    PROVE  StutterStep
BY Stutters, Zenon DEF Reposition, backing, given, StutterStep, Array!vars

LEMMA FlushDoneRefines ==
    ASSUME IndInv, IndInv', FlushDone
    PROVE  StutterStep
BY FlushedAll, RepositionRefines DEF FlushDone, IndInv, TransferOK

LEMMA LoadChunkRefines ==
    ASSUME IndInv, IndInv', LoadChunk
    PROVE  Array!Fail \/ StutterStep
<1>1. io = "load" /\ state = "ready"
  BY SMT DEF LoadChunk, IndInv, TransferOK
<1>2. /\ pre_zero' = pre_zero /\ first_undef_row' = first_undef_row
      /\ store' = store
  BY Zenon DEF LoadChunk, control, backing
<1>3. ASSUME NEW e, Raise(e) PROVE Array!Fail
  BY <1>1, <1>2, <1>3, RaiseFails
<1>4. CASE UNCHANGED <<state, err, io, call, given>>
  BY <1>1, <1>4, <1>2, Stutters, Zenon DEF given, StutterStep, Array!vars
<1> QED
  BY <1>3, <1>4, Zenon DEF LoadChunk

LEMMA LoadDoneRefines ==
    ASSUME IndInv, IndInv', LoadDone
    PROVE  Array!Fail \/ \E v \in Array!View : Array!Access(v)
BY ArrayAssumption, GrantRefines DEF LoadDone, IndInv, TransferOK, InCall, View,
   Array!View

LEMMA AccessRefines ==
    ASSUME IndInv, IndInv', NEW v \in View, Access(v)
    PROVE  \/ Array!Fail \/ StutterStep
           \/ \E w \in Array!View : Array!Access(w)
<1> DEFINE bad == \/ v.start + v.num > rows_in_array
                  \/ v.num > maxaccess
                  \/ state = "requested"
           hit == /\ cur_start_row <= v.start
                  /\ v.start + v.num <= cur_start_row + rows_in_mem
<1>1. state \in {"requested", "ready"} /\ io = "none"
  BY Zenon DEF Access
<1>2. ASSUME ~ bad PROVE state = "ready" /\ InCall(v) /\ v \in Array!View
  BY <1>1, <1>2, ArrayAssumption, SMT DEF InCall, View, Array!View
<1>3. ASSUME NEW e, Raise(e), UNCHANGED control PROVE Array!Fail
  BY <1>1, <1>3, RaiseFails, Zenon DEF control
<1>4. CASE ~ bad /\ hit /\ Grant(v)
  BY <1>4, <1>1, <1>2, GrantRefines, Zenon DEF Covers
<1>5. CASE /\ ~ bad /\ io' = "flush"
           /\ UNCHANGED <<state, err, control, backing, mem_buffer, given>>
  BY <1>2, <1>5, <1>1, Stutters DEF control, backing, given, InBuffer, StutterStep,
     Array!vars
<1>6. CASE /\ ~ bad /\ ~ dirty /\ Reposition(v)
           /\ UNCHANGED <<state, err, pre_zero, rows_in_mem, rowsperchunk,
                          first_undef_row, dirty, backing, mem_buffer,
                          given>>
  BY <1>2, <1>6, <1>1, RepositionRefines DEF IndInv, Coherent
<1> HIDE DEF hit
<1> QED
  BY <1>3, <1>4, <1>5, <1>6, Zenon DEF Access, hit

(* Every step of the buffered array is a step of the array, or none.       *)
LEMMA NextRefines ==
    ASSUME IndInv, IndInv', [Next]_vars
    PROVE  [Array!Next]_(Array!vars)
<1>1. CASE UNCHANGED vars
  BY <1>1, Zenon DEF vars, control, backing, loop, given, Contents, Buffered, InBuffer,
     Array!vars
<1>2. CASE \E z \in BOOLEAN : RequestVirtArray(z)
  BY <1>2, RequestRefines, Zenon DEF Array!Next
<1>3. CASE \E m \in Heights : Realize(m)
  BY <1>3, RealizeRefines, Zenon DEF Array!Next
<1>4. CASE \E v \in View : Access(v)
  BY <1>4, AccessRefines, Zenon DEF Array!Next, StutterStep
<1>5. CASE Transfer
  BY <1>5, FlushChunkRefines, FlushDoneRefines, LoadChunkRefines,
     LoadDoneRefines, Zenon DEF Transfer, Array!Next, StutterStep
<1>6. CASE \E r \in 0 .. rows_in_array - 1, x \in Value : Write(r, x)
  BY <1>6, WriteRefines, Zenon DEF Array!Next
<1>7. CASE FreePool
  BY <1>7, FreeRefines, Zenon DEF Array!Next
<1> QED
  BY <1>1, <1>2, <1>3, <1>4, <1>5, <1>6, <1>7, Zenon DEF Next

-----------------------------------------------------------------------------
(* The buffer, the file and the transfer in progress agree in every        *)
(* reachable state (jvirt_sarray_control and the loop of do_sarray_io).    *)
THEOREM Invariant == Spec => []IndInv
<1>1. Init => IndInv
  BY InitInv
<1>2. IndInv /\ [Next]_vars => IndInv'
  BY NextInv
<1> QED
  BY <1>1, <1>2, PTL DEF Spec

(* The fields of the control block keep their types, whatever the heights  *)
(* of the array, the strips and the buffer (jvirt_sarray_control).         *)
THEOREM TypeCorrect == Spec => []TypeOK
<1>1. IndInv => TypeOK
  <2> SUFFICES ASSUME IndInv PROVE TypeOK
    OBVIOUS
  <2>1. Types /\ BufferOK
    BY Zenon DEF IndInv
  <2> QED
    BY <2>1, Zenon DEF Types, TypeOK, BufferOK
<1> QED
  BY <1>1, Invariant, PTL

(* What the strip buffer does not hold, and all of it when it is clean, is *)
(* in the temporary file (the dirty flag of access_virt_sarray).           *)
THEOREM CoherentHolds == Spec => []Coherent
<1>1. IndInv => Coherent
  BY Zenon DEF IndInv
<1> QED
  BY <1>1, Invariant, PTL

(* JERR_VIRTUAL_BUG is never raised, and the file is never read past its   *)
(* end (access_virt_sarray, do_sarray_io).                                 *)
THEOREM NoInternalErrorHolds == Spec => []NoInternalError
<1>1. IndInv => NoInternalError
  BY Zenon DEF IndInv
<1> QED
  BY <1>1, Invariant, PTL

(* One open file for each array that has one, none after free_pool.        *)
THEOREM StoreClosedHolds == Spec => []StoreClosed
<1>1. IndInv => StoreClosed
  BY SMT DEF IndInv, StoreOK, StoreClosed
<1> QED
  BY <1>1, Invariant, PTL

(* The temporary file has what the buffer has not, and is closed once.     *)
THEOREM StoreRightHolds == Spec => []StoreRight
<1>1. Coherent /\ StoreClosed => StoreRight
  BY Zenon DEF StoreRight
<1> QED
  BY <1>1, CoherentHolds, StoreClosedHolds, PTL

(* do_sarray_io writes at the end of the file or inside it, never beyond.  *)
THEOREM NoHolesHolds == Spec => NoHoles
<1> DEFINE Dense == \A q \in DOMAIN store' :
                       file_offset <= q \/ q \in DOMAIN store
<1>1. IndInv /\ [Next]_vars => [Dense]_store
  <2> SUFFICES ASSUME IndInv, [Next]_vars, store' # store PROVE Dense
    OBVIOUS
  <2>1. CASE store' = NoRows
    BY <2>1, Zenon DEF NoRows
  <2>2. CASE FlushChunk
    <3>1. /\ ChunkLeft /\ Types /\ Coherent /\ Transferred
          /\ state = "ready"
          /\ file_offset = cur_start_row + io_row
      BY <2>2, SMT DEF FlushChunk, IndInv, TransferOK
    <3> SUFFICES ASSUME NEW q \in DOMAIN store', ~ file_offset <= q,
                        q \notin DOMAIN store
                 PROVE  FALSE
      OBVIOUS
    <3>2. /\ cur_start_row \in Nat /\ io_row \in Nat
          /\ first_undef_row \in Nat /\ ChunkRows \in Int
          /\ ChunkRows <= first_undef_row - (cur_start_row + io_row)
          /\ ChunkRows > 0
      BY <3>1, ChunkBounds, Zenon DEF Types, ChunkLeft
    <3>3. q \in 0 .. first_undef_row - 1 /\ q < cur_start_row + io_row
      BY <3>1, <2>2, <3>2 DEF FlushChunk
    <3> QED
      BY <3>1, <3>3, Zenon DEF Coherent, Transferred
  <2>3. CASE UNCHANGED store
    BY <2>3
  <2>4. store' = NoRows \/ FlushChunk \/ UNCHANGED store
    <3>1. CASE UNCHANGED vars
      BY <3>1, Zenon DEF vars, backing
    <3>2. CASE Next
      BY <3>2, Zenon DEF Next, RequestVirtArray, Realize, Access, Grant,
         Transfer, FlushDone, LoadChunk, LoadDone, Write, FreePool, backing
    <3> QED
      BY <3>1, <3>2
  <2> QED
    BY <2>1, <2>2, <2>3, <2>4
<1> QED
  BY <1>1, Invariant, PTL DEF Spec, NoHoles

(* A virtual array is an array: every access of access_virt_sarray and     *)
(* access_virt_barray gives the rows as they were last written, however    *)
(* the buffer moves and the chunks are cut.                                *)
THEOREM ArraySpecHolds == Spec => ArraySpec
<1>1. Init => Array!Init
  BY InitRefines
<1>2. IndInv /\ IndInv' /\ [Next]_vars => [Array!Next]_(Array!vars)
  BY NextRefines
<1> QED
  BY <1>1, <1>2, Invariant, PTL DEF Spec, ArraySpec, Array!Spec

=============================================================================
