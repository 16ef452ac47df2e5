# TLA+ models of the Android libjpeg (IJG 6b)

This directory is a verification development of the JPEG library in `src/`: the
Independent JPEG Group's release 6b with Android's changes (tile-based decoding, ashmem
backing store). It models the library's control: the API state machines of the decompressor
and the compressor, their buffer controllers, marker and entropy coding, and the bookkeeping
that decides what is read, stored, shown and freed. It also models the arithmetic of samples
where its indexing and rounding can go wrong: colour conversion, up- and downsampling, and the
colour quantizers. The DCT is left out.

The build modelled is the one of `src/Android.mk`: `ANDROID_TILE_BASED_DECODE` is defined,
as are the options of `src/jmorecfg.h` (`D_MULTISCAN_FILES_SUPPORTED`,
`BLOCK_SMOOTHING_SUPPORTED`, `QUANT_2PASS_SUPPORTED`, ...).

## 1. The system

The library is single threaded and keeps everything in one *object* (`cinfo`), which the
application drives through API calls. Two kinds of interleaving make it hard:

* **Suspension.** A data source or destination may run dry in the middle of any call. The
  call returns "suspended" after putting its state into the object, and the application
  calls again later, perhaps after calling something else.
* **Freedom of the application.** Between calls the application may read ahead, start a new
  output pass, change quantization, give up (`jpeg_abort`), and after an `error_exit`
  (a `longjmp` out of the library at any point) it may only abort or destroy.

### Components

| component | source | state it keeps | operations | interacts with |
|---|---|---|---|---|
| Decompression API | `jdapimin.c` `jdapistd.c` `jcomapi.c` | `global_state`, `output_scanline`, `output_scan_number`, parameters | the `jpeg_*` calls | everything below, in the application's order |
| Input controller | `jdinput.c` | `consume_input` (a method pointer), `inheaders`, `has_multiple_scans`, `eoi_reached` | `consume_markers`, `start_input_pass`, `reset_input_controller` | marker reader, coefficient controller; called from API loops and from the output side |
| Marker reader | `jdmarker.c` | `saw_SOI`, `saw_SOF`, `unread_marker`, `next_restart_num`, saved markers, tables | `read_markers`, `read_restart_marker`, `jpeg_resync_to_restart` | data source; entropy decoder shares `unread_marker` |
| Coefficient controller | `jdcoefct.c` | `input_iMCU_row`, `MCU_ctr`, `MCU_vert_offset`, `output_iMCU_row`, virtual arrays | `consume_data`, `decompress_onepass`, `decompress_data`, `decompress_smooth_data` | calls `consume_input` from the output side |
| Master control | `jdmaster.c` | `is_dummy_pass`, quantizers | `prepare_for_output_pass`, `finish_output_pass`, `jpeg_new_colormap` | selects every other module |
| Main controller | `jdmainct.c` | workspace, `rowgroup_ctr`, `context_state`, `whichptr` | `process_data_*` | coefficient controller to post controller, with context rows |
| Post controller | `jdpostct.c` | strip buffer or whole image, `starting_row`, `next_row` | `post_process_*` | upsampler, quantizers, virtual arrays |
| Entropy decoders | `jdhuff.c` `jdphuff.c` | bit buffer, DC predictions, `EOBRUN`, `restarts_to_go` | `decode_mcu*`, `process_restart` | data source, marker reader |
| Tile decoding | `jdapistd.c` `jdcoefct.c` `jdtrans.c` | Huffman index, `tile_decode`, column boundaries | `jpeg_build_huffman_index`, `jpeg_read_tile_scanline` | rewinds source and entropy decoder |
| Memory manager | `jmemmgr.c`, `jmem-*.c` | pools, virtual array windows, backing store | `alloc_*`, `realize_virt_arrays`, `access_virt_*`, `free_pool` | every module |
| Compression side | `jcapi*.c` `jcparam.c` `jcmaster.c` `jcinit.c` `jcmainct.c` `jcprepct.c` `jccoefct.c` `jcmarker.c` `jchuff.c` `jcphuff.c` `jctrans.c` | `global_state`, pass sequence, `next_scanline`, `sent_table` flags, Huffman state | `jpeg_start_compress`, `jpeg_write_scanlines`, `jpeg_finish_compress`, `jpeg_write_coefficients` | destination, which may suspend |
| Quantizers | `jquant1.c` `jquant2.c` | histogram, colormap, error rows, `needs_zeroed` | `start_pass`, `color_quantize`, `finish_pass`, `new_color_map` | master control's dummy passes, post controller |
| Upsampling and colour, output | `jdsample.c` `jdmerge.c` `jdcolor.c` | `next_row_out`, `rows_to_go`, `spare_full`, conversion tables | `sep_upsample`, `merged_1v_upsample`, `merged_2v_upsample`, the `*_convert` routines | main and post controllers, which hold the rows |
| Colour and downsampling, input | `jccolor.c` `jcsample.c` | conversion tables | the `*_convert` and `*_downsample` routines | preprocessing controller, which holds the rows |
| DCT, SIMD | `jfdct*.c` `jidct*.c` `jcdctmgr.c` `jddctmgr.c` | divisors of a pass | | coefficient controllers |
| Transformations | `transupp.c` | workspace arrays | block permutations | `jdtrans.c`, `jctrans.c` |
| Applications, OpenCL, build files | `cjpeg.c` ... `opencl/` | | | use the library from outside |

`PROJECT.json` lists every component with its status and the reason when it is not modelled.

### What makes each component correct

* API and state machine: a legal sequence of calls never finds the modules in a state they
  were not set up for; the documented sequence rules are enforced; a suspended call that is
  repeated completes.
* Input and coefficient controllers: input and output sides share the coefficient arrays
  without the output ever showing a row that is not as good as promised; the entropy decoder
  and the marker reader each consume exactly their part of the datastream.
* Marker reader: after a suspension a segment is parsed again from its start without doing
  anything twice.
* Entropy coders: an MCU that is suspended leaves no trace; restart intervals are counted
  once.
* Main, post and preprocessing controllers: every row gets the context rows it needs, every
  row is delivered once, in order, at every size of the caller's buffer.
* Memory manager: the window of a virtual array always shows what was last written to that
  row, or zero in a pre-zeroed array; nothing is freed twice or used after its pool is gone.
* Compression: every table is written before the scan that needs it; every pass sees the
  same data; a row the application is told was taken is in the file in the end.
* Upsampling, downsampling and colour: every pixel is made of the samples around its own place,
  however the rows are cut into calls, and has the colour its equations give; the merged and the
  word-by-word routines do what the plain ones do.
* Quantizers: no index leaves its table, the colours fit the number asked for, and every pixel
  gets the colour nearest to it among those of the colormap in use now.
* Transformations: each is the permutation it claims to be, at every size of the image, and the
  file written is read with the colours of the file read.

`PROJECT.json` "hazards" lists the points of the code where these could go wrong and a test
would hardly notice, each with the properties aimed at it.

## 2. Modules

### `Decompress` (core)

One decompression object from `jpeg_read_header` to `jpeg_finish_decompress` or
`jpeg_abort`, in both ordinary and buffered-image mode, and `jpeg_read_coefficients`.

*State.* The variables carry the names of the fields they model: `global_state`,
`output_scanline`, `output_scan_number`, `input_scan_number`, `Ss`, `comps_in_scan`
(`cinfo`), `consume_input`, `has_multiple_scans`, `eoi_reached`, `inheaders` (input
controller), `input_iMCU_row`, `MCU_ctr`, `MCU_vert_offset`, `output_iMCU_row`,
`decompress_data` (coefficient controller; the two method pointers are strings),
`is_dummy_pass`, `post_mode`. `whole_image[r]` is the number of the last scan stored in iMCU
row `r` of the coefficient arrays; `saved` is the full-image buffer of the post controller
(filled by a dummy pass) and `image` what the application has received in this pass.
`call` says which API function is on the stack. `pass_target` is a ghost: the least scan
number the application has asked for in this pass.

*Data.* A datastream is a sequence of units, a unit being one marker segment or the
compressed data of one MCU. `rd` units have been consumed and `wr` have arrived; the source
is dry when they are equal. Pictures are abstracted to the scan each row shows.

*Actions.* One action is one turn of a loop of the library. An API call is entered by an
action of `Application` (`ReadHeader`, `JpegConsumeInput`, `StartDecompress`, `ReadRows`,
`StartOutput`, `FinishOutput`, `ReadCoefficients`, `FinishDecompress`, `JpegAbort`), goes on
with actions of `Library`, and is left when `call` is "none" again. `Arrive` is the source.
Every loop that forces input uses the same operator `ConsumeInput(r)`, with the return code
`r` of the method (`MORE` when the loop inside the method goes round again, `ERROR` for an
`ERREXIT`).

*Abstractions.* Calls that would be rejected by a `global_state` check are not made, except
`jpeg_consume_input` in `DSTATE_RDCOEFS`, where the rejection is what is being studied.
Damaged data is represented by MCUs missing from, or left over in, a scan; `decode_mcu` makes
up zero MCUs at a marker, as in `jdhuff.c`. Progress monitoring is left out. `smooth` is
nondeterministic where `smoothing_ok` depends on quantization tables and coefficient
accuracy; it is possible only for progressive files. The output dimensions are counted in
iMCU rows.

This module is the composition: marker reader, entropy decoder, row pipeline and quantizers are
each reduced in it to what the others see of them, and have modules of their own below, where
the same calls are modelled in detail.

### `MCDecompress`

Datastreams, parameter sets and derived constants for TLC.

### `Decompress_proofs`

The TLAPS proofs about `Decompress`: what a pass promises, and what has been read of the file.

### `VirtArraySpec` and `VirtArray`

A virtual array of `jmemmgr.c`: the coefficient arrays and the full-image sample buffers of
the other modules are such arrays when memory is short. `VirtArraySpec` is the promise: an
array `arr` of rows that grows from the top, strips of which are handed out for reading or
writing (`Access`), written by the caller (`Write`), and which any call may end in an error
(`Fail`). It knows neither buffer nor file.

`VirtArray` is the code. *State:* the fields of `struct jvirt_sarray_control` under their own
names (`rows_in_mem`, `rowsperchunk`, `cur_start_row`, `first_undef_row`, `pre_zero`,
`dirty`, `b_s_open`, `mem_buffer`), the temporary file (`store`), the counters of the loop in
`do_sarray_io` while it runs (`io`, `io_row`, `file_offset`, with the arguments of the access
in `call`), and two ghosts, `view` and `seen`: the strip last handed out and what it held.
*Actions:* `RequestVirtArray`, `Realize` (the height of the buffer, the file, the
allocation), `Access` up to the first transfer, one action for each chunk written or read
(`FlushChunk`, `LoadChunk`), `FlushDone` and `LoadDone` for what `access_virt_sarray` does
after each loop, `Grant` for its second half, `Write` for the caller, and `FreePool`.

*Abstractions.* The sample and block versions of the code are identical but for the size of
a row, so one array stands for both; the map cites `do_sarray_io` for the writing and
`do_barray_io` for the reading direction. Other arrays of the same object only show in
`Heights` (how many `maxaccess` units `realize_virt_arrays` finds for each array) and in the
size of a chunk, which depends on the row width and the allocation limit. A row is a value.
The system-dependent backing store is external: a transfer succeeds or leaves through
`ERREXIT`, and a read past the end of the file is short. After an error the application may
only free the pool. `MCVirtArray` makes `VirtArray` the root module of the runs, and
`VirtArray_proofs` holds the proofs.

*Refinement.* `Array == INSTANCE VirtArraySpec WITH arr <- Contents`, where `Contents` takes
a row from the buffer if the buffer covers it (and is not being loaded), else from the file.

### `RowDelivery` and `RowPipe`

The way of a row from the coefficient controller to the application: `jdmainct.c` (context
rows), the control of the upsamplers in `jdsample.c` and `jdmerge.c`, and `jdpostct.c`. In
`Decompress` all this is one step per iMCU row. `RowDelivery` is the promise: in each output
pass row after row is delivered, `Line(image, r)` being what row `r` shows.

`RowPipe` is the code. *State:* the private fields of the three controllers under their own
names, the object's `output_scanline` and `output_iMCU_row`, and the `process_data` call on
the stack (`at`, `out_row_ctr`, `out_rows_avail`). `buffer` holds in each physical row of the
workspace the number of the sample row it contains, so that a wrong pointer shows as a wrong
number; `xbuffer` holds the two pointer lists, as indices into the workspace. An output row is
the sample rows it was made from, for each component. `got` is what the last call returned.
*Actions:* `StartPass` (`prepare_for_output_pass`), `ProcessData` (`jpeg_read_scanlines` with
any number of lines, or a turn of the loop of `output_pass_setup`), `Fill` or `Suspend`
(`decompress_data`), `FeedSimple`, `FeedPostponed`, `PrepareForIMCU`, `ProcessIMCU` (the
cases of `process_data_context_main`, which fall through to one another), `CrankPost`.

*Parameters.* `image` is a record of the height, the sampling factors, the DCT scaling, the
upsampler and the kind of quantization; `ImageOK` says which combinations
`jpeg_calc_output_dimensions`, `jinit_upsampler` and `use_merged_upsample` can produce as far
as rows are concerned.

*Abstractions.* Columns, colour conversion (`ColorOutput`) and quantization (`Quantize`) are
left out, and so are raw data output and tiles. The whole-image buffer of the post controller is a
function on rows: that a virtual array is an array is what `VirtArray` shows. Above a sampling factor of 2 the
whole-image buffer is left to the run `crank_bottom`. The quantizer pass starts in
`StartPass` because `output_pass_setup` finishes the dummy pass and starts the next at once.
`MCRowPipe` holds the instances; `RowPipe_proofs` proves the counters right and, on top of them,
the refinement.

*Refinement.* `Delivery == INSTANCE RowDelivery` with the variables and operators of the same
names; a call that goes round twice delivers twice.

### `HuffTables`, `HuffEncode`, `MarkerScan`, `MarkerResync`, `HuffDecode` and `EntropyCodec`

The entropy coders (`jchuff.c`, `jcphuff.c`, `jdhuff.c`, `jdphuff.c`), joined by a file.
`HuffTables` has the tables: what a DHT marker transmits, the derived tables of both sides, and
`jpeg_gen_optimal_table`. `HuffEncode` turns MCUs into symbols and bits, sequential and
progressive, and bits into stuffed bytes. `MarkerScan` and `MarkerResync` are the parts of
`jdmarker.c` that look for markers in a datastream that arrives in pieces: `next_marker`, and on
top of it `read_restart_marker` and `jpeg_resync_to_restart`. `next_marker` is said in terms of
where the marker codes among the bytes are that have arrived (`MarkerCodes`) and which bytes
before them are given up (`Discarded`). `HuffDecode` is the bit reader and the MCU decoders.

`EntropyCodec` is the state machine. *Actions:* `Gather` and `FinishGather` (the statistics
pass), `EncodeMCU` and `EncodeError`, `Drain` (the application empties a destination that had
refused to be emptied), `FinishEncode`, `Arrive` (a byte of the file becomes available to the
source), the decoding of an MCU, which may suspend at any byte, the end of a scan and of the
image, and in tile mode the building of the Huffman index and the decoding of an MCU from one of
its entries. Between writing and reading, the data between two restart markers may be dropped,
sent twice, garbled or cut short. A block is a function of the zigzag position; a coefficient is
an integer, so that bits, predictors, EOB runs and correction bits are those of the code.

### `CompressSetup`, `ScanScripts`, `CompressRows`, `MarkerWriter` and `Compress`

The compressor. `CompressSetup` holds what `jcmaster.c` computes from the parameters: sizes,
`validate_script`, `select_scan_parameters`, `per_scan_setup`. `ScanScripts` holds what
`jcparam.c` chooses by itself: the components of a colour space, the progressive scripts, the
quality scale. `CompressRows` is the data path from source rows to MCUs (`jcprepct.c`, the row
bookkeeping of `jcsample.c`, `jccoefct.c`, `jctrans.c`): a pixel row is its number, a downsampled
row the source rows it was made from, a block the column it stands in and its downsampled rows,
and a dummy block has the DC value of its neighbour. `MarkerWriter` is `jcmarker.c`: the segments
of each header and the `sent_table` flags; it also keeps what a reader of everything written so
far knows.

`Compress` puts them together under the API. *State:* `cinfo` (the parameters), `global_state`,
`next_scanline`, `master`, `scan`, `prep`, `main`, `coef`, `whole_image`, `entropy`, `writer`: the
private states of the modules of those names; `call` and `pc`, the locals of the API call on the
stack and where it stands. *Actions:* the calls of the application between two images
(`jpeg_set_defaults`, `jpeg_add_quant_table`, `jpeg_set_quality`, `jpeg_simple_progression`,
`jpeg_suppress_tables`, `jpeg_write_tables`), the start of an image (`jpeg_start_compress`,
`jpeg_write_coefficients`), the data calls (`jpeg_write_scanlines`, `jpeg_write_raw_data`), one
turn of each loop inside them (`pre_process_data`, `pre_process_context`, `encode_mcu`, ...), the
passes of `jpeg_finish_compress`, and `jpeg_abort_compress`. The destination may refuse at every
MCU, which suspends a call or is an error where the code cannot suspend, at every segment, EOI
included, and at the last bits of an output pass, which are errors.

*Abstractions.* Entropy-coded data is not spelled out (`EntropyCodec` does that): `encode_mcu`
hands over an MCU, and a table is a value that says where it came from. Below the image the
reference definition `IdealRow` repeats what the code has at hand: with context rows the last
source row, without them the last downsampled row that has a row of the image in it, which is
not the same where `max_v_samp_factor` is larger than the factor of the component. Of a
quantization table only the largest entry counts, because it decides the precision.
`jpeg_write_marker` is left out.

`ParameterSet` says of what types the parameters of an object are (`jpeglib.h`); whether their
values are possible is for `BadParameters`, the checks of `initial_setup` and `validate_script`,
to find. `Compress_proofs` has the facts about sizes and scripts and the invariants of the passes,
the rows and the tables; `CompressImage_proofs`, on top of it, those of the data and the scripts.

### `Datastream`, `MarkerReader`, `OutputSetup` and `InputControl`

The reading of headers. `Datastream` is the reference: a datastream is a sequence of segments,
with their bytes (`Bytes`), and `Apply` says what each segment means to a decoder that knows
nothing of buffers and suspension. `MarkerReader` is `jdmarker.c`: one step of `read_markers` is
one marker, or the suspension at it. It works on bytes: which of them have arrived, how far the
restart point has moved, which have been skipped before they arrived. Saved markers are read
piece by piece, so that one larger than the buffer gets through. `get_sof` and `get_sos` set each
field of the object when its bytes come up, those of the image size half by half, before they
suspend and before they refuse the marker (`SofFields`, `SofComponent`, `SosSpecified`,
`SosParameters`): a second SOF, though refused, leaves another size behind, and a bad SOS the
components named before the bad one. An object reads several
datastreams one after the other, each ended by EOI, an error or an abort. `get_sos_marker_position`
records where the scans of a progressive file begin, for the Huffman index. The loops of `get_dht`
and `get_dqt` are recursive functions on the number of turns: a turn takes at least the smallest
table (`MostTurns`), so that the last of them has ended the loop. The assumptions only say what the
constants are: `FilesAreBytes`, a file is made of octets; `SavedMarkers`, what may be saved are
APPn and COM markers.

`OutputSetup` is what is decided before the first scan is decoded: the colour spaces
(`default_decompress_parms`), `jpeg_calc_output_dimensions`, and the choice of conversions and
upsamplers. `InputControl` is `jdinput.c` with both: `initial_setup`, `per_scan_setup`,
`latch_quant_tables`, `start_input_pass`, `finish_input_pass`, `reset_input_controller`. They
assume `DctSizeIsEight`, as the scales 1/1 to 1/8 do ("this code only copes with 8x8 DCTs"), and
`Factors`, that there is a largest sampling factor. `InputControl_proofs` holds the proofs.

*Abstractions.* Of an image that arrives in pieces only the headers are set up; what the
application asks of the output (`Requests`) is varied for files that are all there.
`jpeg_save_markers` is called before the first pass starts. The scans that
`get_sos_marker_position` looks at are read by `read_markers` without being set up, as in the
code. Only entropy-coded data made of stuffed bytes and restart markers is skipped over.
`Decompress` does not use these modules: there a marker is read as a whole or not at all, and a file
has one SOF.

### `Transform`

Lossless transformation as `jpegtran` performs it: `transupp.c`, `jpeg_copy_critical_parameters`
of `jctrans.c`, and the marker copying, in the order of `main()` of `jpegtran.c` (`stage`). A
block is where in the source it comes from and what was done to it: transposed, columns negated,
rows negated. One step of `execute` is one turn of the `blk_y` loop of a `do_` routine. It EXTENDS
`ScanScripts` for the sizes and the components of a colour space. `SourceFile` is a file
`jpeg_read_header` accepts. `Transform_proofs` holds the proofs.

*Abstractions.* X and Y density are not followed. In the files of the instance that are made gray
the luminance has the largest sampling factors, as in any file the library writes (section 6).

### `Quantize1`, `Quantize2` and `Quantize`

`Quantize1` is `jquant1.c` and `Quantize2` is `jquant2.c`, as functions from a quantizer's record
to its next record and a row of codes: choice of colours, index tables, dither matrices, error
diffusion with its alternating direction, histogram, median cut, and the inverse colormap filled
one update box at a time into the place of the histogram. `Quantize` is the life of a
decompression as far as quantization goes: `master_selection`, the application between the passes
of a buffered image (`AskForDither`, `AskForNewMethod`, `jpeg_new_colormap`), the start of a pass,
dummy passes, rows and the end of a pass. `ideal` is what a row should have been: the nearest
colours, by a definition that knows no tables and no cache.

### `ColorTables`, `Sampling`, `ColorOutput`, `ColorInput` and `Color`

The samples themselves. `ColorTables` has the tables of the colour converters (`jdcolor.c`,
`jccolor.c`, `jdmaster.c` for the range limit table) as functions, in the fixed-point numbers of
the code, and the equations they stand for, in units of 1/100000. `Sampling` has one operator for
each up- and downsampling routine, which gives one sample of its result from the plane it reads;
a row outside the plane is the nearest row in it, as the main and the preprocessing controller
provide it.

`ColorOutput` is the way from the components of a decompressed image to the application's rows
(`jdsample.c`, `jdcolor.c`, `jdmerge.c`). *State:* `image` (the parameters and the planes),
`rows_to_go`, `next_row_out`, `spare_row`, `spare_full` (the private fields of the two
upsamplers), `row_group` (the row group the main controller offers), `output_scanline`, and
`call`, a history: the rows the last call returned, and which of them were not aligned to 32
bits. *Actions:* `StartDecompress` and `StartFails` (`master_selection`, `jinit_upsampler`,
`jinit_color_deconverter` with their errors), `jpeg_read_scanlines` with any number of lines and
any alignment, through `sep_upsample`, `merged_1v_upsample` or `merged_2v_upsample`. A conversion
takes one pixel, except in the routines for `RGB_565`, whose column counter and dither register
live on through the rows of one call (`num_cols`, `Turns`).

`ColorInput` is the way from the application's rows to downsampled components (`jccolor.c`,
`jcsample.c`). *State:* `picture`, `color_buf`, `next_scanline`, `components`, `row_groups`.
*Actions:* `StartCompress` and `CompressFails`, `ConvertRows` (one call of `color_convert`, for
any number of rows there is room for), `sep_downsample` (one row group). `null_convert` copies
RGB in words of four bytes where rows are aligned (`copyquads`), and that is modelled byte by
byte. `Color` puts the two side by side: their objects share nothing. `MCColor` has the images
and pictures for TLC; since the two share nothing it lets one run while the other is refused.
`Color_proofs` holds the proofs.

*Abstractions.* Of the rows kept for context only the nearest-row rule remains: which rows are
where is the subject of `RowPipe` and `CompressRows`. `WellFormed` says what those controllers
guarantee of the planes. Pixels of RGB have three bytes (`RGB_PIXELSIZE`); the NEON versions of
two conversions are taken with the C routines.

### Recursion

`HuffTables`, `HuffEncode`, `MarkerResync`, `HuffDecode`, `EntropyCodec` and the three quantizer
modules use RECURSIVE operators or extend a module that does, and are for TLC only. The modules
that are proved about use recursive functions and folds instead; where a proof needs what such a
function computes (the walk of `validate_script` through the scans, the segments of a header), it
argues by the smallest counterexample (`Smallest` of `Compress_proofs`). A loop whose result
can be said without it is defined by its result (`next_marker`, `SkipScan`, `ScaledSize`).


## 3. Runs

A property of a run is often a conjunction of named parts, each with its own comment in the
module; the mutants in `PROJECT.json` break different parts.

| run | module | question |
|---|---|---|
| `files` | `Decompress` | `OutputQuality` (`PassQuality`, `FinalQuality`), `LockStep`, `ScanAligned`, `SmoothingSeesNextRow`, `NextScanWaits`, in every mode, on sound and damaged files |
| `live` | `Decompress` | `SuspendedCallsEnd`: every call that waits for data gets to its end |
| `virt_array` | `VirtArray` | `ArraySpec` (refinement), `StoreRight` (`Coherent`: the file has what the buffer has not; `StoreClosed`), `NoHoles` |
| `rows` | `RowPipe` | `DeliverySpec` (refinement), `StaysInside` (with `SameRowGroupsLeft`), `NoEmptyReturn` |
| `crank_bottom` | `RowPipe` | a comment of `jdpostct.c` (section 6) |
| `codec` | `EntropyCodec` | `WrittenIsIdeal` and `DecodedAsEncoded`: suspension leaves no trace, damage stays in the segments hit; `GatherCoversEncode`: optimized tables serve; `StopsAtMarker`; `BuffersHold`; `TileIsImage` without restarts |
| `codec_tile` | `EntropyCodec` | `TileIsImage` with restart markers (section 6) |
| `image` | `Compress` | `ImageIsSent` (`MCUIsIdeal`: each MCU is that of the ideal image; `ScriptServes`), `ScansComplete` (`PassIsWhole`, `ScansInOrder`), `RowsAccounted`, `TablesReachReader` |
| `markers` | `InputControl` | `ReadIsIdeal` (against `Datastream`), `ScanPositionsRight`, `GeometryCovers`, `LatchedTables`, `OutputFits`, `EveryFileIsReadOut` |
| `transform` | `Transform` | `OutputIsCombination` (against a reference definition of each transformation), `EdgesRight`, `StaysInside`, `ColorsSurvive` |
| `quantize` | `Quantize` | `NearestColors` (`InverseMapIsNearest`, `MapsToNearest`), `ColormapFits` (`HistogramCounts`, `BoxesPartition`, `ColorBudget`), `ValuesInRange` |
| `color` | `Color` | output: `TriangleFilter`, `RowsAreConverted` (`RowsWhole`, `ColorsRight`, `FirstRowDithered`), `MergedIsSeparate`; input: `PixelsAreConverted`, `SamplesAreAverages` |

### Bounds, and why they are enough

*`files`, `live`.* 2 iMCU rows (in `files` of 2 MCU rows, the last one short) of 1 or 2 MCUs, 12
files of up to two scans, 7 sets of parameters. With two rows "one row behind", "same row" and
"one row of lead" are different; two scans let the target be passed, current and ahead, and
`MaxTarget` = 3 exceeds the number of scans. `SourceBuffer` (units held by the source at once)
limits how far `Arrive` runs ahead: 1 forces a suspension before every unit. No counter of the
code is capped.

*`virt_array`.* An array of 4 rows, strips of 1 and 2 rows, a buffer of 2 or 4 rows, every chunk
size, 2 values. A buffer of two rows has two disjoint positions and overlapping ones, so that a
row can be written, flushed, overwritten in the file and loaded back at another place of the
buffer; in chunks of one row a transfer takes two calls of the backing store, and a buffer that
starts at the last row reaches past the end of the array in either direction. Two values tell a
stale row from a fresh one.

*`rows`, `crank_bottom`.* Images of 6 shapes whose heights lie around the multiples of the height
of an iMCU row (8, 16 or 32), so that the last iMCU row has one row, all rows, or one fewer, and
the image has one to four iMCU rows. Calls of one to three lines end inside a row group, at its
end and beyond it. Two-pass quantization together with context rows takes fewer heights, as every
row at which an earlier pass was given up leaves other contents in the buffers.

*`codec`.* Blocks of 20 coefficients (enough for a run of 16 zeros, which has a symbol of its
own), lookahead of 4 bits with codes shorter and longer, `MAX_CORR_BITS` = 24 and `MAX_EOBRUN` = 3
so that both limits are reached, up to 20 MCUs so that restart numbers wrap around. `FreeSizes`:
the room the application makes in the destination. In addition the optimal tables are computed
for up to `MaxSkew` = 20 symbols of which each is twice as frequent as the next, where codes of
more than 16 bits have to be shortened.

*`image`.* Blocks of 2 by 2 samples, images 5 pixels wide and 1 to 11 high, which end at every
kind of place in an iMCU row, with and without context rows; the standard scripts for 1, 3, 4 and
5 components (5 do not fit in one scan) with all 64 coefficients, on images of one MCU; sampling
factors 3 to 2, which `jinit_downsampler` refuses and raw data may have; two images one after the
other, with at most `MaxVersions` = 1 change of quantization tables by the
application. At most `MaxRows` = 4 scanlines per call, `MaxRefusals` = 2 refusals of the
destination.

*`markers`.* Code length counts of 2 lengths, quantization tables of 2 values, a source
that holds 14 bytes, just enough for a frame header of two components; bytes arrive one by one.
Files with every kind of segment, redefined tables, garbage between the segments, every error of
the marker reader and of `initial_setup`, a second SOF of another size among them, and files after
such a file; two or three files per object. `MAX_COMPONENTS` is 4,
at most one call of `jpeg_save_markers` (`MaxSaves`), with a limit below and one above the length
of the marker. The geometry files have sizes around multiples of an MCU and sampling factors from
1 to 4; scales 1/1 to 1/8; one file has a ratio of 3, which the set-up of a reduced output
refuses (section 6).

*`transform`.* Blocks of 2 by 2 samples; images of up to three iMCUs each way with partial iMCUs
of one block and of two at either edge, every transformation, with and without trimming and
grayscale; ten combinations of JFIF and Adobe markers with every choice of what is copied.

*`quantize`.* Samples of 4 bits, histogram cells of 4, 8 and 4 indexes with update boxes of 2 by 2
by 2 cells, `HistMax` = 8 so that a count saturates, pictures of 2 or 3 rows of 3 pixels, a
dither matrix of 2 by 2, colormaps of 1 to 17 colours, `MaxPasses` = 2 output passes of a buffered
image.

*`color`.* Samples of 8 bits, with values at both ends of the range. Images of 3 to 6 columns and 2
to 5 rows, odd and even, in every pair of colour spaces, with chroma at 1/1, 1/2 by 1, 1/2 by 1/2, 1 by
1/2 and 1/3, with fancy upsampling and without, at full and half scale, dithered and not, read
`MaxLines` = 2 rows at a time or one: so a row group is split between calls, and the last has one
row too many. Pictures of 1 to 9 columns (a block has 8, a group of words 4 pixels) and 1 to 5
rows, with smoothing factors 0, 1, 50 and 100.

### Fairness

`FairSpec` of `Decompress` adds: a call that is on the stack runs on (`WF` on `Library`: the
library is straight-line code between returns); missing data arrives (`WF` on `Arrive`: the file
is finite and on its way); and an application that has been told to come back repeats the call
(`SF` on `StartDecompress`, `ReadRows` and `FinishOutput`: it may call other things meanwhile, so
the action need not stay enabled, but it does not forget). `libjpeg.doc` prescribes exactly this
loop for suspending sources. Nothing is assumed of starting passes, aborting or reading ahead.

`InputSpec` assumes the same of its actions: data arrives (`WF` on `Deliver`), and a reading loop
that can go on does (`WF` on `consume_markers`, `StartFirstPass`, `finish_input_pass`,
`IndexMarkers` and `get_sos_marker_position`). Setting limits and aborting are not due.

The other specifications have no fairness: only safety properties are checked of them.

### Deadlock

Deadlock is checked in `files`, `live`, `virt_array`, `rows` and `crank_bottom`, where the
application can always abort, free the pool, or start another pass. In `codec`, `codec_tile`,
`image`, `markers`, `transform`, `quantize` and `color` a behaviour ends when the images, files or
jobs of the instance are done, so it is not.

## 4. What is proved

`Decompress_proofs` proves, for every image height, every set of datastreams ending in EOI,
every set of parameters and every bound (the assumptions are `ConstantsAssumption` and
`FilesAssumption` of `Decompress`):

* `TypeCorrect`: `Spec => []TypeOK`
* `PassQualityHolds`: `Spec => []PassQuality`
* `OutputQualityHolds`: `Spec => []OutputQuality`, with `FinalQualityHolds` below
* `LockStepHolds`: `Spec => []LockStep`
* `NextScanWaitsHolds`: `Spec => NextScanWaits`
* `StopsAtEOIHolds`: `Spec => StopsAtEOI`

All but `FinalQuality` follow from one inductive invariant `IndInv`, whose parts are

* `CallOK`: the call on the stack fits `global_state`;
* `PhaseOK`: which modules exist in which state, and what the header has told;
* `InputOK`: the input side points at `consume_markers` exactly between scans, and the
  coefficient arrays hold every earlier scan in full and the current one down to the input
  row (`ScansStored`);
* `PassOK`: `output_scan_number` is never below what the pass still promises, single-MCU
  rows agree, and the rows delivered or saved so far keep the promise.

`PassQuality` alone is not inductive: it says nothing of the rows saved by a dummy pass, nor
why the row about to be delivered is good enough. The heart of the argument is the lemma
`EnoughInput`: when the loops of `decompress_data` or `decompress_smooth_data` let output go
on, `ScansStored` implies that the row holds every scan up to the target, or EOI has been
reached and the row holds them all. `PromisedFalls` shows that no step of the input side
raises the promise. `ConsumeInputStep` summarises every step of the input side once
(`CountersStep`, `HeaderEffect`, `ScanEffect`), and `CallerStep` covers the five loops that
force input. Then there is one lemma per action.

`VirtArray_proofs` proves, for every height of the array, width of access, set of buffer
heights and set of values (`ArrayAssumption`):

* `ArraySpecHolds`: `Spec => ArraySpec`, the refinement;
* `StoreRightHolds`: `Spec => []StoreRight`, and two more that no run needs to repeat,
  `NoInternalErrorHolds` (the manager never misses a strip it should have, nor
  reads past the end of its own file) and `TypeCorrect`: the invariants;
* `NoHolesHolds`: `Spec => NoHoles`.

The inductive invariant adds to `Coherent` what makes it inductive: a realized buffer is
either the whole array at rest or at least one access high with a file behind it
(`BufferOK`); during a transfer the rows below the loop counter agree with the file and the
offset is where the next chunk belongs, and a load has already put the buffer over the
strip (`TransferOK`); a strip handed out for writing stays in the buffer, defined and dirty
(`ViewOK`). `ChunkBounds` says what the two `MIN`s leave, and `FlushedAll` that a loop stops
only when every defined row of the buffer has been transferred. For the refinement
`Stutters` reduces "a transfer changes nothing" to an equation about single rows, used by
`FlushChunkRefines`, `RepositionRefines`, `LoadChunkRefines` and the start of `Access`;
`GrantRefines` shows that the second half of an access is `Array!Access`.

`RowPipe_proofs` proves, for every set of images (`PipeAssumption`: the combinations of
parameters `ImageOK` describes, of any height) and every size of call:

* `SameRowGroupsLeftHolds`: `Spec => []SameRowGroupsLeft`
* `StaysInsideHolds`: `Spec => []StaysInside`
* `NoEmptyReturnHolds`: `Spec => NoEmptyReturn`
* `NoRowPastBottomHolds`: `Spec => []NoRowPastBottom`

The last three have the hypothesis `ShortStrips`: two-pass quantization only with strips of at
most two rows. Without it they are false, which is finding 1 of section 6.

`SameRowGroupsLeft` says that the last iMCU row leaves every component the same number of row
groups, which `set_bottom_pointers` asks of the first component only ("Should get same answer
for each component"). No step changes the image, so it is a fact about rounding.
`RowsFromGroups`: if the picture has `q + 1` row groups, the last one possibly partial, a
component with row groups of `g` rows has `g * q + s + 1` rows with `s < g`. `GroupsLeft`: of
those, whatever `g` and `s` are, `(q % M) + 1` row groups are in the last iMCU row.

The others follow from an inductive invariant `IndInv`. Three controllers count in three units
and none sees the others' counters: the coefficient controller counts iMCU rows, the main
controller row groups, the upsampler and the post controller output rows. `RowsOK` says that they
agree: `output_scanline = V * GroupsGone + Pending`, where `GroupsGone` is what the main
controller's state says has been used up (one row group is postponed between two iMCU rows in the
context case) and `Pending` what the upsampler has emitted of the next. `MainOK` gives the main
controller's counters in each state, `PostOK` places the strip, and `CallOK` says that a call on
the stack still has a row to give. `UpsamplerCounts` shows for each upsampler that a call returns
at least one row, no more than there is room for or than are left, and ends a row group with its
last row; `PostProcessCounts` carries this through the post controller. `BeginsInside` is the
arithmetic that connects the units: a row group begins above the bottom exactly if the picture has
it, and an iMCU row likewise. With `RowsOK` it yields `RowLeft`: an iMCU row is asked for only
while there is one (`NeverPastLastRow`). In the last iMCU row the row groups left are those of
`SameRowGroupsLeft`, so the last call ends the picture exactly. The pointer lists are shown to
point into the workspace by `FunnyPointers`, `WraparoundPointers` and `BottomPointers`.

From the same assumption and hypothesis it proves

* `DeliveryHolds`: `Spec => DeliverySpec`, the refinement: every call delivers the next rows of
  the picture, each made of the right sample rows.

To the counters it adds what the rows are, `ContentInv`: `SimpleBuffer` and `ContextBuffer` say
which sample row each physical row of the workspace holds, `Pointers` which physical row each entry
of the two lists points to (before the first wraparound, in between, and after
`set_bottom_pointers`), `HeldRows` and `SavedRows` what the upsampler and the post controller keep.
The place `Funny(w, c, i)` of a row in the workspace is a permutation, different in the two lists,
that agrees where one iMCU row overlaps the next; so `ListShows` can say what the list in use
*shows* without looking at the workspace: the rows of the current iMCU row, those above it, and
the last row repeated at the bottom. One lemma per state of `process_data_context_main` and per
upsampler shows that a row group reads exactly the rows `Line` names.

`Decompress_proofs` goes on to prove, from the same assumptions and on top of `IndInv`,

* `ScanAlignedHolds`: `Spec => []ScanAligned`
* `SmoothingSeesNextRowHolds`: `Spec => []SmoothingSeesNextRow`
* `FinalQualityHolds`: `Spec => []FinalQuality`

with two further inductive invariants. `SourceInv` relates the numbers in `cinfo` to the place in
the file: the scan number counts the SOS units passed (`CountOK`), the parameters are those of the
last SOS (`HeaderOK`), EOI has been reached exactly if it was the last unit read (`EOIOK`), and in a
well-formed file the row, MCU row and MCU counters give the distance from that SOS (`AlignedOK`);
`PlaceOfScan` is the arithmetic of the last, for any number of components, sampling factor and
height of the last row. `OutputInv` is about the rows: after a preload the arrays hold the last
scan and every row delivered or saved shows it (`FinalOK`), and with smoothing a row is delivered
only when the target can no longer change under it and the row below is as far as it must be
(`LeadOK`).

`Transform_proofs` proves, for every set of files and options (`JobsAssumption`, which only says
that the files are files, and `ColorsAreTold`, that their color space is what a decoder took it to
be) and every block size,

* `StaysInsideHolds`: `Spec => [](LumaIsFull(job) => StaysInside)`
* `OutputIsCombinationHolds`: `Spec => [](LumaIsFull(job) => OutputIsCombination)`
* `EdgesRightHolds`: `Spec => [](LumaIsFull(job) => EdgesRight)`
* `ColorsSurviveHolds`: `Spec => []ColorsSurvive`

The first three are not claimed of every job: they say `[](LumaIsFull(job) => ...)`, where
`LumaIsFull` fails exactly for a file that is to be made gray and whose luminance does not have the
largest sampling factors. `transupp.c` takes such a file and does not test for it, and there the
three are false (section 6). In the inductive invariant, `StageInv`, `Parameters` and `Loops` say
where `main()` and the loops stand and what the output's parameters are by then (`FinalOf`),
`SourceArrays` and `Workspaces` how large the arrays are, and `SourceBlocks` and `OutputBlocks` what
they hold: every block of the rows the loops have been over is `Moved`, and every source block still
to be read is where it was, which for the flip in place needs the order in which it swaps. The
geometry is separate: the workspace is requested before trimming, transposition and gray reduction
change the dimensions, and must cover the whole iMCUs of the output nevertheless (`FinalGeometry`,
`OutputFits`).
`FinalBlocks` and `SampleMoved` carry the result from blocks to samples, and `TurnsBack` shows that
no block is taken twice.

`ColorsSurvive` needs no `LumaIsFull`. `MarkersInv` says which markers have been written when;
`SelectedType`, that the list of those copied holds nothing but markers of the source that are no
duplicates, by following the loop. `ColorsTold` then goes through the cases of
`default_decompress_parms`: where the library writes an Adobe marker it is the only one in the
output (a decoder believes the last), and where it relies on there being no JFIF marker, in an RGB
file, the source can have had none, or it would not have been taken for RGB.

`Compress_proofs` and `CompressImage_proofs` prove for every set of parameters and every bound
(`ConfigsAssumption` and `SetupAssumption` give types only; `ScriptAssumption`, used for
`ImageIsSent` alone, says what the scripts of `jpeg_simple_progression` take for granted, and that
an application asks for one after `jpeg_set_defaults`)

* `RowsAccountedHolds`: `Spec => []RowsAccounted`
* `ScansCompleteHolds`: `Spec => []ScansComplete`
* `TablesReachReaderHolds`: `Spec => []TablesReachReader`
* `ImageIsSentHolds` (in `CompressImage_proofs`): `Spec => []ImageIsSent`

The first two follow from one inductive invariant `IndInv`:

* `TypesInv`: types, what exists in which `global_state`, and that a table marked sent has reached
  the reader;
* `PassInv`: `pass_number`, `scan_number` and `pass_type` agree, with and without optimization,
  and the scans written are those before `scan_number`;
* `MCUInv`: the MCUs done in this pass are those before the place where `coef` (or the call on the
  stack) stands;
* `CallInv`: the call on the stack fits `global_state`;
* `LinesInv`: the rows. `RowsCounted` relates `next_scanline`, the rows of the call, the rows the
  preprocessor has yet to see and the row `jpeg_write_scanlines` takes back when a call is
  suspended ("the suspension hack"); `NothingWaits` says which rows may be inside the library
  between calls; `GroupsInv` counts the rows in the colour buffer against the row groups made;
* `RawInv`: raw data come in whole iMCU rows.

`RowsAccounted` and `ScansComplete` alone are far from inductive: rows are counted by the
application in scanlines, by the preprocessor in row groups, by the main controller in iMCU rows
and by the coefficient controller in MCUs, and the connection is an arithmetic fact about
roundings. `GroupSums` and `RowFinished` do this at the end of an iMCU row, `RowsTakenIn` and
`ContextStep` inside the preprocessor, where context rows make it run one row group behind and the
bottom of the image is padded. The first part of `Compress_proofs` shows what the parameters that are accepted
imply: sizes (`ComponentSizes`, `LastRowGroup`, `LastBlocksOf`) and that every scan of a script
`validate_script` accepts names components that exist (`ScriptScans`), by following its loop.

`TablesReachReader` needs a second invariant, `TablesInv`, inductive relative to `IndInv`. A table
is used in one place, marked as sent in another and forgotten in a third, and the headers of a pass
are written at three different times: by the first call that brings data (`call_pass_startup`), at
the start of an output pass, or never in a pass that only gathers statistics.

* `StartupInv`: headers are put off only until the first rows;
* `ReaderInv`: the marker writer's restart interval is the reader's, and in a file that is to be
  complete a table marked sent is in this very file;
* `UsedInv`: the tables the encoder derived at the start of the pass are still those of `cinfo`
  (quantization tables also between passes, since only `start_pass_fdctmgr` takes them);
* `HeaderInv`, `FrameInv`: once the headers of the scan, and of the frame, are out the reader knows
  both, and every table they name is marked sent;
* `OwnInv`: from the end of a gathering pass to the end of the output pass after it, the tables of
  the scan are those made from its statistics.

What a header brings is stated once for any list of segments (`Brings`, `WrittenBrings`): by
following the fold over its segments a table is marked sent only if it is in the file, nothing
that was sent is forgotten, and the last word on restart interval, frame and scan is the header's.
`HeadersReach` applies it to each header that `prepare_for_pass` and `pass_startup` write.
`OwnInv` is disturbed where `prepare_for_pass` skips the gathering pass of a DC refinement scan;
`RefinementScan` shows that such a scan needs no table.

`ImageIsSent` has two halves. That every MCU is the ideal one (`MCUIsIdeal`) is part of a third
invariant, `DataInv`, again relative to `IndInv`, which says what the buffers hold and not only how
much of it:

* `KindInv`: who calls the coefficient controller in which pass, and that a pass from the arrays
  comes after one that filled them;
* `ArraysInv`: the arrays are filled up to the row `Filled`, real blocks and dummy blocks as
  `StoredBlock` has them, also while a first pass transforms a row again after a suspension;
* `RowsInv`: the main buffer holds the ideal row groups of its iMCU row (`BufferRight`), and the
  colour buffer the rows around the row group to come (`ColorBufInv`), with context rows through
  the three positions of the ring, the first row repeated above and the last one below.

`MCUPlaces` and `PlacesOrdered` say in which order `compress_output` visits blocks, `RealPlace` and
`DummiesRight` that its blocks and made-up blocks are those of the ideal image, whose definition
(`IdealMCU`) counts MCUs from the start of the scan; `DownsampledIsIdeal`, `DataStep` and
`ContextGroup` follow the preprocessor. The other half is about the scripts of
`jpeg_simple_progression`: `Leads` follows `validate_script`'s record of what has been sent through
a piece of a script (`Part`), for levels that differ only between DC, low and high AC coefficients
(`Levels`); `AnyScript` and `YCbCrScript` put the pieces together for every number of components,
and `ScriptInv` says that the script in use is still that one.

`InputControl_proofs` proves, for every set of files (`FilesAreBytes`), requests, limits and sizes
of buffer,

* `ScansAreCovered`: `InputSpec => []GeometryCovers`
* `OutputIsUpsampled`: `InputSpec => []OutputFits`

The sizes of the components are worked out at the first scan header, the shape of an MCU at each
later one, the DCT sizes when the decompression starts; in between the marker reader may be at any
place of any marker, suspended in it or not, in this datastream or a later one. The inductive
invariant `IInv` has three parts:

* `Readable`: what is needed of the source, the object and the marker being saved, so that every
  routine can be followed byte by byte: the object keeps its shape, a source never claims more than
  is there, an item being saved holds no more than was asked for, a frame header begun again finds
  the entries it made the first time (`Resumes`), and a frame that has been seen has a size, unless
  a second SOF is being read (`FrameIntact`);
* `SetUp`: once the first scan header has been read, the sizes (`Measured`) are those of the
  object as it is now (`Framed`), again unless a second SOF is being read, and what was set up for
  output still fits it (`FitsOutput`);
* `AtScan`: at a scan header the scan names components there are (`ScanOf`), and when the pass has
  started its geometry is that of `per_scan_setup` for this header.

The weight is on `SetUp`. A second SOF does change the frame: `get_sof` writes precision, size and
number of components as their bytes come up, before it suspends and before it refuses the marker.
But the reader stays at that marker, as each suspended call begins there again, or is in error, so
no scan is started with these sizes; and the entries of the components, with the sampling factors
the output was set up for, are written only behind the test. `FrameKept` states both for a step:
the sampling factors never change, and the frame is the same whenever the reader is not at an SOF.
`ReadStep` says it for one turn of `read_markers`, from a lemma about each routine
(`ProcessedMarker`, `SaveMarkerReads`) and about the search for markers (`NextMarker`). The
arithmetic is separate: `ScanCovers` (`RoundedTwice`, rounding up twice comes to the same as once,
so that the blocks of a component fill the MCUs of the image; `LastOfGroups`), and `SelectionFits`,
which rests on the size `ScaledSize` finds being a multiple of the smallest (`SizeIsMultiple`), so
that a component has as many samples as the pixels divided by the factor of the upsampler, rounded
up (`SamplesForPixels`). The invariant was checked by TLC on the instance of the run `markers` before it
was proved.

`Color_proofs` proves, for every set of images and pictures (`ImagesAssumption`: the planes cover
the output; `PicturesAssumption`: rows of pixels of one length) of any size,

* `TriangleFilterHolds`: `BothSpec => []TriangleFilter`
* `RowsAreConvertedHolds`: `BothSpec => []RowsAreConverted`
* `MergedIsSeparateHolds`: `BothSpec => []MergedIsSeparate`
* `PixelsAreConvertedHolds`: `BothSpec => []PixelsAreConverted`

The properties are about the last call only, and say nothing of where the next one starts; they
need an invariant. `OutInvariant` has three parts. `Position` ties `output_scanline` to the row
group on offer, to `next_row_out` in the separate upsampler and to `spare_full` in the merged one,
and to `rows_to_go`. `SpareGood` says that the row kept back is what the row to be delivered next
should be. `RowsGood` says it of each row of the last call, in three ways that differ for dithered
rows, for rows of `RGB_565` behind a misaligned one (`Converted565`), and for the rest. The lemmas
`SeparateStep`, `Merged1Step` and `Merged2Step` are one for each upsampler. `InputInvariant` is
the like for `ColorInput`: every row taken so far is in `color_buf` as its pixels require, whether
copied byte by byte or in words (`QuadsCopy`).

The rest is arithmetic for all samples. `RgbYccNear` and `RgbNear`: what the tables add up to in
fixed point differs from the equation by at most 0.6 of a step, stays in range where the code
does not limit it (compression), is a legal index of the range limit table where it does
(decompression), and a gray has neutral chroma. `FancyColumns` and `FancyBoth`: the two triangle
filters with their special first and last columns are within a half of the exact one.
`PackedColor`: of a 16-bit pixel only the low bits of each sample are lost.

Only model-checked:

* `ReadIsIdeal`, `ScanPositionsRight` and `LatchedTables` of the marker reader: that the bytes of a
  segment mean what `Datastream` says goes through the folds of `StreamBytes` and `Ideal` over
  whole files, and needs induction over data for each kind of segment;
* everything about the entropy coders and the quantizers, whose modules are built on RECURSIVE
  operators, behind which the prover has no arithmetic;
* `SamplesAreAverages` of `ColorInput`: `int_downsample` and the property add up a block of samples
  of any size with `MapThenSumSet`, and that the sums agree needs induction over the size;
* the liveness properties `SuspendedCallsEnd` and `EveryFileIsReadOut` (liveness under fairness and
  `ENABLED` are out of the prover's reach).

## 5. Plan

Done: everything of section 2. Left, in order of importance:

| module | models | properties |
|---|---|---|
| `Pools` | `alloc_small`, `alloc_large`, `free_pool`, `self_destruct` | accounting of `total_space_allocated`; nothing leaks |
| extension of `EntropyCodec` | the offsets of a progressive image in the Huffman index | a tile equals the same part of the image |
| `StdioSource`, `StdioDest` | `jdatasrc.c`, `jdatadst.c` | no byte lost or repeated at buffer boundaries |

## 6. Findings

Where a document or comment of the repository and the code disagree. Two have a run whose
counterexample shows it:

1. `crank_bottom`: in the second pass of two-pass quantization `post_process_2pass`
   (`jdpostct.c:224`) measures the distance to the bottom of the image from the top of the
   strip instead of from the next row of the strip. With strips of 3 or 4 rows (a vertical
   sampling factor above 2), calls of different sizes make it return rows past the bottom,
   and `output_scanline` exceeds `output_height`. With strips of 1 or 2 rows it cannot happen
   (run `rows`).
2. `codec_tile`: the offset of an MCU in the Huffman index is saved in whatever state the bit
   reader is in. When it has already met the next restart marker, the byte position saved lies
   behind that marker, and `jpeg_configure_huffman_decoder` (`jdhuff.c:572`) forgets that the
   marker was seen: at the end of the restart segment the decoder takes the following marker for
   it and loses a segment. Without restart markers tiles are right (run `codec`).

Others were met while modelling and have no run:

* `libjpeg.doc:1077` says that any integral ratio of sampling factors is supported.
  `jpeg_calc_output_dimensions` (`jdmaster.c:153`) enlarges the inverse DCT of a component by
  doubling; with a ratio of 3 and a reduced output scale it arrives at a size from which
  `jinit_upsampler` (`jdsample.c:178`) cannot go on, and the image is refused. The file `Thirds` of
  `MCInputControl` is one.
* The routines of `jdcolor.c` for `RGB_565` take a pixel off `num_cols` where a row is not aligned to
  32 bits (`jdcolor.c:260`), and do not set it again for the next row of the same call: a row
  loses a pixel at its end for each misaligned row before it. `RowsWhole` states the exception.
* The dithered routines for `RGB_565` choose the line of the matrix once per call, by
  `output_scanline` (`jdcolor.c:311`), and the merged 2:1 routine shares its two lines between the
  columns of a pair; so only the first row of a call is dithered for its position in the image, and
  how an image is dithered depends on the size of the calls. `FirstRowDithered` says what remains.
* `jpeg_finish_decompress` does not read until EOI in this build (`jdapimin.c:390`), though
  `libjpeg.doc:1997` says it does; and it accepts the call before all scanlines are read
  (`jdapimin.c:376`), which `libjpeg.doc:703` calls an error.
* `jpeg_consume_input` has no case for `DSTATE_RDCOEFS` (`jdapimin.c:324`), although its comments
  (`jdapimin.c:277`, `jdapimin.c:292`) say every state is listed and that it can be called at any
  time.
* The limit an application gives to `jpeg_save_markers` for APP0 and APP14 is raised to what the
  library itself wants to see, which `libjpeg.doc:2415` does not say.
* The one-pass quantizer maps a sample halfway between two levels to either of them, depending on
  how the breakpoint was rounded (`jquant1.c`, `largest_input_value`); `NearestColors` allows for
  it.
* `jtransform_adjust_parameters` gives the one component of a file made gray the sampling factors 1
  by 1, as if it had had the largest (`LumaIsFull` of `Transform_proofs`). In a file whose luminance
  is subsampled, which the library reads but does not write, the workspace and the source arrays are
  then smaller than the blocks the `do_` routines go over: TLC finds `StaysInside` violated when
  such a file is added to the instance (9 by 9 samples, luminance 1 by 1, chrominance 2 by 2).
* `jinit_2pass_quantizer` turns ordered dithering into error diffusion even when the one-pass
  quantizer, which has ordered dithering, is to be used in the first pass.

## 7. Not modelled

* *Tiles:* the offsets of a progressive image, `jpeg_read_tile_scanline` and its limits on rows
  and columns, `last_col_width` in tile decoding, the overflow of the 27-bit position in an
  offset, and a suspension while an index is built.
* *Memory:* the small and large object pools; the backing store but for its interface.
* *I/O:* the buffers of `jdatasrc.c` and `jdatadst.c`.
* *Markers:* `jpeg_write_marker`, processors of the application (`jpeg_set_marker_processor`), and
  arithmetic coding, which the build leaves out (`get_dac` only skips).
* *Numeric kernels:* the DCT, and the SIMD and assembly versions of all kernels. `OutputSetup` and
  `RowPipe` take the output formats Android adds (RGBA, 565) as RGB; `ColorOutput` has them.
* *RowPipe* leaves out raw data output and tiles; *OutputSetup* raw data output and quantized
  output.
* Message formatting, progress reporting and tracing change nothing the properties tell apart.
* The applications but for the order of calls in `jpegtran`, the OpenCL experiment and the memory
  managers of other platforms are not part of the library Android builds.
