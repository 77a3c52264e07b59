# A TLA+ verification of dlb_mp4base

`dlb_mp4base` turns elementary streams (AVC, HEVC, AAC, AC-3, E-AC-3, AC-4) into
MP4 files, progressive or fragmented. It is a C library of one thread: no locks,
no callbacks that re-enter it, and nothing it waits for. What is hard in it is
elsewhere: long sequences of calls that keep several lists in step, state that
is kept incrementally and read much later, cursors and marks shared between
functions, fields of a header stored before the header is confirmed, decisions
taken from an estimate before the facts are known, sizes computed in one function
and written by another, errors in the middle of a file, and limits (16 and 32
bits, fixed arrays).

The modules below are translated from the sources under `src/src`, never from
their documentation. Line numbers in comments refer to the sources.

## Inventory

| part | source | state | operations | modules |
|---|---|---|---|---|
| AVC reordering buffer ("apoc") | `esparser/parser_avc_dpb.c` | window `docs[]`, `pocs[]`, two-level map of display positions, `reorder_min` | `apoc_init`, `apoc_add`, `apoc_flush`, `apoc_set_num_reorder_au`, `apoc_reorder_num`, `apoc_min_cts`, `apoc_need_adj_cts` | `Reorder`, `DisplayOrder` |
| AVC parser | `esparser/parser_avc.c`, `parser_avc_dec.c` | NAL just loaded, slice compared with the one before, parameter sets, descriptions (DSI records), NAL file | `get_sample`, clone and update of descriptions, avcC | `ParserAvc`, `ParamSets` |
| HEVC parser | `esparser/parser_hevc.c`, `parser_hevc_dec.c` | as above, and the picture order count | as above, `need_fix_cts`, `get_cts_offset` | `ParserHevc`, `ParamSets` |
| AAC parser | `esparser/parser_aac.c` | last header read, description list | `get_sample`, `set_asc`, `set_config`, `set_signaling_mode`, the configuration of `esds` | `ParserAac`, `AacConfig` |
| AC-3 and E-AC-3 parser | `esparser/parser_dd.c` | substreams met, blocks collected, sample buffer | `get_sample`, `dec3` | `ParserDd` |
| AC-4 parser | `esparser/parser_ac4.c` | table of contents, presentations and groups | `get_sample`, `dac4` | `ParserAc4` |
| parser interface, muxing loop | `frontend/mp4muxer_dlb.c`, `esparser/parser.c` | one parser per stream | `mux_es_parsing` calls `get_sample` until the end | `EsParser` |
| track intake | `mp4_muxer.c`: `mp4_muxer_input_sample`, `chunk_update` | spool (tmp file), run-length lists of sizes and CTS offsets, dts, sync, sdtp, trik, subs lists, chunk list | one call per sample | `TrackIntake` |
| track and muxer life cycle | `mp4_muxer.c`: create, `add_track`, `setup_muxer` | tracks, time scales, edit lists, durations, the estimate of `moov` | as named | `MuxerSetup` |
| sample tables and boxes | `mp4_muxer.c`: `write_stts_box` ... `write_moov_box` | none of their own | one box each | `SampleTables`, `MovieBoxes` |
| progressive output | `mp4_muxer.c`: `write_mdat_box`, `write_chunk`, `modify_stco_boxes` | sink position, offset width, chunks written | called once, by `mp4_muxer_output_tracks` | `MdatWriter`, `ChunkMerge` |
| fragment planning | `mp4_muxer.c`: `create_fragment_lst` | cursors of dts, sync and stsd lists, fragment list | called once, before anything is written | `Fragmenter` |
| fragment output, indexes | `mp4_muxer.c`: `get_moof_*`, `prepare_traf`, `write_moof_box`, `write_mdat_box_frag`, `write_sidx_box`, `write_mfra_box` | traf under construction, cursors, sequence number | one round per fragment | `FragmentWriter` |
| stream lookup | `mp4_stream.c` | cached cursors | sample number to offset, size, time and back | `StreamLookup` |
| parser registry, DSI constructors | `esparser/dsi.c`, `util/registry.c` | registered parsers | create, destroy, look up | none |
| list with cursor and mark | `util/list_itr.c` | entries, current, mark | add, get, peek, save mark, go to mark | none of its own |
| byte and bit I/O | `util/io_*.c` | position, bit cache, buffer | read, write, seek | none |
| front end, `mp4_isom`, logging | `frontend/*.c`, `mp4_isom.c`, `util` | handles, options, constant tables | argument parsing, look-ups | none |

What flows between them: `mux_es_parsing` asks a parser for samples and hands
each to track intake; the video parsers write the composition offsets of the
samples when all are in (`Reorder` for AVC, the order counts for HEVC), and
`setup_muxer` puts them into the lists of the track; the boxes of `moov` are
written from those lists, and then either the chunks (progressive) or the
fragments that planning has cut. `mp4_stream.c` reads the tables back.

What makes each part correct, in one line: a parser delivers the frames or
access units of its stream, once each and in order, with a description that has
what they need; the reordering buffer gives every access unit one display
position and an offset that is possible and no larger than need be; intake keeps
chunks and lists a faithful account of the spool; every box is as long as it
says and the estimate of `moov` covers it; the tables decode to the samples;
progressive output puts every chunk where `stco` says, whole and in time order;
planning cuts a track into fragments that cover it, start where they must and
are no longer than allowed; fragment output writes the fragments planned; the
lookups answer as a search without a cursor would.

The hazards of the code, each at its line and with the properties that would
catch it, are in `PROJECT.json` under `hazards`; those with a note in place of a
property are not covered, for the reason given.

## Modules

| module | role |
|---|---|
| `Reorder` | the reordering buffer, the calls `parser_avc.c` makes on it, and the mapping to `DisplayOrder` |
| `DisplayOrder` | what the buffer promises: hold access units, show the one that comes first once more than the announced number wait |
| `ReorderProofs` | theorems about `Reorder`: bounds and offsets; it implements `DisplayOrder`, and conforming streams are presented by POC |
| `EsParser` | what every parser promises the muxing loop |
| `Resync` | which positions a byte-by-byte search comes by when some bytes swallow the next one; used by `ParserAac` and `ParserAc4` |
| `ParserAac`, `ParserDd`, `ParserAc4`, `ParserAvc`, `ParserHevc` | `get_sample` of each parser, with the descriptions it makes |
| `Parsers` | the five parsers and `AacConfig`, one of which runs, and the properties of all |
| `ParserProofs` | theorems about the parsers: all implement `EsParser`; audio samples are the frames of the stream; HEVC order counts |
| `AacConfig` | reading and writing of AudioSpecificConfig |
| `ParamSets` | lists of parameter sets, which AVC and HEVC share |
| `TrackIntake`, `TrackIntakeProofs` | `mp4_muxer_input_sample` with `chunk_update` and the lists, and theorems |
| `MuxerSetup` | from `mp4_muxer_create` to the end of `moov`; extends `MovieBoxes`, which extends `SampleTables` |
| `SampleTables` | the entries of `stts`, `ctts`, `stss`, `stsz`, `stsc`, `stco` from the lists of a track, and what intake leaves in those lists |
| `MovieBoxes` | for every box in front of the media, its size and what is written into it |
| `StreamLookup` | the queries of `mp4_stream.c` on those tables, with their cursors |
| `MovieProofs` | theorems about `StreamLookup`, then about `MuxerSetup` with its boxes: both rest on what `SampleTables` computes |
| `MdatWriter`, `MdatWriterProofs` | from the choice between `stco` and `co64` to the patched offsets, and theorems |
| `ChunkMerge` | what `write_mdat_box` promises of the order of chunks |
| `Fragmenter`, `FragmenterProofs` | `create_fragment_lst`, and theorems |
| `FragmentWriter`, `FragmentWriterProofs` | the fragment part of `mp4_muxer_output_tracks`: scheduling of tracks, what goes into each `moof` and `mdat`, `tfra` and `sidx` entries; and theorems |
| `Sums`, `SumsProofs` | sums over lists, which the modules about sizes and counts use, and what can be proved of them |
| `MCReorder`, `MCTrackIntake`, `MCMdatWriter`, `MCFragmenter`, `MCFragmentWriter` | instances of one module each |
| `MCMovie` | `MuxerSetup` on movies, or `StreamLookup` on tracks |
| `MCParsers` | streams for `Parsers`, put together from a few units of each kind |

Definitions whose names begin with `Mut` are planted faults: copies of the
definition that follows them with a small mistake in it. No specification uses
them; putting one in place of its original shows that the property it is paired
with (`mutants` in `PROJECT.json`) can fail.

### Reorder

`docs`, `pocs`, `dpCnt`, `dpCntMax`, `docNext`, `reorderMin`, `pocOutNext` are
the fields of `apoc_t`; `pocOut` is the two-level map and `mapSize` the extent
of its allocated sections. `AddPicture` is an access unit inside a sequence
(`apoc_add`). An IDR or the first access unit is `BeginSequence` (the parser
calls `apoc_flush`), `FlushOne` once per turn of its loop, and
`AddSequenceStart` (`apoc_set_num_reorder_au`, `apoc_add`). `EndStream` and
`StreamFlushed` are the last flush. `stream` is history: which sequence, depth
and POC each access unit came with. POC 0 to 2 in any order, repeated or not,
includes streams that break the depth they announce.

The depth is any number. `num_reorder_frames` is a byte taken from the SPS as it
is (`parser_avc_dec.c:514`), doubled for field coding (`parser_avc.c:2030-2037`),
and neither there nor in `apoc_set_num_reorder_au` compared with `DP_CNT_MAX`, so
that from a depth of 33 on the code does write `docs[33]` and `pocs[33]`. In the
model that append is `Overrun`, after which there are no steps, the behaviour
being undefined. `WithinBounds` says that it is the only way out of the arrays:
it takes a sequence that announces `DP_CNT_MAX` or more *itself* and
has that many access units waiting; what an earlier sequence announced or left
behind does not matter, which is what the flush before a change of depth is for.
H.264 allows 16 frames, 32 with fields.

`Shown` inverts the display map: the access units in the order of their
positions. With it `Abs` is `DisplayOrder`, and a call that outputs two access
units is one call there too.

### Parsers

A parser works on a sequence of units that it treats differently, never on
bits: bytes for AAC and AC-4, some of which begin a header, substream frames for
AC-3 and E-AC-3, NALs for video. Headers come with the fields the grouping looks
at. `out` are the samples handed over,
`status` is "open" or the code `get_sample` returned in the end.

* `ParserAac`: the scan for a header, the second look that confirms it, and the
  fields that are stored before that. Any byte of a frame or a header may look
  like a header. Behind a header that is not confirmed the scan goes on at the
  next byte (`pos_sync + 1`), but where the second look finds 0xFF and no sync
  word (`HalfConfirmed`) at the one after that (`pos_sync + 2`,
  `parser_aac.c:170`): a header between the two is passed over (`Skipping`,
  `Resync!Reached`). A second look beyond the end of the stream reads a byte that
  `src_read_u8` leaves uninitialised (`io_base.c:167`). Whether it is 0xFF is the
  field `past` of the header, chosen freely, but once for a header: the calls
  before that read, which decide what is left in the byte, are the same each time.
* `ParserDd`: a step loads one substream frame; only the header of the next one
  shows that a frame is complete. The stream may stop in a header or a payload.
  The last payload, when it is cut short, counts whole, in the code as in the
  model: sizes and durations come from the header, and what is missing of the
  data is not noticed.
* `ParserAc4`: the search for sync words, in which a 0xAC of no sync word
  swallows the next byte even if that is the 0xAC of one (`parser_ac4.c:280-298`);
  what one table of contents leaves in the parser for the next, the channel mode
  of each presentation, and for `dac4` the lengths as computed and as written.
* `ParserAvc`, `ParserHevc`: a step loads one NAL. An access unit ends where the
  code sees that the next begins. Parameter sets go to the latest description,
  or open a new one, a copy of it. For HEVC, `poc` of a slice is the true order
  count, of which the stream has the low bits; `PocMsb` rebuilds the rest as
  `parse_slice_header` does.
* `AacConfig`: the fields of a configuration with their widths. Writer and
  reader decide which fields there are, each from the values it has.

`EsParser` is the promise of all: samples one by one, the first at time 0 and
with a description, each when the one before has ended, then the end or an
error, and nothing after it. A call that answers that the configuration is
missing passes over its sample and leaves a gap.

### TrackIntake

One step takes one sample, or drops one of size 0. The run-length lists, the
sync and stsd lists, the chunk list, `chunk_dts_top`, the end of the spool and
the durations are the track's fields. The inputs are what parsers deliver:
decode times start at 0 and grow (also by more than the chunk span), the first
sample brings a description.

### MuxerSetup, MovieBoxes, SampleTables

`AddTrack` is `mp4_muxer_add_track` with the ID and the sample entry the user
wants; a stream comes with the lists intake has filled. `Setup` is the setup of
one track in `setup_muxer`: time scales, `update_ctts`, edit lists, the estimate
of `trak`; the movie's part follows, and `moov` is written, or an init segment
instead. A box is given by the size in its header, the bytes it takes up, and
the pairs of these two numbers for every box in it, so that a size that is
announced before the content can be compared with what is written. Several boxes
in a row (`Row`) have the sum of their bytes, and one that is left out
(`Optional`) has none. Dereferencing a sync sample that is not there ends in the
phase "undefined".

`Movie` and `Track` are the records of `mp4_ctrl` and of a track, `IsStream` what
may be added: a track with the lists of intake (`IsIntaken`), or without samples,
and without edits, which only setup makes. An enhancement layer follows its base
layer, because the front end adds it next (`ema_mp4_mux_api.c`, 552 to 571).

### StreamLookup

One step is one query. The cursors of `stts`, `ctts`, `stsc` and `stss` are the
entry they stand at and the sample and time before it; the answer is compared
with what the track's lists say of the sample. Tables are in memory as a whole.
Tracks are those of intake: `IsIntaken` says that decode times grow, that the runs
of sizes and composition offsets are those of all samples and that the chunks
divide them up (what `RunsAreFaithful` and `ChunksDescribeSpool` say of
`TrackIntake`). Run `movie` evaluates it for the tracks it looks up.

### MdatWriter

One step is one box or one turn of the chunk loop. A fault may cut a chunk
short at any byte, by a short read (the copy goes on with what is left of the
chunk) or a failed write (it returns). `moovSizeEst`, `udta` and the real end of
`moov` are chosen freely, because the estimate is a guess: the run looks at
every relation between the guess, the truth and the 32-bit limit, with `MaxU32`
in place of 2^32 - 1. (That the estimate covers the truth is `EstimateCovers` of
run `movie`.) Chunk lists come as `IsSpooled` describes them, each chunk in the
spool where the one before it ends (`ChunksDescribeSpool` of run `intake`);
`place` is history and keeps that position when `offset` has become the one in
the file.

### Fragmenter

One step is one turn of the while loop. The cursors of the dts and sync lists
move together and are one variable; the cursor of the stsd list is another. The
three passes of the loop are three operators applied one after the other to a
cut: `ToSync`, `TakeRest`, `FillUp`.

### FragmentWriter

Takes tracks as `Fragmenter` leaves them: `IsPlanned` says what is proved of a
plan (theorem `FragmentsCover`), that the run-length coded sizes are those of all
samples, and that times use no more than half of their 64 bits (the end of the
last fragment is a sum of two of them). One step prepares all tracks that are due
(`get_moof_ccff` with an empty queue), or writes one fragment: `MoofBox` is
`write_moof_box`, `MdatBox` is `write_mdat_box_frag` with
`modify_base_data_offset` and the update of `sidx`. `written` stands for the
cursors of the dts, sync and trun size lists, which move together;
`mdatSizes` is the second cursor in the sizes, that of `write_chunk`. Times
carry no composition offset, all boxes of a `moof` together have `MoofSize`
bytes, and `sidx` is written as in the mode without a Dolby Vision second track
(`dv_track_mode` is `SINGLE`). Tracks have their IDs in ascending order.

## Runs

| run | expects | what it asks |
|---|---|---|
| `reorder` | pass | array bounds, one position each, possible and tight offsets, presentation by POC, offsets never withdrawn, the flush ends, refinement of `DisplayOrder` |
| `intake` | pass | chunks describe the spool, respect span, size and description; lists decode to the samples |
| `movie` | pass | track IDs are usable, every box is as long as it says, the estimate covers `moov`, tracks start and end together; cursors of the lookups stand at entries and every answer is right |
| `parsers` | pass | samples are the frames or access units, descriptions have what their samples need, HEVC composition times follow the order counts, sizes of `dac4` agree, all parsers implement `EsParser` |
| `mdat` | pass | chunks read from their own place, `mdat` filled, `stco` right, refinement of `ChunkMerge` |
| `fragments` | pass | the fragments cover the track, respect descriptions and durations, are short for a reason, start at sync samples when they can, and the loop ends |
| `writer` | pass | fragments written are those planned, in decode order; payload sizes, `tfra` and `sidx` entries agree with them; the output ends |
| `mdat_co64` | violation | offsets fit their width when `udta` is written |
| `fragments_long_sample` | violation | no fragment is empty when a sample is longer than the maximum |
| `fragments_rap` | violation | the message given when the cut fails is true |
| `writer_descriptions` | violation | the description index of every track, not only of the first |
| `avc_clone` | violation | a description cloned for a changed set keeps the other sets |

The five violations are disagreements between the code and what a comment or a
message of it says; `findings` in `PROJECT.json` quotes each.

Bounds, and why they are enough:

* `reorder`: four access units, a window of three entries, sections of three
  entries, depths 0 to 3. The window is filled and flushed, a depth of 3 overruns
  the arrays, depths grow and shrink, and the map needs a second section. Its safety properties are
  proved for all sizes besides.
* `intake`: four samples, steps of 1, 2 and 5 against a span of 2 and sizes up to
  2 against a limit of 3, so that every reason to start a chunk occurs alone and
  with the others, and a gap passes two boundaries at once. A track with a span
  of 0 (no interleaving) takes the branch that leaves `chunk_dts_top` alone; it
  is in the module and the theorems, not in the run.
* `movie`: up to two tracks out of 19 streams, one for each kind of sample entry
  and for each special case of setup (no samples, fixed and changing composition
  offsets, enhancement layers with and without a base, edits, long times);
  four configurations of the muxer that between them switch on every optional
  box; wanted IDs that are free, taken, or to be taken later. 1500 as the largest
  32-bit value lies among the times. Lookups: tracks of up to four samples, in
  four groups that vary times, places, sync samples, or have one sample; queries
  go to any sample in any order, past the end too, so that every cursor moves
  forward, stays and starts over.
* `parsers`: AAC streams of up to three units out of thirteen, each one or two
  bytes (headers of two bytes with lengths from -1 to 9, headers right behind the
  0xFF of another, 0xFF alone), and of four and five out of five units: headers are
  passed over behind one that is confirmed by half, within the stream or by what
  is read beyond its end, and others, in runs of such headers, are not; AC-3 and E-AC-3 up to four substream frames,
  stopped at every place; AC-4 up to three frames over twelve tables of contents,
  with 0xAC bytes alone and in a row before, in and between them;
  AVC and HEVC up to three access units, with parameter sets that repeat, change,
  and come between. `MaxNals` is 7 and 8, so that an access unit may be too long.
  HEVC order counts with 8 as the range of the low bits, pyramids of up to ten
  pictures, so that they wrap, and a second sequence.
* `mdat`: three tracks are the least for which the first track due is not
  simply the other one; lists tie and overtake; sizes straddle the limit for the
  offset width and, for the longest ones, the limit for the header of `mdat`.
* `fragments`: all tracks of up to five samples of length 1 or 2, every set of
  sync samples, up to two descriptions; subtitle tracks of up to three samples
  of length 1 or 6; three ranges (one of them refused).
* `writer`: single tracks of one to three samples with every set of sync samples,
  pairs with different time scales and all samples sync; every way to cut them;
  one run of sizes or two, with cuts inside a run; one description or two.
  With `Micro` = 2 and scales of 1 and 3, unequal times round to the same tick.
  `NoDts` is larger than any time, as 2^64 - 1 is; 16-bit fragment counts do not
  wrap at these lengths.

Deadlock checking is on for `movie` and off elsewhere: those models end where
the program returns.

Fairness: `Reorder` assumes that `apoc_flush` and the call after it run on (weak
fairness of `FlushOne`, `AddSequenceStart`, `StreamFlushed`); nothing is assumed
of the stream, which may stop. `Fragmenter` assumes that the loop runs on,
`FragmentWriter` that the output goes on. All are one thread and wait for
nothing, so a step that can be taken is taken.

## Proofs

Every safety property of runs `reorder`, `intake`, `movie`, `mdat`, `fragments`
and `writer`, and the refinements of `DisplayOrder`, `ChunkMerge` and `EsParser`,
are proved for every value of the constants that satisfies the modules'
assumptions. Some theorems have a hypothesis besides:
`MdatFilled` (no `udta`) and `PlanCompleted` (the number of fragments fits its 16
bits in the default style) say where the code's promise ends, and are explained
below; those of `StreamLookup` and `MuxerSetup` are about tracks as intake leaves
them.

**Sums** (`SumsProofs`): sizes, counts and durations are sums over lists, which
are recursive, and induction is not at hand. The lemmas are had from
well-foundedness instead: were one false, there would be a least place at which it
fails, and it holds at the one before (`Upwards`). `SumExists` builds the function
of partial sums, `SumsAgree` says that there is one only, and from these follow
that a sum can be extended by an entry, split, moved, and compared (`SumNext`,
`SumSplit`, `SumShifted`, `SumSame`, `SumOneChanged`).

**Bounds and offsets** (`ReorderProofs`, first part): for any stream length, POCs,
depths, array size and section size, `WithinBounds`, `OffsetsAreTight`,
`DisplayIsPermutation` and `MapSectionsAllocated` are
invariants and `OffsetsShiftTogether` holds of every step. The inductive
invariant `IInv` says what the window looks like: its docs are in decoding
order and not yet displayed; entry *i* is at most `poc_out_next + i` (only
`poc_out_next` access units have gone, so at most that many docs are missing
below it); from index `reorder_min` on it is exactly that (no access unit has
ever been taken from so far back); and whatever lies past the allocated sections
of the map is the end of the window. From the second follows that the access
unit taken at index *k* never needs a delay above *k*, from the third that a
delay that grows to *k* is needed by it, and from the last that one section per
call is enough. `AppendKeeps` and `OutputKeeps` are these arguments, free of the
state; `AddStep` and `OutputStep` carry them over to `apoc_add` and
`apoc_update`; `NextIInv` has one step per action. `OffsetsShiftTogether` needs
`NextAdvances`, that a step never takes back a position.

**Refinement** (`ReorderProofs`, second part): `BufferImplementsDisplayOrder`. To
`IInv` it adds that the window holds access units of one sequence together with
their POCs (`OneSequence`), and that each access unit not displayed is in it
(`AllHeld`). Then the entry `apoc_update` picks by comparing POCs in the array
is the first in display order of all that wait (`FirstIsNext`), and the number
kept is the one announced (`WaitingFits`).

**Display order** (third part): `PresentationFollowsPoc`. What must be
shown is that an access unit that arrives late never belonged before one already
displayed. `Crowded` is the reason: when one is output while its sequence goes on,
as many access units as the depth announces, none before it, have come; a later
one before it would be preceded in decoding order by more than that many that
follow it, which a conforming stream rules out. `NoneLeftBehind`, `PocOrder` and
`ReadyInTime` carry this over to positions. `BoundsAreKept` comes last: it needs
that the window is of one sequence (`OneSequence`) and that the depth in force is
that of the sequence (`DepthIs`).

**Track intake** (`TrackIntakeProofs`): `RunsAreFaithful` for the run-length
lists, whose coding is stated by a predicate (`Codes`) that one more sample
preserves; `ChunksAreWithinLimits`, for which `ChunkInv` says that the last chunk
ends at the last sample and that `chunk_dts_top` is never a span or more ahead of
a sample of it; and `ChunksDescribe`, that the chunks divide the samples up and
count their bytes. For the last, `SpoolInv` adds that the spool ends where
`mdatSize`, which is counted sample by sample, says, and that sample numbers in
the lists are those of samples.

**Fragment planning** (`FragmenterProofs`): `FragmentsCover`, `DurationsInRange`,
`ShortFragmentsHaveReasons` and `EvenlySyncedTracksAreCut`, for tracks of any
length and times. `CutStops` says of one cut where it stops relative to the
largest time allowed, for each of the three passes; `CutInv` says where the
cursors stand between two turns (`Standing`, `DescriptionsMet`) and what the
fragments so far are like (`Chained`, `OneEach`, `InRange`, `NotShort`,
`EmptyOnlyIfTooLong`, `FromSyncs`). Least and greatest elements come from
well-foundedness of `<`. `FragmentsCover` is what `FragmentWriter` assumes of a
plan.

**Progressive output** (`MdatWriterProofs`): `ChunksAreReadInPlace`,
`OffsetsAreThoseWritten` and the refinement `ChunksAreMerged`, for any number of
tracks, any chunk lists, and a fault at any byte. `Chosen` is the heart of it:
whichever way `write_mdat_box` comes to the next track, by finding one due at
`dts_out` or by looking for the least time, it is the first of those whose next
chunk is the earliest. That needs `TimeBelow`, that no track waits with a chunk
from before `dts_out`, and so that lists ascend. With it `MdatInv` says that the
spool of a track stands where its next chunk lies (`ReadsOn`), which is all that
replaces a seek, that the chunks written came from their places (`FromPlaces`),
and that they are those counted, each once and where the list now says
(`Accounts`). The last two parts differ when a chunk breaks off: it is in the
file but not counted, and the merge of `ChunkMerge` ends before it (`Whole`).

`PayloadIsWhole` and `MdatFilled` are about sizes: `mdat`'s size is written before
a chunk is, from sizes added up over tracks and chunks. `FillInv` adds to
`MdatInv` that the file has grown by the chunks counted off so far (`Payload`),
which chunk by chunk becomes the size announced. `FitInv` remembers what the choice
of `stco` was based on: if the estimate is kept, or is checked against the truth
as `write_mdat_box` does, no offset is above the limit. With `udta` the estimate
grows after the choice and this fails (run `mdat_co64`), hence the hypothesis of
`MdatFilled`, `UdtaSizes = {0}`; `PayloadIsWhole`, all the rest of it, needs none.

**Fragment output** (`FragmentWriterProofs`): for movies of any number of tracks,
with any times, scales, plans, runs of sizes, descriptions and sync samples.
Fragments are planned by sample number, prepared with a decode time to stop at,
written by walking decode times, and measured twice by walking runs of sizes. The
argument is that these walks meet at the edges of the plan. `WriterInv` says so:
`Cursor`, that the next fragment of a track, the samples written of it and
`frag_dts` all stand at the same edge, also between preparing a fragment and writing
it; `MdatCursor` and `SdCursor`, that the second cursor of the sizes and the one
of the descriptions follow; `Written` and `Counts`, that the fragments written are
the plan's, from the first on; `Placed`, that boxes follow one another. Then:

* `PayloadsMatch`: both walks over the runs find the bytes of the samples
  (`SizeIsBytes`, `ReadIsBytes`), from any place in a run to any other.
* `PlanFollowed`: a fragment written is the one planned, with the description of
  its samples if it is of the first track (the others are the violation of run
  `writer_descriptions`). That no time in the plan wraps is where half of the 64
  bits come in (`TurnEnds`).
* `PlanCompleted`: nothing is left when the loop ends. In CCFF style it ends in a
  round in which no track that is earliest has a fragment left. A track with
  samples left has a fragment left, by `Cursor`, so one would be ready if any
  track had anything to write (`NoneReady`). In the default style rounds are counted with the 16-bit
  `sidx_reference_count` of a track, so that 65536 fragments would be none:
  `CountsFit` is the hypothesis that they are fewer, or the style is CCFF.
  `Rounds` keeps fragments left and rounds left equal while a round is under way.
* `DecodeOrder`: `Scheduled` says that all prepared fragments start no later than
  any fragment due, and none starts before the last one written; rounding to
  microseconds keeps order (`MicrosGrow`).
* `SidxDescribes`: `SidxInv`, that entries keep up with the first track's
  fragments until as many were added as had been counted.
* `TfraIndexes`: `TfraInv` pairs a track's entries with the samples they are for,
  a list in ascending order that holds every sync sample written (`TfraAt`); the
  entries of a `moof` are therefore next to one another, the one of its first sync
  sample foremost, and the removal in `write_mfra_box`, which keeps an entry if it
  names another `moof` than the one before, leaves just these (`TfraFirsts`).

**Stream lookup** (`MovieProofs`, first half): `CursorsNeverDrift` and `LookupsAnswer`,
for tracks of any length and any sequence of queries. The first half is about the
writers, whose recursive functions are unfolded entry by entry (`Iterates`): `stts`
as written counts all samples, and its spans up to any sample add up to its time
from the first one's (`Describes`); the entries of `stsc` name, each from its
first chunk on, the chunks up to the next entry's (`Covers`); `stsz` has the size
the runs have (`TableOfRuns`); without an `stss` every sample is a sync sample
(`AllSync`), or the user does not want to know. The invariant `IInv` then says of
each cursor that it stands at an entry and holds the samples, the time or the chunk
before it (`SttsSits`, `CttsSits`, `StscSits`, `StssSits`). It matters to both
ways a query moves a cursor: from the beginning, the sums are those of the table;
from where it is, they are continued. What a search from there finds is the entry
that holds the sample, and so is what a search from the start would find. One
lemma per query compares the answer with the lists: the decode time found by `stts`
with `dts`, the number found by time with the last sample not after it, the chunk
of `stsc` and the sizes before the sample in it with its place in the spool's
chunks.

**Setup and boxes** (`MovieProofs`, second half): for movies of any configuration
with any number of tracks, as intake leaves them and in any order in which the
front end can add them. `SetupTyped`, the invariant the others rest on, has the
types of all that setup computes (`SetupTypes`).

* `IDsAreUsable`: as long as a track may be added, one of the numbers up to
  `MAX_STREAMS` is unused (`FreeId`, by counting), so that the search for an ID
  finds one; with the next ID above all, `IdsApart` is inductive.
* `PresentationHolds`: `PresentInv` splits the tracks in two, those not yet set up,
  which are as they were added (`Untouched`), and those set up, which are
  presented from time 0 (`Presented`), and says that the movie so far is as long
  as the longest of the latter (`Longest`). An enhancement layer takes the sync
  samples of its base layer before its own setup; that it has as many samples
  follows from the error when it has not.
* `BoxesAreReadable`: a box is well-formed if what is in its header is what it
  takes up, and so are the boxes in it (`Fine`); a measured box is, if its
  children are, and an announced one is, if its announcement is the sum of the
  fields: one lemma for each box. The tables decide on those sums, hence the
  lemmas that every table has as many entries as are announced; and for
  descriptors, that the bytes of a length are those it needs. `OutIs` says which
  boxes there are in each phase.
* `EstimateIsEnough`: `EstimateIs` follows the estimate through setup, where it is
  a sum over the tracks set up so far, each with its `TrakEstimate`. It must be
  compared with boxes measured later, from tables that do not exist yet: no table
  has more entries than the estimate counts for it (`MostTrak`). The estimate of
  one track counts the 120 bytes of `mvhd`, which are counted for the movie
  again. What it leaves out, `tref`, `pasp` and `esds` around the decoder
  configuration, takes up 77 of them at most, so 43 are to spare; the 8 bytes of
  the header of `moov`, which nobody counts either, are covered by those of the
  first track (`MostTraks`). The theorem holds of what `Counted` names: a longer
  name, a second description or a box added by the user is not in the estimate.

**Parsers** (`ParserProofs`): `ParsersKeepPromise`, the refinement of `EsParser` by
each of the five, for streams of any length made of the units that `IsStream` of
the parser's module describes. `StreamsAssumption` has what the promise rests on
besides, and run `parsers` evaluates it for its streams: the frames of a Dolby
Digital stream have one number of blocks, the sequence sets of an AVC stream one
frame rate (a stream that changes either moves the times of the samples before
it), and an HEVC stream has a frame rate from somewhere. `Paced` is the invariant,
one conjunct for each parser; what it takes differs:

* AAC and AC-4 keep the time as a sum; the last sample ends where it stands.
* E-AC-3 counts blocks. `DdAt` says that a frame being collected has a multiple
  of the block count, below six. A sample is complete with the first multiple
  that is no longer below (`Enough`), and two such multiples are the same
  (`MultiplesAreApart`), so that all samples have one length although nothing in
  the code says so.
* The video parsers multiply the count of units by the ticks of one (`Regularly`):
  samples of one length with gaps of whole units where one was passed over
  (`Counted`). For AVC, that a first sample opens a description needs an argument
  of its own: a sample is delivered only when its picture set is known, sets are
  known only after one was stored, and the first to be stored finds the list of
  its kind empty, even in a record cloned for a sequence set before it (`Bare`,
  `AvcStores`, `AvcTakes`).

`FramesAreDelivered`: the samples of the three audio parsers are the frames of the
stream, for streams of any length. For AAC and AC-4 the property names what the
code does pass over, and nothing else: a header that begins right behind the first
byte of an AAC header confirmed by half, and an AC-4 sync word right behind a 0xAC
that is none (a header within a frame that is delivered is not looked for).
`IsStream` says only what the fields of a unit can hold, and for bytes that a sync
word begins with its first byte and that two 0xFF in a row make one; so any mixture
of headers, junk and sync words in payload is a stream;
for E-AC-3 it also says that substreams have IDs below `MaxStreams` (three bits in
the header), that a frame's blocks divide a sample's, and that an AC-3 frame has
them all. `FrameInv` is the invariant, one conjunct for each parser:

* AAC (`AacInv`): a sample ends where the parser stands, so that the next header
  lies behind it; the descriptions are those that samples have opened so far
  (`OpenedBy`), so that a sample's description is the one of its header; every
  header whose frame is confirmed is in a sample, still ahead, or swallowed
  (`AacComesBy`: a scan comes by every header that is not). Before the first
  sample there is a description already, made in `InitParser` from the first
  header, hence the special case.
* E-AC-3 (`DdInv`): of a sample, the frames are collected substream by substream
  and a header that does not fit is dropped with what was collected. `DdSound`
  says that the substreams taken so far are whole frames in order up to the last,
  where the parser stands in that one (`lastIndep`, `lastDep`), and that no frame
  begins in what was passed over (`ClosedIn`). That nothing is lost of a stream
  whose frames are all alike needs `DdSteady`: how far the parser is in a frame
  (`InPhase`), that a header never fails to fit there, which substreams it has
  entered (`Known`), and that what is collected is the run of units behind the
  last sample (`RunOf`). When the data end, the run is shorter than a sample.
* AC-4 (`Ac4Inv`): samples are the frames behind sync words, each found from the
  end of the one before (`SyncFrom`, `FrameEnd`), and a sync word is in a frame,
  still ahead, or swallowed (`Ac4ComesBy`).

`UnitsAreDelivered`: the samples of the video parsers are the access units of the
stream (`AccessUnits`), for streams of any length that are `Whole`. What this asks
(`WholePictures` of each parser) is that pictures can be told apart as the standards
require. HEVC: a slice that does not begin a picture follows a slice with no
delimiter between, a delimiter or SEI has a picture behind it, and there is a
picture; all HEVC streams of run `parsers` are whole. AVC: a PPS that a slice can
fall on is ahead of it, `pic` differs from one picture to the next, a redundant
slice follows its picture, what hides slices follows a slice, and delimiters, SEI
and sets have a picture behind them. Of the well delimited AVC streams of run
`parsers` three quarters are whole; the others have no PPS ahead of a slice, and
what is collected there is only model-checked. `UnitInv` is the invariant, one
conjunct for each parser:

* HEVC (`HevcAu`): what is kept is what `Keeps` lets through from the end of the
  last sample on (`HUnit`, `UFrom`); the type that is noted is the one of the first
  slice, and no NAL behind that slice ends the unit. A sample stops at the end of
  the stream or ahead of a NAL that does (`HEnded`).
* AVC (`AvcAu`): a unit is compared with the decoder, so `DecAt` says what the
  decoder knows when a NAL is taken: the delimiting class of the NAL before, unless
  it hides, the picture of the last slice, whose set is the one it was parsed with
  unless sets came since, and that sets met are defined. `Looked` is what phase 1
  adds of the slice ahead. An open unit has no picture yet (`AWaits`), or one picture
  with nothing but VCL and hiding NALs behind its first slice, and the NAL ahead
  belongs to it (`APicture`, `AJoins`). It ends only where the next slice is of
  another picture (`APart`); `AvcBegins` is where `Starts` is shown to be exactly
  that.

A unit that was passed over (`failed`) has no sample, so where the next sample
begins cannot be read from the samples: the property and both invariants speak of
streams without one.

`OrderCountsAreRebuilt`, for any even range of the low bits: the upper part of an
HEVC order count guessed from the picture before is right whenever the counts are
no further apart than half the range, which is exact on both sides.

Only model-checked: liveness (`FlushEnds`, `CutEnds`, `OutputEnds`), which is out
of the prover's reach; of run `parsers`, the invariants that compare composition
times with the order counts of the whole stream (`CtsFollowsPoc`), what was
collected in descriptions with what samples use (`ConfigDescribesStream`, whose AAC
half folds over the fields of a configuration, `ModesOfOwnGroups`,
`SetsInDescription`), or two recursive computations of one size
(`ConfigSizesAgree`), and `AccessUnits` of the streams that are not `Whole`; and the
expected violations.

## Not modelled

* Syntax at the level of bits: what a header says is a field of a unit. Byte and
  bit I/O, the buffer and its cache are therefore left out, except for alignment
  and the test for the end of the data where `AacConfig` depends on them.
* The list of `util/list_itr.c` as a module: its operations are part of the
  actions that use them. That a mark is saved and used in pairs is not checked.
* Parser registry, constructors of DSI records, argument parsing, the setters of
  the API, `mp4_isom`, logging: constant tables, or one assignment each.
* Intake: the sdtp, trik, subs and frame type lists, bit-rate sums.
* AVC: the order count itself (`Reorder` takes it as input), enhancement-layer
  NALs. All SPS contents of the instance have the same timing: a sequence that
  changes it would move decode times, which `EsParser` does not describe.
* HEVC: `CtsFollowsPoc` is about streams of one temporal layer, because only
  pictures of layer 0 set the count composition times are taken from; streams
  of the run have one SPS identifier, because the code files all of them under 0.
* Fragments: flags of `tfhd` and `trun`, `tfdt`, `sdtp`, `subs`, `trik` and
  `avcn` boxes, `ssix`, the field widths of `tfra` and `sidx`. Encryption hooks
  are not compiled in this configuration.

## Plan

Done: all components of the inventory with a module. What could follow:

1. A composition of `Fragmenter` and `FragmentWriter`, so that plans need not be
   assumed, and the rest of a fragment's boxes.
2. `TrackIntake` and `MdatWriter` sharing the spool.
3. `ListItr`, the list with one cursor and one mark; `BitIO`, the bit cache and
   the growing buffer.
4. Proofs: that a track of `TrackIntake` satisfies `IsIntaken`; that the sets a
   picture uses are in the description of its sample.
