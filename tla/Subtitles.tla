------------------------------ MODULE Subtitles ------------------------------
(* Operations on subtitle files: FormatConverter::convert_batch converting    *)
(* the files of a directory concurrently, and a host that loads one subtitle, *)
(* detects its offset from the audio, shifts it and saves it (FormatManager,  *)
(* SyncEngine).  Both work on one file system; a write first truncates.       *)
EXTENDS SubtitleFormats, TextEncoding, AudioSync, Discovery

CONSTANTS
  InitialFiles,     \* the possible initial file systems
  Targets,          \* the target formats asked for
  PreserveStyling,  \* the values of ConversionConfig::preserve_styling
  ValidateOutput,   \* ConversionConfig::validate_output
  Within,           \* directory of a batch -> the directories below it
  Permits,          \* permits of the batch's semaphore (4)
  SampleSize,       \* bytes read by detect_file_encoding (8192)
  Longest,          \* Duration::MAX, in milliseconds
  Offsets,          \* manual offsets tried, in milliseconds
  Audio,            \* the media files a video may be
  Methods,          \* the methods asked for, "default" for none
  Requests,         \* the sync requests the host makes, with the configuration it has
  NonAscii,         \* bytes of a text that is not ASCII, written as UTF-8
  MaxOps            \* bound: calls the host makes

Paths == [dir : STRING, stem : STRING, ext : STRING, synced : BOOLEAN]
Lines == [k : STRING, a : Int, b : Int, t : Seq(STRING)]

\* There are finitely many files, each with the lines of its text.
ASSUME FilesAssumption ==
  /\ \A f \in InitialFiles : /\ IsFiniteSet(DOMAIN f) /\ DOMAIN f \subseteq Paths
                             /\ \A p \in DOMAIN f : /\ f[p].lines \in Seq(Lines)
                                                    /\ f[p].data \in Seq(0..255)
  /\ Targets \subseteq Formats
  /\ Longest \in Nat
  /\ Offsets \subseteq -Longest..Longest

AllUtf8(data) == CheckUtf8(data).n = CheckUtf8(data).d

\* What a serializer writes has no byte-order mark.
ASSUME WritingAssumption ==
  NonAscii \in Seq(0..255) /\ AllUtf8(NonAscii) /\ Bom(NonAscii) = "none"

\* What is decoded of a packet is whole frames, if its track tells the channels; no
\* recording is longer than a duration can be.
ASSUME AudioAssumption ==
  /\ MaxOffset \in Nat
  /\ Audio \subseteq
       [size : Nat, slow : BOOLEAN,
        tracks : Seq([rate : Nat, channels : Nat, codec : BOOLEAN, timeBase : BOOLEAN]),
        packets : Seq([track : Nat, ts : Nat, decodes : BOOLEAN, sound : Seq(BOOLEAN)])]
  /\ \A media \in Audio : \A i \in DOMAIN media.packets :
       LET packet   == media.packets[i]
           channels == media.tracks[packet.track].channels
       IN  packet.track \in DOMAIN media.tracks /\ channels # 0 =>
             Len(packet.sound) % channels = 0
  /\ \A media \in Audio : Speech(media) # <<>> => FirstSpeech(Speech(media)) <= Longest

VARIABLES
  fs,        \* path -> file: its bytes, the charset they were written in, its lines
  origin,    \* the initial file system
  target, preserve,  \* the output format and preserve_styling of the batch
  task,      \* input path -> state of its conversion
  host,      \* the host's call in progress and the subtitle it holds
  sync,      \* the last detection: found, raw and final offset, speech
  ops

vars == <<fs, origin, target, preserve, task, host, sync, ops>>

\* Path::with_extension; create_default_output_path.
\* Mutant: the output is put next to the first directory's files.
OutputFlat(p) == [p EXCEPT !.ext = target, !.dir = "d1"]
Output(p) == [p EXCEPT !.ext = target]
SyncedPath(p) == [p EXCEPT !.synced = TRUE]

-----------------------------------------------------------------------------
(* Reading and writing                                                       *)

Garble(lines) ==
  [i \in DOMAIN lines |->
    [lines[i] EXCEPT !.t = [j \in DOMAIN @ |-> IF @[j] \in {"w", "v"} THEN "?" ELSE @[j]]]]

\* The decoded document; keep tells whether a byte-order mark stays in the text.
Decode(file, charset, keep) ==
  [ok    |-> Decodable(charset),
   bom   |-> keep /\ Bom(file.data) = "utf8",
   lines |-> IF Readable(charset, file.written, file.data) THEN file.lines
             ELSE Garble(file.lines)]

ParseDecoded(doc) == IF doc.ok THEN ParseAuto(doc) ELSE ParseError

\* read_file_with_encoding looks at all the bytes and leaves the mark in place.
Sample(data) == SubSeq(data, 1, IF Len(data) < SampleSize THEN Len(data) ELSE SampleSize)
ReadForConversion(file) == Decode(file, DetectEncoding(file.data), TRUE)

\* validate_conversion compares the numbers of cues, if it is asked to.
Validated(original, converted) == ValidateOutput => Len(original.entries) = Len(converted.entries)

Converted(file) == Transform(ParseDecoded(ReadForConversion(file)), target, preserve)

\* What is written is UTF-8 without a mark.
Written(data, lines) ==
  [data |-> IF HasHigh(data) THEN NonAscii ELSE <<65>>, written |-> "utf8", lines |-> lines]
Truncated == [data |-> <<>>, written |-> "utf8", lines |-> <<>>]

Store(p, file) == fs' = [q \in DOMAIN fs \cup {p} |-> IF q = p THEN file ELSE fs[q]]

-----------------------------------------------------------------------------
(* Synchronisation                                                           *)

VideoExts    == <<"mp4", "mkv">>
SubtitleExts == <<"srt", "ass", "vtt", "sub">>

\* The first <stem>.<ext> next to the path that exists; options are sequences.
Sibling(p, exts) ==
  LET present == SelectSeq(exts, LAMBDA e : [p EXCEPT !.ext = e] \in DOMAIN fs)
  IN  IF present = <<>> THEN <<>> ELSE <<[p EXCEPT !.ext = present[1]]>>

\* resolve_sync_pairing.  Of two paths of a kind the later one counts.
LastOf(paths, exts) ==
  LET of == SelectSeq(paths, LAMBDA p : Contains(exts, p.ext))
  IN  IF of = <<>> THEN <<>> ELSE <<Last(of)>>

ResolvePairing(req) ==
  LET pos    == req.positional
      video  == CASE Len(pos) = 1 -> IF Contains(VideoExts, pos[1].ext) THEN pos
                                     ELSE IF Contains(SubtitleExts, pos[1].ext)
                                     THEN Sibling(pos[1], VideoExts) ELSE <<>>
                  [] Len(pos) = 2 -> LastOf(pos, VideoExts)
                  [] OTHER -> req.video
      subt   == CASE Len(pos) = 1 -> IF Contains(SubtitleExts, pos[1].ext) THEN pos
                                     ELSE IF Contains(VideoExts, pos[1].ext)
                                     THEN Sibling(pos[1], SubtitleExts) ELSE <<>>
                  [] Len(pos) = 2 -> LastOf(pos, SubtitleExts)
                  [] OTHER -> req.subtitle
      single(v) == [mode |-> "single", video |-> v, subtitle |-> subt]
  IN  CASE req.batch \/ \E i \in DOMAIN pos : pos[i].ext = "" ->
             [mode |-> "batch", video |-> <<>>, subtitle |-> <<>>]
        [] OTHER ->
             IF req.manual /\ subt # <<>> /\ (Len(pos) = 1 \/ (Len(pos) # 2 /\ video = <<>>))
             THEN single(<<>>)
             ELSE IF video # <<>> /\ subt # <<>> THEN single(video)
             ELSE [mode |-> "invalid", video |-> <<>>, subtitle |-> <<>>]

\* shift_subtitle_timing: times are clamped at zero, and one that would be longer than
\* a duration can be is an error at its cue.  The cues before it have been shifted,
\* and the start of its own if the end was too late.
\* Mutant: cues that would start before zero are left alone.
ShiftSkipping(entries, off) ==
  [i \in DOMAIN entries |->
    IF entries[i].start + off < 0 THEN entries[i]
    ELSE [entries[i] EXCEPT !.start = @ + off, !.end = @ + off]]

Fits(t, off)  == off < 0 \/ t + off <= Longest
Late(cue, off) == ~(Fits(cue.start, off) /\ Fits(cue.end, off))

Shift(entries, off) ==
  LET moved(t)   == IF t + off > 0 THEN t + off ELSE 0
      reached(i) == \A j \in 1..(i - 1) : ~Late(entries[j], off)
  IN  [i \in DOMAIN entries |->
        [entries[i] EXCEPT
           !.start = IF reached(i) /\ Fits(@, off) THEN moved(@) ELSE @,
           !.end   = IF reached(i) /\ ~Late(entries[i], off) THEN moved(@) ELSE @]]

-----------------------------------------------------------------------------
Idle == [pc |-> "idle", path |-> [dir |-> "", stem |-> "", ext |-> "", synced |-> FALSE],
         video |-> <<>>, engine |-> "none", charset |-> "none", sub |-> ParseError,
         data |-> <<>>]

Init ==
  /\ fs \in InitialFiles
  /\ origin = fs
  /\ target = "none"
  /\ preserve = FALSE
  /\ task = <<>>
  /\ host = Idle
  /\ sync = NoSync
  /\ ops = 0

\* scan_directory: the media files of the directory, and of those below it if asked
ScanDirectory(root, recursive) ==
  LET found == {p \in DOMAIN fs : p.dir = root \/ (recursive /\ p.dir \in Within[root])}
  IN  Classified(SetToSeq(found), [p \in found |-> [p EXCEPT !.dir = <<root, @>>]])

\* convert_batch: the subtitle files found, whether their format is known or not,
\* are the inputs, each waiting for a permit.
StartBatch(root, recursive) ==
  /\ task = <<>>
  /\ task' = [p \in {m.path : m \in Range(OfType(ScanDirectory(root, recursive), "Subtitle"))} |->
                [pc |-> "queued", result |-> ParseError, data |-> <<>>, torn |-> FALSE,
                 success |-> FALSE]]
  /\ task' # <<>>
  /\ target' \in Targets
  /\ preserve' \in PreserveStyling
  /\ UNCHANGED <<fs, origin, host, sync, ops>>

Running == {p \in DOMAIN task : task[p].pc \in {"reading", "converted", "truncated"}}

Acquire(p) ==
  /\ task[p].pc = "queued"
  /\ Cardinality(Running) < Permits
  /\ task' = [task EXCEPT ![p].pc = "reading"]
  /\ UNCHANGED <<fs, origin, target, preserve, host, sync, ops>>

\* The file is read; parsing, transforming and serializing happen without a pause,
\* and what is validated in the end is known by then.
ReadInput(p) ==
  /\ task[p].pc = "reading"
  /\ LET original == ParseDecoded(ReadForConversion(fs[p]))
         result   == Transform(original, target, preserve)
     IN  task' = [task EXCEPT ![p] =
                    [pc |-> IF result.ok THEN "converted" ELSE "err", result |-> result,
                     data |-> fs[p].data, torn |-> FALSE,
                     success |-> result.ok /\ Validated(original, result)]]
  /\ UNCHANGED <<fs, origin, target, preserve, host, sync, ops>>

\* tokio::fs::write opens the output with truncation, then writes it; writing may
\* fail and leave it empty.
TruncateOutput(p) ==
  /\ task[p].pc = "converted"
  /\ Store(Output(p), Truncated)
  /\ task' = [task EXCEPT ![p].pc = "truncated"]
  /\ UNCHANGED <<origin, target, preserve, host, sync, ops>>

WriteOutput(p) ==
  /\ task[p].pc = "truncated"
  /\ Store(Output(p), Written(task[p].data, Serialize(target, task[p].result.entries)))
  /\ task' = [task EXCEPT ![p].pc = "ok"]
  /\ UNCHANGED <<origin, target, preserve, host, sync, ops>>

WriteFails(p) ==
  /\ task[p].pc = "truncated"
  /\ task' = [task EXCEPT ![p].pc = "err", ![p].torn = TRUE]
  /\ UNCHANGED <<fs, origin, target, preserve, host, sync, ops>>

BatchDone == task # <<>> /\ \A p \in DOMAIN task : task[p].pc \in {"ok", "err"}

-----------------------------------------------------------------------------
(* The host's calls                                                          *)

Free == host.pc \in {"idle", "loaded"} /\ ops < MaxOps

\* The request is resolved, an engine made if it can be; load_subtitle opens the
\* file twice: for a sample, and for its content.
LoadSample(req) ==
  /\ Free
  /\ LET pairing == ResolvePairing(req)
         p       == pairing.subtitle[1]
     IN  /\ pairing.mode = "single"
         /\ p \in DOMAIN fs
         /\ host' = [Idle EXCEPT !.pc = "sampled", !.path = p, !.video = pairing.video,
                        !.engine = Engine(req.vad),
                        !.charset = DetectEncoding(Sample(fs[p].data))]
  /\ sync' = NoSync
  /\ ops' = ops + 1
  /\ UNCHANGED <<fs, origin, target, preserve, task>>

LoadContent ==
  /\ host.pc = "sampled"
  /\ LET file == fs[host.path]
         sub  == ParseDecoded(Decode(file, host.charset, FALSE))
     IN  host' = [host EXCEPT !.pc = IF sub.ok THEN "loaded" ELSE "idle", !.sub = sub,
                              !.data = file.data]
  /\ UNCHANGED <<fs, origin, target, preserve, task, sync, ops>>

\* SyncEngine::detect_sync_offset.
Detecting ==
  /\ Free
  /\ host.pc = "loaded" /\ host.video # <<>>
  /\ host.engine # "none"

Method(method) == IF method = "default" THEN host.engine ELSE method

DetectOffset(heard, method) ==
  /\ Detecting
  /\ Method(method) # "Manual"
  /\ host.sub.entries # <<>>
  /\ heard.segments # <<>>
  /\ sync' = SyncResult(host.sub.entries, heard)
  /\ ops' = ops + 1
  /\ UNCHANGED <<fs, origin, target, preserve, task, host>>

\* The errors: a method that needs an offset, no cue, no speech.
DetectFails(heard, method) ==
  /\ Detecting
  /\ Method(method) = "Manual" \/ host.sub.entries = <<>> \/ heard.segments = <<>>
  /\ sync' = NoSync
  /\ ops' = ops + 1
  /\ UNCHANGED <<fs, origin, target, preserve, task, host>>

\* shift_subtitle_timing takes any offset, apply_manual_offset none beyond the
\* maximum; the host passes a manual offset or the detected one.
ShiftTiming(off) ==
  /\ Free
  /\ host.pc = "loaded"
  /\ host' = [host EXCEPT !.sub.entries = Shift(@, off)]
  /\ sync' = NoSync
  /\ ops' = ops + 1
  /\ UNCHANGED <<fs, origin, target, preserve, task>>

ApplyManualOffset(off) ==
  /\ host.engine # "none"
  /\ Accepts(off)
  /\ ShiftTiming(off)

SortCues ==
  /\ Free
  /\ host.pc = "loaded"
  /\ host' = [host EXCEPT !.sub.entries = SortEntries(@)]
  /\ sync' = NoSync
  /\ ops' = ops + 1
  /\ UNCHANGED <<fs, origin, target, preserve, task>>

\* save_subtitle to the default output path, in the format of its extension; an
\* unknown one is an error.
SaveTruncate ==
  /\ Free
  /\ host.pc = "loaded" /\ ByExtension(host.path.ext) \in Formats
  /\ Store(SyncedPath(host.path), Truncated)
  /\ host' = [host EXCEPT !.pc = "saving"]
  /\ ops' = ops + 1
  /\ UNCHANGED <<origin, target, preserve, task, sync>>

SaveWrite ==
  /\ host.pc = "saving"
  /\ Store(SyncedPath(host.path),
           Written(host.data, Serialize(ByExtension(host.path.ext), host.sub.entries)))
  /\ host' = [host EXCEPT !.pc = "loaded"]
  /\ UNCHANGED <<origin, target, preserve, task, sync, ops>>

-----------------------------------------------------------------------------
Next ==
  \/ \E root \in DOMAIN Within, recursive \in BOOLEAN : StartBatch(root, recursive)
  \/ \E p \in DOMAIN task :
       \/ Acquire(p) \/ ReadInput(p) \/ TruncateOutput(p) \/ WriteOutput(p) \/ WriteFails(p)
  \/ \E req \in Requests : LoadSample(req)
  \/ LoadContent
  \/ \E heard \in {Heard(media) : media \in Audio}, method \in Methods :
       DetectOffset(heard, method) \/ DetectFails(heard, method)
  \/ \E off \in Offsets : ShiftTiming(off)
  \/ sync.found /\ ApplyManualOffset(sync.off)
  \/ SortCues
  \/ SaveTruncate
  \/ SaveWrite

Spec == Init /\ [][Next]_vars

-----------------------------------------------------------------------------
(* Properties                                                                *)

\* Another task of the batch, on a file of the same directory and stem, writes this
\* one's output or its input; the inputs that no other task and no save writes.
Shared(p) == \E q \in DOMAIN task \ {p} : [q EXCEPT !.ext = p.ext] = p
Own == {p \in DOMAIN task : ~p.synced /\ ~Shared(p)}

\* The conversions of a batch do not disturb each other: a task whose output and
\* input no other task writes (files of one stem in one directory do share them)
\* ends as if it had run alone, and no file outside the outputs changes.
BatchIsolated ==
  /\ \A p \in Own :
       LET alone == Converted(origin[p]) IN
       /\ task[p].pc = "ok" =>
            alone.ok /\ fs[Output(p)].lines = Serialize(target, alone.entries)
       /\ task[p].pc = "err" => ~alone.ok \/ task[p].torn
  /\ \A p \in DOMAIN origin : p.ext # target /\ ~p.synced => fs[p] = origin[p]

Words(text) == Picked(text, {i \in DOMAIN text : text[i] \in {"w", "v"}})
Grain == CASE target = "ass" -> 10 [] target = "sub" -> FrameMs [] OTHER -> 1
Near(t, u) == t - u < Grain /\ u - t < Grain

\* Texts without an empty line and without the words by which ASS is detected,
\* and times the target can express.
Expressible(entries) ==
  entries # <<>> /\ \A i \in DOMAIN entries :
    /\ \A j \in DOMAIN TextLines(entries[i].text) : ~IsBlank(TextLines(entries[i].text)[j])
    /\ \A word \in AssWords : ~Contains(entries[i].text, word)
    /\ {entries[i].start, entries[i].end} \subseteq
         0..((IF target = "sub" THEN MaxSubMs ELSE Hours100) - 1)

\* A conversion reported as a success lost nothing: the output, read back, has the
\* same cues with the same words at the same times, up to the precision of the
\* target format, whatever Unicode text the input held.
ConversionKeepsCues ==
  \A p \in {q \in Own : /\ task[q].pc = "ok" /\ task[q].success
                       /\ origin[q].written = "utf8" /\ AllUtf8(origin[q].data)
                       /\ Expressible(task[q].result.entries)} :
    LET meant == ParseAuto([bom |-> FALSE, lines |-> origin[p].lines])
        back  == ParseDecoded(ReadForConversion(fs[Output(p)]))
    IN  /\ back.ok /\ back.format = target
        /\ Len(back.entries) = Len(meant.entries)
        /\ \A i \in DOMAIN meant.entries :
             /\ Words(back.entries[i].text) = Words(meant.entries[i].text)
             /\ Near(back.entries[i].start, meant.entries[i].start)
             /\ Near(back.entries[i].end, meant.entries[i].end)

\* Every cue is where it was among the others, none turned around or dropped.
OrderKept(old, new) ==
  /\ Len(new) = Len(old)
  /\ \A i, j \in DOMAIN old :
       /\ old[i].start <= old[j].start => new[i].start <= new[j].start
       /\ old[i].end <= old[j].start => new[i].end <= new[j].start
  /\ \A i \in DOMAIN old : /\ old[i].start <= old[i].end => new[i].start <= new[i].end
                           /\ new[i].text = old[i].text /\ new[i].start >= 0

\* The error of an offset too large for cue k: the cues before it are shifted, those
\* after it are as they were, and so is its end.
CutShort(old, new) ==
  /\ Len(new) = Len(old)
  /\ \E k \in DOMAIN old, off \in Offsets \cup {sync.off} :
       /\ Late(old[k], off)
       /\ new[k] \in {old[k], [old[k] EXCEPT !.start = @ + off]}
       /\ \A i \in 1..(k - 1) : new[i] = [old[i] EXCEPT !.start = @ + off, !.end = @ + off]
       /\ \A i \in (k + 1)..Len(old) : new[i] = old[i]

\* The same cues, each once, in the order of their start and, of equal starts, in the
\* order they had, numbered from 1, so that has_overlaps sees every overlap of two
\* cues that last.
SortedOf(old, new) ==
  /\ Len(new) = Len(old)
  /\ \E place \in [DOMAIN old -> DOMAIN new] : \A i, j \in DOMAIN old :
       /\ old[i] = [new[place[i]] EXCEPT !.index = old[i].index]
       /\ i < j => place[i] # place[j] /\ (old[i].start = old[j].start => place[i] < place[j])
  /\ \A j \in DOMAIN new : new[j].index = j /\ (j > 1 => new[j - 1].start <= new[j].start)
  /\ (\E i, j \in DOMAIN new : i # j /\ OverlapsWith(new[i], new[j])) => HasOverlaps(new)

\* Shifting never reorders cues, turns one around or drops one, even where the
\* clamp at zero applies; only an offset that no duration can hold stops it, at the
\* first cue that is too late for it.  Sorting orders the cues, keeps each and leaves
\* no overlap that has_overlaps would miss.
EditsKeepCues ==
  [][host.pc = "loaded" /\ host'.pc = "loaded" =>
       \/ OrderKept(host.sub.entries, host'.sub.entries)
       \/ CutShort(host.sub.entries, host'.sub.entries)
       \/ SortedOf(host.sub.entries, host'.sub.entries)]_vars

\* The same sound as a file of one track with one channel.
Alone(media) ==
  LET t    == Track(media)
      kept == [i \in DOMAIN Packets(media) |->
                 LET sound == Packets(media)[i].sound IN
                 [Packets(media)[i] EXCEPT !.track = 1,
                    !.sound = [k \in 1..(Len(sound) \div t.channels) |-> sound[(k - 1) * t.channels + 1]]]]
  IN  [media EXCEPT !.tracks = <<[t EXCEPT !.channels = 1]>>, !.packets = kept]

\* A detected offset can always be applied (apply_manual_offset accepts it), and
\* applying it never takes the first cue further from the speech; unless the result
\* warns, the cue then starts with the speech.  What is taken for speech is heard in
\* the first channel of the first audio track: whatever else is in the file, as long
\* as it tells its channels, does not move it.
DetectedOffsetHelps ==
  sync.found =>
    LET first == host.sub.entries[1].start
        then  == Shift(host.sub.entries, sync.off)[1].start
        gap(t) == IF t > sync.speech THEN t - sync.speech ELSE sync.speech - t
        media  == sync.media[1]
    IN  /\ Accepts(sync.off)
        /\ gap(then) <= gap(first)
        /\ ~sync.warned => then = sync.speech
        /\ Track(media).channels # 0 => sync.speech = FirstSpeech(Speech(Alone(media)))
=============================================================================
