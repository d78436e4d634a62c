------------------------------ MODULE AudioSync ------------------------------
(***************************************************************************)
(* From the audio of a video to the offset of a subtitle:                  *)
(* DirectAudioLoader, VadAudioProcessor, LocalVadDetector and              *)
(* VadSyncDetector (src/src/services/vad), SyncEngine                      *)
(* (src/src/core/sync/engine.rs).                                          *)
(*                                                                         *)
(* A media file has a size, tracks and packets, and its analysis may be    *)
(* slow.  Sound is a sequence of blocks of BlockSize samples, TRUE where   *)
(* somebody speaks; the blocks of the channels alternate.                  *)
(***************************************************************************)
EXTENDS Integers, Sequences, FiniteSets, SequencesExt, Selection

CONSTANTS
  MaxAudioBytes,    \* DEFAULT_MAX_AUDIO_BYTES
  PaddingChunks,    \* sync.vad.padding_chunks
  MinSpeech,        \* sync.vad.min_speech_duration_ms
  MaxOffset         \* sync.max_offset_seconds, in milliseconds

BlockSize == 256
SignificantMs == 100

-----------------------------------------------------------------------------
(* Loading                                                                   *)

\* check_file_size
WithinSize(media) == media.size <= MaxAudioBytes

\* The tracks with a sample rate: the first one is taken (0: no sample rate).
AudioTracks(media) == {i \in DOMAIN media.tracks : media.tracks[i].rate # 0}
TrackId(media) == Nth(AudioTracks(media), 1)
Track(media) == media.tracks[TrackId(media)]

\* Packets of other tracks are passed over.
Packets(media) ==
  Picked(media.packets, {i \in DOMAIN media.packets : media.packets[i].track = TrackId(media)})
Samples(media) ==
  LET packets == Packets(media) IN FlattenSeq([i \in DOMAIN packets |-> packets[i].sound])

\* load_audio_samples: a packet that cannot be decoded fails the whole file, one that
\* cannot be read ends it.  An empty file is taken for one without samples.
Loadable(media) ==
  /\ WithinSize(media)
  /\ AudioTracks(media) # {} /\ Track(media).codec
  /\ \A i \in DOMAIN Packets(media) : Packets(media)[i].decodes

\* The number of channels, if the track does not tell it (0), is inferred from the
\* duration, which the start of the last packet stands for.
Channels(media) ==
  LET total == Len(Samples(media))
      ts    == IF Packets(media) = <<>> THEN 0 ELSE Last(Packets(media)).ts
      c     == Track(media).channels
  IN  CASE c # 0 -> c
        [] c = 0 /\ Track(media).timeBase /\ ts > 0 -> (2 * total + ts) \div (2 * ts)
        [] OTHER -> 1

\* load_and_prepare_audio_direct, extract_first_channel: step_by(channels).
Mono(media) ==
  LET samples == Samples(media)
      c       == Channels(media)
  IN  [k \in 1..((Len(samples) + c - 1) \div c) |-> samples[(k - 1) * c + 1]]

-----------------------------------------------------------------------------
(* Detecting speech                                                          *)

\* detect_speech_from_data works at 8 or 16 kHz.
Rate(media) == IF Track(media).rate \in {8000, 16000} THEN Track(media).rate ELSE 16000

\* resample_to_target_rate: the length is rounded.
Resampled(sound, from, to) ==
  IF from = to THEN sound
  ELSE [k \in 1..((2 * Len(sound) * to + from) \div (2 * from)) |->
          sound[((k - 1) * from) \div to + 1]]

\* There is a chunk size for these two rates only.
ChunkSize(rate) == IF rate = 8000 THEN 256 ELSE 512
ChunkMs(rate) == (ChunkSize(rate) * 1000) \div rate

\* A chunk is speech if somebody speaks in it or close to it.
Labels(sound, rate) ==
  LET b == ChunkSize(rate) \div BlockSize
      chunks == 1..((Len(sound) + b - 1) \div b)
      spoken(j) == j \in chunks /\ \E k \in ((j - 1) * b + 1)..(j * b) : k <= Len(sound) /\ sound[k]
  IN  [j \in chunks |-> \E k \in (j - PaddingChunks)..(j + PaddingChunks) : spoken(k)]

\* detect_speech_segments: runs of speech labels of at least the minimum length.
Segments(labels, chunkMs) ==
  LET speech(i) == i \in DOMAIN labels /\ labels[i]
      starts == {i \in DOMAIN labels : speech(i) /\ ~speech(i - 1)}
      last(i) == CHOOSE j \in i..Len(labels) :
                   ~speech(j + 1) /\ \A k \in i..j : speech(k)
      long == {i \in starts : (last(i) - i + 1) * chunkMs >= MinSpeech}
  IN  [n \in 1..Cardinality(long) |->
        LET i == Nth(long, n)
        IN  [start |-> (i - 1) * chunkMs, length |-> (last(i) - i + 1) * chunkMs]]

\* The speech of a file, none if it cannot be analysed: not loadable, without
\* samples, or with so few of them for its duration that no channel is inferred.
Speech(media) ==
  IF Loadable(media) /\ Samples(media) # <<>> /\ Channels(media) # 0
  THEN Segments(Labels(Resampled(Mono(media), Track(media).rate, Rate(media)), Rate(media)),
                ChunkMs(Rate(media)))
  ELSE <<>>

\* find_first_significant_speech: the first segment of 0.1 s, else the first one.
FirstSpeech(segments) ==
  LET significant == Picked(segments, {i \in DOMAIN segments : segments[i].length >= SignificantMs})
  IN  IF significant # <<>> THEN significant[1].start ELSE segments[1].start

\* calculate_confidence, in percent; slow if the detection took more than a second.
ConfidenceOf(segments, slow) ==
  LET points(bonus, earned) == IF earned THEN bonus ELSE 0
      sum == 70 + points(10, Len(segments) >= 3) + points(10, segments[1].length >= 500)
                + points(5, segments[1].length >= 1000) + points(5, ~slow)
  IN  IF sum > 95 THEN 95 ELSE sum

-----------------------------------------------------------------------------
(* The engine                                                                *)

\* SyncEngine::new, determine_default_method: without voice activity detection
\* there is no engine; any method but "vad" is the automatic one.
Engine(config) ==
  CASE ~config.enabled -> "none"
    [] config.enabled /\ config.default_method = "vad" -> "LocalVad"
    [] OTHER -> "Auto"

\* vad_detect_sync_offset: a detected offset beyond the maximum is clamped.
\* Mutant: the sign is lost.
ClampUnsigned(off) == IF off > MaxOffset \/ -off > MaxOffset THEN MaxOffset ELSE off
Clamp(off) ==
  CASE off > MaxOffset -> MaxOffset [] -off > MaxOffset -> -MaxOffset [] OTHER -> off

\* apply_manual_offset
Accepts(off) == off <= MaxOffset /\ -off <= MaxOffset

NoSync == [found |-> FALSE, raw |-> 0, off |-> 0, speech |-> 0, warned |-> FALSE,
           confidence |-> 0, media |-> <<>>]

\* What analysing a media file gives
Heard(media) == [media |-> media, segments |-> Speech(media)]

\* detect_sync_offset aligns the first cue with the first speech.
SyncResult(entries, heard) ==
  LET speech == FirstSpeech(heard.segments)
      raw    == speech - entries[1].start
  IN  [found |-> TRUE, raw |-> raw, off |-> Clamp(raw), speech |-> speech,
       warned |-> ~Accepts(raw), confidence |-> ConfidenceOf(heard.segments, heard.media.slow),
       media |-> <<heard.media>>]
=============================================================================
