------------------------------ MODULE Discovery ------------------------------
(* Media discovery (src/src/core/matcher/discovery.rs): which files of a      *)
(* directory or a list are media files.  A path is a record with a field ext. *)
EXTENDS Naturals, Sequences, Selection

\* FileDiscovery::new
VideoExtensions    == {"mp4", "mkv", "avi", "mov", "wmv", "flv", "m4v", "webm"}
SubtitleExtensions == {"srt", "ass", "vtt", "sub", "ssa", "idx"}

\* The type of a file is told by its extension alone, "none" for no media file.
FileType(p) ==
  CASE p.ext \in VideoExtensions -> "Video" [] p.ext \in SubtitleExtensions -> "Subtitle"
    [] OTHER -> "none"

\* The record of a discovered file.  Identifiers grow with every file of a scan.
MediaFile(id, p, relative) ==
  [id |-> id, path |-> p, file_type |-> FileType(p), relative_path |-> relative]

\* classify_file for every regular file of a scan; relative maps a path to
\* what is left of it below the root.
Classified(found, relative) ==
  LET media == Picked(found, {i \in DOMAIN found : FileType(found[i]) # "none"})
  IN  [i \in DOMAIN media |-> MediaFile(i, media[i], relative[media[i]])]

OfType(media, type) == Picked(media, {i \in DOMAIN media : media[i].file_type = type})
==============================================================================
