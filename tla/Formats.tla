------------------------------ MODULE Formats ------------------------------
(* What a track is taken for, and which decoder gets it: the detection by the first
   kilobyte, the registry of decoders, what Open, OpenReader and openURL make of the
   two, and the tags behind the audio of an MP3 (src/internal/audio/format,
   src/internal/audio). Pure functions of the file.

   A file is a record: content, what it is; id3, a tag before it: "none", "short", with
   the content's first bytes inside the first kilobyte, or "long"; name, its extension,
   "" for none; folded is its lower-case form. *)
EXTENDS Integers, Sequences, FiniteSetsExt, SequencesExt

Unknown == "unknown"

--------------------------------------------------------------------------
(* Detection: the extension the content stands for *)

Modules == {"xm", "it", "s3m", "mod"}

\* An MP4 file is known by its brand; "m4b" is an audiobook's, which is four characters
\* long and compared with three.
FTYPProbe(content) == IF content \in {"m4a", "mp42", "isom"} THEN "m4a" ELSE Unknown

\* The engine's own probe, where libopenmpt is installed.
OpenmptProbe(content, library) ==
  IF library /\ content \in Modules \cup {"mptm", "mtm"} THEN "mod" ELSE Unknown

\* What is behind a tag: Layer II and APE are looked for, everything else is an MP3.
MP2Probe(file) == file.id3 = "short" /\ file.content = "mp2"
APEProbe(file) == file.id3 = "short" /\ file.content = "ape"

BehindID3Always(file) == "mp3"
BehindID3(file) == IF MP2Probe(file) \/ APEProbe(file) THEN file.content ELSE "mp3"

\* detectFormatFromBuf. An MPTM module carries the magic of IT.
Detect(file, library) ==
  LET content == file.content
  IN  IF file.id3 # "none" THEN BehindID3(file)
      ELSE CASE content \in Modules \cup {"mp3", "mp2", "wav", "flac", "opus", "ape"} -> content
             [] content = "mptm"   -> "it"
             [] content = "vorbis" -> "ogg"
             [] content = "midi"   -> "mid"
             [] content \in {"m4a", "mp42", "isom", "m4b"} -> FTYPProbe(content)
             [] OTHER -> OpenmptProbe(content, library)

--------------------------------------------------------------------------
(* The registry *)

\* What a decoder reads from: "seeker" what can be sought, "closer" what can be closed,
\* "file" a file on disk, "reader" anything.
Needs == [mp3 |-> "closer", ogg |-> "closer", oga |-> "closer", wav |-> "reader", flac |-> "reader",
          m4a |-> "seeker", mp2 |-> "seeker", opus |-> "seeker", ape |-> "file"]

Synthetic(ext) == ext \in Modules \cup {"mid", "midi", "mptm", "mtm"}

Refused == [by |-> "nobody", ext |-> Unknown]
By(who, ext) == [by |-> who, ext |-> ext]

\* Decode: by the content, by the name as it is written where that says nothing.
Decode(file, library) ==
  LET ext == IF Detect(file, library) = Unknown THEN file.name ELSE Detect(file, library)
  IN  IF ext \in DOMAIN Needs THEN By("decoder", ext) ELSE Refused

\* DecodeFromReader: by the extension it is given; what is read can be sought and closed
\* but is no file.
DecodeFromReader(ext) ==
  IF ext \in DOMAIN Needs /\ Needs[ext] # "file" THEN By("decoder", ext) ELSE Refused

--------------------------------------------------------------------------
(* Synthesised formats *)

\* gotrackerSupports: the extension of the path decides, and only refuses a tracker's.
GotrackerSupports(pathExt) == pathExt \in Modules \/ ~Synthetic(pathExt) \/ pathExt \in {"mid", "midi"}

\* NewTrackerPlayer: what the engine cannot load is an error, a panic too.
TrackerLoads(content) == content \in Modules

Gotracker(content, pathExt, ext) ==
  IF ~GotrackerSupports(pathExt) THEN Refused
  ELSE IF TrackerLoads(content) THEN By("gotracker", ext) ELSE Refused

\* openTrackerSynth and openMIDISynth: libopenmpt first where it is there and wanted.
OpenSynthetic(content, pathExt, ext, library, backend) ==
  IF ext \in {"mid", "midi"} THEN (IF content = "midi" THEN By("soundfont", ext) ELSE Refused)
  ELSE IF backend # "gotracker" /\ library /\ content \in Modules \cup {"mptm", "mtm"}
  THEN By("openmpt", ext)
  ELSE Gotracker(content, pathExt, ext)

--------------------------------------------------------------------------
(* The ways in *)

Open(file, library, backend) ==
  LET ext == IF Detect(file, library) = Unknown THEN file.name ELSE Detect(file, library)
  IN  IF Synthetic(ext) THEN OpenSynthetic(file.content, file.folded, ext, library, backend)
      ELSE Decode(file, library)

\* What comes on stdin has no name; a temporary file, where one is needed, is named after
\* what was detected.
OpenReader(file, library, backend) ==
  LET ext == Detect(file, library)
      temporary == [file EXCEPT !.name = ext, !.folded = ext]
  IN  IF ext = Unknown THEN Refused
      ELSE IF Synthetic(ext) \/ ext = "ape" THEN Open(temporary, library, backend)
      ELSE DecodeFromReader(ext)

\* What the server calls the content; other names say nothing.
MIMETypeToExt(mime) ==
  CASE mime = "audio/mpeg" -> "mp3" [] mime = "audio/flac" -> "flac" [] mime = "audio/wav" -> "wav"
    [] mime \in {"audio/ogg", "audio/vorbis"} -> "ogg" [] OTHER -> ""

\* openURL: the name in the address, the server's word where there is none.
OpenURL(pathExt, mime) ==
  LET ext == IF pathExt = "" THEN MIMETypeToExt(mime) ELSE pathExt
  IN  IF ext = "" \/ Synthetic(ext) THEN Refused ELSE DecodeFromReader(ext)

--------------------------------------------------------------------------
(* Tags behind the audio of an MP3. A file is its audio, then an APEv2 tag (header, items,
   footer), then an ID3v1 tag: their sizes in cells, a footer and a header being one, an
   ID3v1 tag four; 0 where there is none. *)

ID3v1Size == 4

SizeOf(f) == f.audio + f.header + f.items + f.footer + f.id3v1

\* findFooterPosition: the last cell, or the one before an ID3v1 tag; 0 for none.
FooterPosition(f) ==
  IF f.footer = 0 THEN 0
  ELSE IF f.id3v1 = 0 THEN SizeOf(f)
  ELSE SizeOf(f) - ID3v1Size

\* TrailingTagStart, less one: the size in the footer counts footer and items.
APETagStart(f) == FooterPosition(f) - (f.items + 1) - (IF f.header = 1 THEN 1 ELSE 0)

\* mp3TrailingTagStart: the cells the decoder may read; all where there is nothing else,
\* or nothing but tags.
AudioLimit(f) ==
  LET end == IF FooterPosition(f) # 0 THEN APETagStart(f)
             ELSE IF f.id3v1 # 0 THEN SizeOf(f) - ID3v1Size
             ELSE SizeOf(f)
  IN  IF end <= 0 THEN SizeOf(f) ELSE end

\* audioBoundedReader: a read from one on gives no more than what is left of the audio.
BoundedRead(f, from, n) == Max({0, Min({n, AudioLimit(f) - from})})

--------------------------------------------------------------------------
(* What these functions are for *)

\* The decoder that plays the content.
Plays(content, library, backend) ==
  CASE content \in {"mp3", "mp2", "wav", "flac", "opus", "ape"} -> {By("decoder", content)}
    [] content = "vorbis" -> {By("decoder", "ogg"), By("decoder", "oga")}
    [] content \in {"m4a", "mp42", "isom"} -> {By("decoder", "m4a")}
    [] content = "midi" -> {By("soundfont", "mid"), By("soundfont", "midi")}
    [] content \in Modules \cup {"mptm", "mtm"} ->
         {By(engine, ext) : engine \in {"openmpt", "gotracker"}, ext \in Modules \cup {"mptm", "mtm"}}
    [] OTHER -> {}

\* Content that is recognised gets its own decoder whatever the file is called, and from
\* stdin as from disk; the built-in engine never plays, and a refusal is the worst that
\* happens to, a module it does not know (detectFormatFromBuf, Open, OpenReader).
OpensWhatItIs(file, library, backend) ==
  LET byName == Open(file, library, backend)
      piped  == OpenReader(file, library, backend)
  IN  /\ Detect(file, library) # Unknown =>
           /\ {byName, piped} \subseteq Plays(file.content, library, backend) \cup {Refused}
           /\ file.content \notin {"mptm", "mtm"} => byName.by # "nobody" \/ ~GotrackerSupports(file.folded)
           /\ piped.by # "nobody" \/ file.content \in {"mptm", "mtm"}
      /\ {byName.by, piped.by} \cap {"gotracker"} # {} => file.content \in Modules

\* The decoder sees all of the audio, and nothing behind it (mp3TrailingTagStart,
\* audioBoundedReader).
SeesTheAudio(f) ==
  \A from \in 0 .. SizeOf(f), n \in 1 .. 3 :
    BoundedRead(f, from, n) = Cardinality({i \in from + 1 .. from + n : i <= f.audio})
=============================================================================
