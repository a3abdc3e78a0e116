------------------------------ MODULE MCPlayer ------------------------------
\* OpenFile with the values TLC gives its constants, and the functions of Mp4 and Streams
\* on every small file.
EXTENDS OpenFile
M == INSTANCE Mp4
S == INSTANCE Streams

Everything == {"file", "remote", "midi", "tracker", "openmpt"}
AllCalls == {"Play", "Pause", "Resume", "Stop", "Toggle", "SetVolume", "Seek"}

Upto(n, Values) == UNION {[1 .. m -> Values] : m \in 1 .. n}

--------------------------------------------------------------------------
(* Songs, and the calls made of their decoders *)

Asks(n, to) == {[seek |-> FALSE, n |-> i] : i \in 1 .. n} \cup {[seek |-> TRUE, n |-> i] : i \in 0 .. to}

Music(name, lens, length, undecodable, frame) ==
  [kind |-> name, lens |-> lens, total |-> length, bad |-> undecodable, full |-> frame]

ReadOrSought == {<<>>} \cup Upto(2, Asks(3, 5))
OnlyRead == {<<>>} \cup Upto(2, Asks(3, -1))

\* Up to three frames of up to two samples, after up to two calls.
EveryFrameHeard ==
  \A lens \in Upto(3, 1 .. 2), n \in 1 .. 3 :
    /\ \A before \in ReadOrSought : S!ReadsOn(Music("mp2", lens, S!MP2Length(lens), {}, 0), before, n)
    /\ \A before \in ReadOrSought, skip \in 0 .. 2 :
         S!ReadsOn(Music("opus", lens, S!OpusLength(lens, skip), {}, 0), before, n)
    /\ \A before \in OnlyRead, b \in DOMAIN lens :
         S!ReadsOn(Music("opus", lens, S!OpusLength(lens, 0), {b}, 0), before, n)

\* Up to three ALAC frames, the last of them short or full, with a time table or without,
\* of which one may not decode.
EveryALACFrameHeard ==
  \A full \in 2 .. 3, count \in 1 .. 3 : \A last \in 1 .. full :
    LET lens == [i \in 1 .. count |-> IF i = count THEN last ELSE full]
        durations == [i \in 1 .. count |-> [duration |-> lens[i]]]
    IN  \A stts \in {<<>>, durations}, to \in 0 .. full * count + 1, reads \in Upto(3, 1 .. 3),
           lost \in {{}} \cup {{i} : i \in 1 .. count} :
          S!ReadsOnALAC(Music("alac", lens, S!ALACLength(lens, M!DurationPerSample(stts), full), lost, full), to, reads)

--------------------------------------------------------------------------
(* MP4 files *)

Box(type, inner) == <<[type |-> type, size |-> 1 + Len(inner), real |-> TRUE]>> \o inner
Bytes(like) == <<[type |-> like, size |-> 2, real |-> FALSE]>>

Tables == {"mdhd", "stsd", "stts", "stsc", "stsz", "stco", "co64"}
Trak(has) ==
  LET box(type) == IF type \in has THEN Box(type, Bytes("stco")) ELSE <<>>
      table == box("stsd") \o box("stts") \o box("stsc") \o box("stsz") \o box("stco") \o box("co64")
  IN  Box("trak", Box("tkhd", <<>>) \o Box("mdia", box("mdhd") \o Box("minf", Box("stbl", table))))

Movie(traks) == Box("moov", Box("mvhd", Bytes("trak")) \o traks \o Box("udta", Box("meta", Bytes("stsd"))))

\* The movie before or after the media, which looks like a movie itself.
Arranged(movie) ==
  {Box("ftyp", Bytes("moov")) \o movie \o Box("mdat", Bytes("moov")),
   Box("mdat", Bytes("moov")) \o movie,
   Box("free", <<>>) \o Box("mdat", Bytes("trak")) \o movie \o Box("free", Bytes("mdat"))}

\* One or two tracks, of which the first may lack any of its tables.
EveryBoxFound ==
  /\ \A has \in SUBSET Tables, next \in {<<>>, Trak(Tables)} :
       \A f \in Arranged(Movie(Trak(has) \o next)) : M!BoxesFound(f)
  /\ \A has \in {Tables \ {"stco"}, Tables \ {"co64"}} : \A next \in {<<>>, Trak(has)} :
       \A f \in Arranged(Movie(Trak(has) \o next)) : M!TablesTogether(f)

\* Up to three chunks of up to three samples.
EverySampleFound ==
  \A song \in Upto(3, [gap : 0 .. 1, sizes : Upto(3, 1 .. 2)]) : M!SamplesFound(song)

Words == <<"frame", "sizes", "runs", "maxframe", "bitrate", "rate">>
Entry(type, extension, boxes) == [type |-> type, extension |-> extension, boxes |-> boxes]

\* The parameters in a box behind others, or in the extension, with their tag or without.
EveryCookieRead ==
  \A version \in {<<>>, <<"version">>}, others \in {<<>>, <<Entry("mp4a", <<>>, <<>>)>>} :
    /\ \A first \in {<<>>, <<[type |-> "pasp", data |-> <<"ratio">>]>>} :
         M!CookieRead(others \o <<Entry("alac", <<>>, first \o <<[type |-> "alac", data |-> version \o Words]>>)>>,
                      Words)
    /\ \A tag \in {<<>>, <<"alac">>} :
         M!CookieRead(others \o <<Entry("alac", tag \o version \o Words, <<>>)>>, Words)

--------------------------------------------------------------------------
(* Files by content and name *)

Extensions == {"mp3", "MP3", "mod", "it", "mptm", "MPTM", "flac", "txt", "mid", "m4a", ""}
Folded(name) == CASE name = "MP3" -> "mp3" [] name = "MPTM" -> "mptm" [] OTHER -> name
Named(content, tag) == {[content |-> content, id3 |-> tag, name |-> n, folded |-> Folded(n)] : n \in Extensions}

\* Every content under every name, with a tag before it where there may be one.
AllNamed ==
  UNION ({Named(c, "none") : c \in Contents} \cup {Named(c, "short") : c \in {"mp2", "mp3", "ape"}})

SmallMP3s == {f \in [audio : 1 .. 4, header : 0 .. 1, items : 0 .. 2, footer : 0 .. 1, id3v1 : {0, 4}] :
            f.footer = 0 => f.items = 0 /\ f.header = 0}

--------------------------------------------------------------------------
\* Of an open file every sample is found and heard: the boxes, the place of each sample and
\* the decoder's parameters are read as they were written (mp4), and the decoder gives each
\* once, in order, from where it says it is, whatever was read and sought before; ALAC
\* within a frame (mp2stream, opusstream, alacstream, streamcore).
EverySample ==
  opened = "yes" =>
    /\ EveryBoxFound /\ EverySampleFound /\ EveryCookieRead
    /\ EveryFrameHeard /\ EveryALACFrameHeard
=============================================================================
