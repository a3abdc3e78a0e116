-------------------------------- MODULE Mp4 --------------------------------
(* What the program reads of an M4A file (src/internal/audio/format/mp4): the boxes it
   looks for, the place of every sample, and the decoder's parameters. Pure functions of
   the file.

   A file is a sequence of cells of eight bytes, numbered from 1: the header of a box
   ([type, size], the size in cells and counting the header) or a cell of data, which
   may look like a header. Sizes over 32 bits are only met on boxes that are skipped.
   "ragged" files end in a few bytes more. *)
EXTENDS Integers, Sequences, FiniteSetsExt, SequencesExt

NotFound == 0      \* no offset

Containers == {"moov", "trak", "mdia", "minf", "stbl", "udta", "moof", "traf"}

--------------------------------------------------------------------------
(* Boxes *)

Header(file, off) == file[off]

\* The offsets of the boxes of a type met from the start on: not only those inside the
\* container that starts there, the walk goes on to the end of the file. [ok, at].
BoxLocations(file, ragged, target) ==
  LET locations[off \in 1 .. Len(file) + 2] ==
        IF off > Len(file) THEN [ok |-> ~(ragged /\ off = Len(file) + 1), at |-> <<>>]
        ELSE IF Header(file, off).size = 0 THEN [ok |-> TRUE, at |-> <<>>]
        ELSE LET own      == IF Header(file, off).type = target THEN <<off>> ELSE <<>>
                 children == IF Header(file, off).type \in Containers THEN locations[off + 1].at ELSE <<>>
                 rest     == locations[Min({off + Header(file, off).size, Len(file) + 2})]
             IN  IF rest.ok THEN [ok |-> TRUE, at |-> own \o children \o rest.at]
                 ELSE [ok |-> FALSE, at |-> <<>>]
  IN  locations[1]

\* findBoxAny: the first of them.
FindBoxAny(file, ragged, target) ==
  LET found == BoxLocations(file, ragged, target)
  IN  IF found.ok /\ found.at # <<>> THEN Head(found.at) ELSE NotFound

\* The first box of a type inside another one, however deep.
FindFirstInside(file, parent, target) ==
  LET inside[from \in 1 .. Len(file) + 2, end \in 1 .. Len(file) + 2] ==
        IF from >= end \/ from > Len(file) THEN NotFound
        ELSE IF Header(file, from).size = 0 THEN NotFound
        ELSE IF Header(file, from).type = target THEN from
        ELSE LET after == Min({from + Header(file, from).size, Len(file) + 2})
                 deep  == IF Header(file, from).type \in Containers THEN inside[from + 1, after] ELSE NotFound
             IN  IF deep # NotFound THEN deep ELSE inside[after, end]
  IN  inside[parent + 1, Min({parent + Header(file, parent).size, Len(file) + 2})]

\* The chunks' offsets, in four bytes or in eight.
ChunkBox(file, moov) ==
  LET stco == FindFirstInside(file, moov, "stco")
  IN  IF stco # NotFound THEN stco ELSE FindFirstInside(file, moov, "co64")

\* parseSampleTable: the boxes the sample table is read from.
TableBoxes(file, moov) ==
  LET box(type) == FindFirstInside(file, moov, type)
  IN  [stsd |-> box("stsd"), stsz |-> box("stsz"), stsc |-> box("stsc"), stts |-> box("stts"),
       mdhd |-> box("mdhd"),
       chunks |-> ChunkBox(file, moov)]

--------------------------------------------------------------------------
(* The sample table *)

\* parseSTSZ: one size for all, or a list.
SampleSizes(constant, count, list) == IF constant = 0 THEN list ELSE [i \in 1 .. count |-> constant]

SumSizes(sizes, from, to) == FoldLeft(+, 0, SubSeq(sizes, from, to))

\* Samples in the chunk: those of the last entry that starts at or before it.
SamplesPerChunk(stsc, chunk) ==
  LET of == {j \in DOMAIN stsc : stsc[j].firstChunk <= chunk}
  IN  IF of = {} THEN 1
      ELSE IF stsc[Max(of)].samples = 0 THEN 1 ELSE stsc[Max(of)].samples

\* parseSTSC: where every sample starts; 0 for the samples the chunks do not hold.
\* Without the table, where every chunk starts.
SampleOffsets(chunks, stsc, sizes) ==
  LET first[c \in 1 .. Len(chunks) + 1] == IF c = 1 THEN 1 ELSE first[c - 1] + SamplesPerChunk(stsc, c - 1)
      holding(i) == {c \in DOMAIN chunks : first[c] <= i /\ i < first[c + 1]}
      offset(i, c) == chunks[c] + SumSizes(sizes, first[c], i - 1)
  IN  IF stsc = <<>> THEN chunks
      ELSE [i \in DOMAIN sizes |->
              IF holding(i) = {} THEN 0 ELSE offset(i, CHOOSE c \in holding(i) : TRUE)]

\* parseSTTS: the duration of every sample is taken to be that of the first.
DurationPerSample(stts) ==
  IF stts = <<>> THEN 0
  ELSE IF stts[1].duration = 0 /\ Len(stts) > 1 THEN stts[2].duration ELSE stts[1].duration

\* ReadSample: the piece of the file that is handed to the decoder.
ReadSample(offsets, sizes, i) ==
  IF i > Len(sizes) THEN <<>>
  ELSE [k \in 1 .. sizes[i] |-> offsets[i] + k - 1]

--------------------------------------------------------------------------
(* The decoder's parameters, in words of four bytes *)

\* parseSTSD: the description of the ALAC samples, behind those of others.
ALACEntry(entries) == entries[Min({i \in DOMAIN entries : entries[i].type = "alac"})]

WithoutFirst(words, word) == IF words # <<>> /\ words[1] = word THEN Tail(words) ELSE words

\* parseALACSampleEntry: the extension of an entry of version 1, without its tag, and where
\* there is none the data of the entry's own "alac" box, after the boxes that come before
\* it; without the version word.
MagicCookie(entry) ==
  LET alac == {i \in DOMAIN entry.boxes : entry.boxes[i].type = "alac"}
  IN  WithoutFirst(IF entry.extension # <<>> THEN WithoutFirst(entry.extension, "alac")
                   ELSE entry.boxes[Min(alac)].data,
                   "version")

\* parseCookie: skips a version word when one more word than the parameters is there.
Parameters(cookie) ==
  LET from == IF Len(cookie) < 7 THEN 0 ELSE 1
  IN  SubSeq(cookie, from + 1, from + 6)

--------------------------------------------------------------------------
(* What these functions are for *)

Real(file, type, from, to) == {i \in from .. to : file[i].type = type /\ file[i].real}

\* In a file that is whole: the movie is found wherever it stands, whatever data looks
\* like it, and every box is found that is in it, the first of its type
\* (findBoxLocations, findFirstInside).
BoxesFound(file) ==
  LET moov == Min(Real(file, "moov", 1, Len(file)))
      end  == moov + file[moov].size - 1
  IN  /\ FindBoxAny(file, FALSE, "moov") = moov
      /\ \A type \in {"trak", "mdhd", "stsd", "stsz", "stco", "co64", "stsc", "stts"} :
           FindFirstInside(file, moov, type) =
             (IF Real(file, type, moov, end) = {} THEN NotFound ELSE Min(Real(file, type, moov, end)))

\* The tables of a track belong together: with tracks that hold the same tables, they
\* are all those of the first.
TablesTogether(file) ==
  LET moov == Min(Real(file, "moov", 1, Len(file)))
      trak == Min(Real(file, "trak", 1, Len(file)))
      read == TableBoxes(file, moov)
  IN  \A box \in DOMAIN read : read[box] \in trak .. trak + file[trak].size - 1

\* A song cut into chunks, each a gap after the one before it, with the sizes of its
\* samples: the chunk and sample tables a writer makes of it.
ChunkStart(song) ==
  LET at[c \in 1 .. Len(song) + 1] ==
        IF c = 1 THEN 1
        ELSE at[c - 1] + song[c - 1].gap + SumSizes(song[c - 1].sizes, 1, Len(song[c - 1].sizes))
  IN  [c \in DOMAIN song |-> at[c] + song[c].gap]

SampleToChunk(song) ==
  LET news == {c \in DOMAIN song : c = 1 \/ Len(song[c].sizes) # Len(song[c - 1].sizes)}
      entry(c) == [firstChunk |-> c, samples |-> Len(song[c].sizes)]
  IN  [j \in 1 .. Cardinality(news) |-> entry(SetToSortSeq(news, <)[j])]

ConstantSize(sizes) == IF \A i \in DOMAIN sizes : sizes[i] = sizes[1] THEN sizes[1] ELSE 0

\* Every byte of every chunk is handed to the decoder once, in order, cut where the
\* song was cut (parseSTSZ, parseSTSC,
\* ReadSample).
SamplesFound(song) ==
  LET cut     == FoldLeft(LAMBDA all, chunk : all \o chunk.sizes, <<>>, song)
      sizes   == SampleSizes(ConstantSize(cut), Len(cut), IF ConstantSize(cut) = 0 THEN cut ELSE <<>>)
      offsets == SampleOffsets(ChunkStart(song), SampleToChunk(song), sizes)
      bytes(c) == [k \in 1 .. SumSizes(song[c].sizes, 1, Len(song[c].sizes)) |-> ChunkStart(song)[c] + k - 1]
  IN  FlattenSeq([i \in DOMAIN sizes |-> ReadSample(offsets, sizes, i)])
        = FlattenSeq([c \in DOMAIN song |-> bytes(c)])

\* The decoder gets the six words of parameters, with a version word before them or not.
CookieRead(entries, parameters) == Parameters(MagicCookie(ALACEntry(entries))) = parameters
=============================================================================
