------------------------------- MODULE OpenFile -------------------------------
(***************************************************************************)
(* The file behind an open track: Player's track may be any of the files,  *)
(* and Formats says what it is opened as and what of it is played.         *)
(***************************************************************************)
EXTENDS Player
F == INSTANCE Formats

CONSTANTS
  Files,  \* by content, name and the tag before the audio
  MP3s    \* by the sizes of the tags behind the audio

\* What the files hold; text stands for what no decoder knows.
Contents == {"xm", "it", "s3m", "mod", "mptm", "mtm", "mp3", "mp2", "wav", "flac", "opus", "vorbis",
             "ape", "midi", "m4a", "m4b", "mp42", "isom", "text"}

\* Files of any name, tagged where a tag may be, with a tag that leaves the content's first
\* bytes to be seen. Behind a longer one a file is taken for an MP3, as one mostly is.
FilesNamed(Name) ==
  {f \in [content : Contents, id3 : {"none", "short", "long"}, name : Name, folded : Name] :
     \/ f.id3 = "none" \/ f.content = "mp3"
     \/ f.id3 = "short" /\ f.content \in {"mp2", "ape"}}

\* MP3s with audio; what has no footer has no APEv2 tag.
MP3Type ==
  {f \in [audio : Nat \ {0}, header : {0, 1}, items : Nat, footer : {0, 1}, id3v1 : {0, 4}] :
     f.footer = 0 => f.items = 0 /\ f.header = 0}

ASSUME FilesAssumption == Files \subseteq FilesNamed(STRING) /\ MP3s \subseteq MP3Type

EveryFileOpened ==
  \A f \in Files, library \in BOOLEAN, backend \in {"auto", "gotracker"} : F!OpensWhatItIs(f, library, backend)

EveryTailHidden == \A f \in MP3s : F!SeesTheAudio(f)

\* Once a file is open, it is what it was opened as, and no tag is played (detection,
\* registry, mp3TrailingTagStart).
OpenedAsItIs == opened = "yes" => EveryFileOpened /\ EveryTailHidden
=============================================================================
