------------------------------ MODULE LineFiles ------------------------------
(***************************************************************************)
(* The files the command line deals with: those dropped on it, which Drop  *)
(* finds in what the window sent, and the settings that :w and the end of  *)
(* the program save, as Config does.                                       *)
(***************************************************************************)
EXTENDS CommandLine
D == INSTANCE Drop
C == INSTANCE Config

CONSTANTS
  NameChar,   \* what file names are made of
  DropNames,  \* the files dropped together: sequences of names
  Lives       \* of settings: the file at first, and the runs of the program over it

\* A run's repair and its save go well or fail before they write, or the save is cut off.
RunType == [repair : {"ok", "failed"}, save : {"ok", "failed", "cut"}, volume : Int]

ASSUME FilesAssumption ==
  /\ {D!Escape, D!Space} \subseteq NameChar /\ DropNames \subseteq Seq(Seq(NameChar) \ {<<>>})
  /\ \A life \in Lives : C!IsFile(life.file) /\ life.runs \in Seq(RunType)

EveryDropArrives == \A names \in DropNames : D!ArrivesWhole(names)
EveryFileKept == \A life \in Lives : C!SettingsKept(life.file, life.runs)

\* A dropped file arrives under its name, whatever the window had to escape in it, once
\* something was put into the line (drop.go: normalizeDrop).
DropArrives == input # Empty => EveryDropArrives

\* :w, and every other save, loses no setting over runs that repair, fail and are cut
\* off (config.go: Normalize, Load, Save).
ConfigKept == history # <<>> => EveryFileKept
=============================================================================
