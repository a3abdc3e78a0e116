------------------------------- MODULE Config -------------------------------
(* The configuration file: what Load makes of it, what Normalize repairs, what Save
   writes, over several runs of the program (src/internal/config). Pure functions of the
   file and of what is done in the runs.

   The disk holds no file, a torn one (a save was cut off: it is not written aside and
   renamed) or a file ("is") with settings; those that are not in it keep their defaults.
   Volumes are in thousandths. Settings nothing here depends on (icons, steps, bars, the
   tick rate) are left out: they are read and written as they are. *)
EXTENDS Integers, Sequences, FiniteSetsExt, SequencesExt

Auto == 0   \* PanelWidthAuto: the width a zero stands for

DefaultConfig ==
  [volume |-> 1000, tracker |-> "auto", switch |-> "on_success",
   panel |-> "auto", width |-> Auto, context |-> 0, gate |-> "either", warn |-> 20,
   url |-> "", timeout |-> 10, security |-> "strict"]

--------------------------------------------------------------------------
(* The file *)

\* PanelWidth is written as a word when it is zero, and read from a word or a number.
AutoWord  == [is |-> "word"]
Number(n) == [is |-> "number", n |-> n]

MarshalWidth(n) == IF n = Auto THEN AutoWord ELSE Number(n)
UnmarshalWidth(value) == IF value.is = "word" THEN Auto ELSE value.n

Holding(settings) == [is |-> "file", settings |-> settings]
\* Any of the settings, of which numbers are numbers.
IsFile(file) ==
  /\ DOMAIN file \subseteq DOMAIN DefaultConfig
  /\ \A field \in DOMAIN file \cap {"volume", "context", "warn", "timeout"} : file[field] \in Int
  /\ "width" \in DOMAIN file => file.width \in {AutoWord} \cup [is : {"number"}, n : Int]

Absent == [is |-> "absent"]
Torn   == [is |-> "torn"]

Marshal(config) == Holding([config EXCEPT !.width = MarshalWidth(@)])

\* The settings of the file over the defaults.
Unmarshal(file) ==
  [field \in DOMAIN DefaultConfig |->
     IF field \notin DOMAIN file THEN DefaultConfig[field]
     ELSE IF field = "width" THEN UnmarshalWidth(file.width) ELSE file[field]]

--------------------------------------------------------------------------
(* Normalize *)

ClampInt(v, lo, hi) == IF v < lo THEN lo ELSE IF v > hi THEN hi ELSE v

\* Clamped, and rounded to the hundredth.
NormalVolume(v) == 10 * ((ClampInt(v, 0, 1000) + 5) \div 10)

OneOf(value, allowed, otherwise) == IF value \in allowed THEN value ELSE otherwise

\* A bug: a width left to the program becomes the least there is.
NormalPanelClamped(c) ==
  [c EXCEPT !.panel = OneOf(@, {"auto", "on", "off"}, "auto"),
            !.width = ClampInt(@, 24, 48),
            !.context = ClampInt(@, 0, 10)]

\* A width of zero is a choice, and is not clamped.
NormalPanel(c) ==
  [c EXCEPT !.panel = OneOf(@, {"auto", "on", "off"}, "auto"),
            !.width = IF @ = Auto THEN Auto ELSE ClampInt(@, 24, 48),
            !.context = ClampInt(@, 0, 10)]

NormalAnim(c) ==
  [c EXCEPT !.gate = OneOf(@, {"either", "declared", "off"}, "either"),
            !.warn = ClampInt(@, 0, 100)]

\* The root of the API: with a scheme and a host, and no slash behind it; else the default.
NormalURL(url) ==
  CASE url = "https://host/" -> "https://host"
    [] url \in {"", "https://host", "http://host"} -> url
    [] OTHER -> ""

Normal(c) ==
  NormalPanel(NormalAnim(
    [c EXCEPT !.volume = NormalVolume(@),
              !.switch = OneOf(@, {"on_success", "immediate"}, "on_success"),
              !.url = NormalURL(@),
              !.timeout = IF @ <= 0 THEN 10 ELSE @,
              !.security = OneOf(@, {"strict", "basic"}, "strict")]))

\* Normalize: what it makes of the settings, and whether it says they changed.
Normalize(c) == [config |-> Normal(c), changed |-> Normal(c) # c]

--------------------------------------------------------------------------
(* Load and Save *)

\* Save, when it goes well or fails before it writes, or is cut off.
Save(stored, config, how) ==
  CASE how = "ok" -> Marshal(config) [] how = "failed" -> stored [] how = "cut" -> Torn

\* Load: the settings in use, and the file afterwards. A file that cannot be parsed
\* leaves the defaults, and an error that is logged; the tracker backend is repaired in
\* use but is no reason to write.
Load(stored, how) ==
  IF stored = Absent THEN [config |-> DefaultConfig, stored |-> Save(stored, DefaultConfig, how)]
  ELSE IF stored = Torn THEN [config |-> DefaultConfig, stored |-> stored]
  ELSE LET read == [Unmarshal(stored.settings) EXCEPT !.tracker = OneOf(@, {"auto", "openmpt", "gotracker"}, "auto")]
           n == Normalize(read)
       IN  [config |-> n.config, stored |-> IF n.changed THEN Save(stored, n.config, how) ELSE stored]

\* A run of the program: Load, and the volume saved when it changes and at the end. A
\* file that is not there is made by setup, with the defaults it offers.
Run(stored, run) ==
  LET loaded == Load(stored, run.repair)
      config == [loaded.config EXCEPT !.volume = run.volume]
  IN  [config |-> loaded.config, stored |-> Save(loaded.stored, config, run.save)]

--------------------------------------------------------------------------
(* What these functions are for *)

\* Over any runs, each of which may fail to write or be cut off while it does: whatever
\* the user wrote that can be used is used in every run and is still there after the last,
\* what cannot is used and written as its repair, and only the volume moves. What a torn
\* file held is gone: it counts as all defaults, never as some (Normalize, Load, Save).
SettingsKept(file, runs) ==
  LET stored[i \in 0 .. Len(runs)] == IF i = 0 THEN Holding(file) ELSE Run(stored[i - 1], runs[i]).stored
      wrote == Normal([Unmarshal(file) EXCEPT !.tracker = OneOf(@, {"auto", "openmpt", "gotracker"}, "auto")])
      torn(i) == {j \in 1 .. i : runs[j].save = "cut"}
      meant(i) == IF torn(i) = {} THEN wrote ELSE DefaultConfig
      writes(i) == {j \in 1 .. i : runs[j].save # "failed"}
      volume(i) == IF writes(i) = {} THEN wrote.volume
                   ELSE IF Max(writes(i)) \in torn(i) THEN DefaultConfig.volume
                   ELSE NormalVolume(runs[Max(writes(i))].volume)
  IN  \A i \in 0 .. Len(runs) :
        Load(stored[i], "failed").config = [meant(i) EXCEPT !.volume = volume(i)]
=============================================================================
