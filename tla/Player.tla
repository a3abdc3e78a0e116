------------------------------- MODULE Player -------------------------------
(***************************************************************************)
(* One track, from its source to the sound card (internal/audio: player,   *)
(* output, volume, reader, remote, synth_load; audio/synth).               *)
(*                                                                         *)
(* Three parties share it.  The owner calls the methods of Player one at a *)
(* time, under p.mu; a call is the sequence "todo" of its steps, cut where *)
(* it takes the speaker's lock.  The audio goroutine holds that lock for a *)
(* whole callback, in which it streams every entry of the mixer.  A remote *)
(* track has a download goroutine.  Samples are counted from 0 to Length,  *)
(* one for each call of Stream.                                            *)
(***************************************************************************)
EXTENDS Integers, Sequences, FiniteSets

CONSTANTS
  Kinds,      \* kinds of track: "file", "remote", "midi", "tracker", "openmpt"
  Calls,      \* methods the owner calls besides Close
  Length,     \* samples of the track
  Resampled,  \* the speaker runs at another rate than the track
  MaxEntry    \* bound: entries in the mixer at once

Decoded == {"file", "remote"}
Synthetic == {"midi", "tracker", "openmpt"}

ASSUME PlayerAssumption ==
  /\ Kinds \subseteq Decoded \cup Synthetic /\ Kinds # {}
  /\ Calls \subseteq {"Play", "Pause", "Resume", "Stop", "Toggle", "SetVolume", "Seek"}
  /\ Length \in Nat \ {0} /\ MaxEntry \in Nat \ {0}
  /\ Resampled \in BOOLEAN

Entries == 1 .. MaxEntry
None == 0
Levels == {"low", "full"}
Steps == {"open", "decode", "discard", "detach", "attach", "playing", "unpause", "resumed",
          "pause", "stopped", "synthplay", "synthpause", "synthstop", "synthseek", "seek", "rebuild",
          "sought", "seekfailed", "volume", "release"}

VARIABLES
  kind, opened,                  \* what is played; Open has returned, has failed, Close has run
  todo, arg,                     \* steps left of the call under way; its target, wasPlaying and wasAttached
  isPlaying, isPaused, volume,   \* fields of Player
  streamer, pos,                 \* Player.streamer # nil, and its position
  chain,                         \* p.ctrl and p.volume: Ctrl.Paused, the volume, what its resampler holds of the track
  output, mixer, live,           \* Player.output; entries of the mixer; those whose Streamer is not nil
  pull,                          \* entries left in the callback under way; {None} when there is none
  synth, stream, snap, place,    \* the synth controller's fields; its Stream call; the elapsed it copied; where the sequencer is
  remote,                        \* the remoteReadSeeker
  temp                           \* temporary files or directories on disk

playerVars == <<isPlaying, isPaused, volume>>
decoderVars == <<streamer, pos>>
outputVars == <<output, mixer, live>>
synthVars == <<synth, stream, snap, place>>
callVars == <<kind, opened, todo, arg>>
vars == <<callVars, playerVars, decoderVars, chain, outputVars, pull, synthVars, remote, temp>>

\* What buildChain makes.  Only this chain can sound: whatever replaces it is detached first.
NewChain(paused, level) == [paused |-> paused, level |-> level, holds |-> "nothing"]
NoArg == [target |-> 0, wasPlaying |-> FALSE, wasAttached |-> FALSE]
NoSynth == [open |-> FALSE, paused |-> TRUE, finished |-> FALSE, seeking |-> FALSE, target |-> 0,
            elapsed |-> 0, level |-> "full"]
NoRemote == [task |-> "none", written |-> 0, done |-> FALSE, cancelled |-> FALSE]

TypeOK ==
  /\ kind \in Kinds /\ opened \in {"no", "yes", "failed", "closed"}
  /\ todo \in Seq(Steps)
  /\ arg \in [target : 0 .. Length, wasPlaying : BOOLEAN, wasAttached : BOOLEAN]
  /\ isPlaying \in BOOLEAN /\ isPaused \in BOOLEAN /\ volume \in Levels
  /\ streamer \in BOOLEAN /\ pos \in 0 .. Length
  /\ chain \in [paused : BOOLEAN, level : Levels, holds : {"nothing", "fresh", "stale"}]
  /\ output \in Entries \cup {None} /\ live \subseteq mixer /\ mixer \subseteq Entries
  /\ pull \subseteq Entries \cup {None}
  /\ synth \in [open : BOOLEAN, paused : BOOLEAN, finished : BOOLEAN, seeking : BOOLEAN,
                target : 0 .. Length, elapsed : 0 .. Length, level : Levels]
  /\ stream \in {"idle", "jump", "render"} /\ snap \in 0 .. Length /\ place \in 0 .. Length
  /\ remote \in [task : {"none", "check", "read", "ended"}, written : 0 .. Length, done : BOOLEAN,
                 cancelled : BOOLEAN]
  /\ temp \in BOOLEAN

\* NewPlayer, and the call of Open or OpenReader that follows it.
Init ==
  /\ kind \in Kinds /\ opened = "no" /\ todo = <<"open">> /\ arg = NoArg
  /\ isPlaying = FALSE /\ isPaused = TRUE /\ volume = "full"
  /\ streamer = FALSE /\ pos = 0
  /\ chain = NewChain(TRUE, "full")
  /\ output = None /\ mixer = {} /\ live = {}
  /\ pull = {None}
  /\ synth = NoSynth /\ stream = "idle" /\ snap = 0 /\ place = 0
  /\ remote = NoRemote /\ temp = FALSE

IsSynth == kind \in Synthetic
SpeakerFree == pull = {None}
Playing == isPlaying /\ ~isPaused  \* Player.IsPlaying

Now(step) == todo # <<>> /\ Head(todo) = step
Done == todo' = Tail(todo)
Then(steps) == todo' = steps \o Tail(todo)

-----------------------------------------------------------------------------
(* Open, OpenReader, openURL, openSynthetic.  The owner closes a player whose Open failed. *)

CloseSteps == <<"detach", "release">>

Fail == opened' = "failed" /\ Then(CloseSteps)

\* What comes before decoding.  A synthesised format, or one whose decoder wants a path, is
\* written to a temporary file when it is in memory; that may fail too.
Source == <<"detach", "decode">>

OpenFile ==
  /\ Now("open") /\ kind # "remote"
  /\ Fail \/ (Then(Source) /\ UNCHANGED opened)
  /\ UNCHANGED <<kind, arg, playerVars, decoderVars, chain, outputVars, pull, synthVars, remote, temp>>

OpenReader ==
  /\ Now("open") /\ IsSynth
  /\ \/ Fail /\ temp' \in BOOLEAN
     \/ Then(Source) /\ temp' = TRUE /\ UNCHANGED opened
  /\ UNCHANGED <<kind, arg, playerVars, decoderVars, chain, outputVars, pull, synthVars, remote>>

\* The answer to the request, and newRemoteReadSeeker, which starts the download.
OpenURL ==
  /\ Now("open") /\ kind = "remote"
  /\ \/ Fail /\ UNCHANGED <<remote, temp>>
     \/ /\ Then(Source) /\ UNCHANGED opened
        /\ temp' = TRUE
        /\ remote' = [remote EXCEPT !.task = "check"]
  /\ UNCHANGED <<kind, arg, playerVars, decoderVars, chain, outputVars, pull, synthVars>>

\* The decoder waits for its header, or for all of a stream whose length it cannot know.
HeaderRead == remote.done \/ remote.written > 0

\* The decoder, the sound font or the engine refuses the track, or the speaker cannot be opened.
Refuse ==
  /\ Now("decode")
  /\ kind = "remote" => HeaderRead
  /\ opened' = "failed"
  /\ Then(IF kind = "remote" THEN <<"discard", "detach", "release">> ELSE CloseSteps)
  /\ UNCHANGED <<kind, arg, playerVars, decoderVars, chain, outputVars, pull, synthVars, remote, temp>>

\* remoteReadSeeker.Close: the body is closed, the cache file and its directory removed.
Discard ==
  /\ Now("discard") /\ Done
  /\ remote' = [remote EXCEPT !.cancelled = TRUE] /\ temp' = FALSE
  /\ UNCHANGED <<kind, opened, arg, playerVars, decoderVars, chain, outputVars, pull, synthVars>>

\* What every way of opening ends with.
Opened ==
  /\ Now("decode") /\ Done
  /\ opened' = "yes" /\ isPaused' = TRUE /\ isPlaying' = FALSE
  /\ UNCHANGED <<kind, arg, volume, pos, outputVars, pull, stream, snap, place, remote, temp>>

SetupStreamer ==
  /\ ~IsSynth /\ (kind = "remote" => HeaderRead) /\ Opened
  /\ streamer' = TRUE /\ chain' = NewChain(TRUE, volume)
  /\ UNCHANGED synth

\* A new controller is paused and at the volume that was set.
NewController == [NoSynth EXCEPT !.open = TRUE, !.level = volume]

OpenMIDISynth ==
  /\ kind = "midi" /\ Opened
  /\ synth' = NewController /\ UNCHANGED <<streamer, chain>>

\* libopenmpt is tried first.
OpenOpenmpt ==
  /\ kind = "openmpt" /\ Opened
  /\ synth' = NewController /\ UNCHANGED <<streamer, chain>>

\* The built-in engine takes MOD, XM, S3M and IT when the library is not there.
OpenTrackerSynth ==
  /\ kind = "tracker" /\ Opened
  /\ synth' = NewController /\ UNCHANGED <<streamer, chain>>

-----------------------------------------------------------------------------
(* The output: attachOutput and detachOutput, each under the speaker's lock. *)

DetachLeavingEntry ==
  /\ Now("detach") /\ Done /\ SpeakerFree
  /\ output' = None /\ isPlaying' = FALSE
  /\ UNCHANGED <<kind, opened, arg, isPaused, volume, decoderVars, chain, mixer, live, pull, synthVars, remote, temp>>
Detach ==
  /\ Now("detach") /\ Done /\ SpeakerFree
  /\ live' = live \ {output}
  /\ output' = None /\ isPlaying' = FALSE
  /\ UNCHANGED <<kind, opened, arg, isPaused, volume, decoderVars, chain, mixer, pull, synthVars,
                 remote, temp>>

\* speaker.Play of a fresh Ctrl, after the detach that goes before it.
Attach ==
  /\ Now("attach") /\ Done /\ SpeakerFree
  /\ \E e \in Entries \ mixer :
       /\ \A d \in Entries \ mixer : e <= d
       /\ output' = e /\ mixer' = mixer \cup {e} /\ live' = live \cup {e}
  /\ UNCHANGED <<kind, opened, arg, playerVars, decoderVars, chain, pull, synthVars, remote, temp>>

-----------------------------------------------------------------------------
(* The owner's calls. *)

Idle == todo = <<>> /\ opened = "yes"

PlaySteps ==
  IF IsSynth THEN <<"synthplay", "detach", "attach", "playing">>
             ELSE <<"unpause", "detach", "attach", "playing">>
PauseSteps == IF IsSynth THEN <<"synthpause">> ELSE <<"pause">>

Call(method, steps) ==
  /\ Idle /\ method \in Calls \cup {"Close"} /\ todo' = steps
  /\ UNCHANGED <<kind, opened, playerVars, decoderVars, chain, outputVars, pull, synthVars, remote,
                 temp>>

Play == Call("Play", PlaySteps) /\ UNCHANGED arg
Pause == Call("Pause", PauseSteps) /\ UNCHANGED arg
Resume == Call("Resume", IF IsSynth THEN PlaySteps ELSE <<"unpause", "resumed">>) /\ UNCHANGED arg
Stop == Call("Stop", <<"detach", IF IsSynth THEN "synthstop" ELSE "stopped">>) /\ UNCHANGED arg
Toggle == Call("Toggle", IF Playing THEN PauseSteps ELSE PlaySteps) /\ UNCHANGED arg
SetVolume == Call("SetVolume", <<"volume">>) /\ UNCHANGED arg
Close == Call("Close", CloseSteps) /\ UNCHANGED arg

\* The locals of Seek are read before the output is detached.
Seek ==
  /\ \E t \in 0 .. Length :
       arg' = [target |-> t, wasPlaying |-> Playing, wasAttached |-> output # None]
  /\ Call("Seek", IF IsSynth THEN <<"synthseek">> ELSE <<"detach", "seek">>)

SetPaused(value) ==
  /\ SpeakerFree
  /\ chain' = [chain EXCEPT !.paused = value]
  /\ UNCHANGED <<kind, opened, arg, volume, decoderVars, outputVars, pull, synthVars,
                 remote, temp>>

Unpause == Now("unpause") /\ Done /\ SetPaused(FALSE) /\ UNCHANGED <<isPlaying, isPaused>>
PauseChain == Now("pause") /\ Done /\ SetPaused(TRUE) /\ isPaused' = TRUE /\ UNCHANGED isPlaying

\* Assignments at the end of a call, and what a synth controller does under its own mutex.
Settle(step, playing, isPausedNow, controller) ==
  /\ Now(step) /\ Done
  /\ isPlaying' = playing /\ isPaused' = isPausedNow /\ synth' = controller
  /\ UNCHANGED <<kind, opened, arg, volume, decoderVars, chain, outputVars, pull, stream, snap, place,
                 remote, temp>>

MarkPlaying == Settle("playing", TRUE, FALSE, synth)
MarkResumed == Settle("resumed", isPlaying, FALSE, synth)
MarkStopped == Settle("stopped", FALSE, TRUE, synth)
SynthPlay == SpeakerFree /\ Settle("synthplay", isPlaying, isPaused, [synth EXCEPT !.paused = FALSE, !.finished = FALSE])
SynthPause == Settle("synthpause", isPlaying, TRUE, [synth EXCEPT !.paused = TRUE])

\* baseStop.  elapsed is rewound, the sequencer is not.
SynthStop ==
  Settle("synthstop", FALSE, TRUE,
    [synth EXCEPT !.paused = TRUE, !.finished = FALSE, !.elapsed = 0,
                  !.seeking = FALSE])

\* Seek of a synth controller, without the speaker's lock: the next Stream jumps.
SynthSeek ==
  /\ Now("synthseek") /\ Done /\ kind # "openmpt"
  /\ synth' = [synth EXCEPT !.elapsed = arg.target, !.target = arg.target, !.finished = FALSE,
                            !.seeking = TRUE]
  /\ arg' = NoArg
  /\ UNCHANGED <<kind, opened, playerVars, decoderVars, chain, outputVars, pull, stream, snap, place,
                 remote, temp>>

\* libopenmpt jumps there and then, under the mutex that Stream holds.
OpenmptSeek ==
  /\ Now("synthseek") /\ Done /\ kind = "openmpt"
  /\ synth' = [synth EXCEPT !.elapsed = arg.target, !.finished = FALSE]
  /\ place' = arg.target
  /\ arg' = NoArg
  /\ UNCHANGED <<kind, opened, playerVars, decoderVars, chain, outputVars, pull, stream, snap, remote,
                 temp>>

\* A remote decoder reads at its target, and waits for the download to get there.
Reached(p) == kind = "remote" => remote.done \/ p < remote.written

SeekDecoder ==
  /\ Now("seek") /\ Reached(arg.target)
  /\ \/ /\ pos' = arg.target
        /\ chain' = [chain EXCEPT !.holds = IF @ = "nothing" THEN @ ELSE "stale"]
        /\ Then(IF arg.wasAttached THEN <<"rebuild", "detach", "attach", "sought">> ELSE <<"rebuild", "sought">>)
     \/ /\ Then(IF arg.wasAttached THEN <<"detach", "attach", "seekfailed">> ELSE <<>>)
        /\ UNCHANGED <<pos, chain>>
  /\ UNCHANGED <<kind, opened, arg, playerVars, streamer, outputVars, pull, synthVars, remote, temp>>

\* buildChain: a new resampler, control and volume around the decoder.
RebuildKeepsBuffer ==
  /\ Now("rebuild") /\ Done
  /\ chain' = [chain EXCEPT !.paused = ~arg.wasPlaying]
  /\ UNCHANGED <<kind, opened, arg, playerVars, decoderVars, outputVars, pull, synthVars, remote, temp>>

Rebuild ==
  /\ Now("rebuild") /\ Done
  /\ chain' = NewChain(~arg.wasPlaying, volume)
  /\ UNCHANGED <<kind, opened, arg, playerVars, decoderVars, outputVars, pull, synthVars, remote, temp>>

Sought ==
  /\ Now("sought") /\ Done
  /\ isPlaying' = arg.wasAttached /\ isPaused' = ~arg.wasPlaying
  /\ arg' = NoArg
  /\ UNCHANGED <<kind, opened, volume, decoderVars, chain, outputVars, pull, synthVars, remote, temp>>

MarkSeekFailed == Settle("seekfailed", TRUE, isPaused, synth)

\* SetVolume writes the volume the callback reads, without the speaker's lock.
ApplyVolume ==
  /\ Now("volume") /\ Done
  /\ \E v \in Levels :
       /\ volume' = v
       /\ chain' = [chain EXCEPT !.level = v]
       /\ synth' = IF IsSynth THEN [synth EXCEPT !.level = v] ELSE synth
  /\ UNCHANGED <<kind, opened, arg, isPlaying, isPaused, decoderVars, outputVars, pull, stream, snap, place, remote, temp>>

\* closeStreamer after its detach, then the rest of Close.
Release ==
  /\ Now("release") /\ Done
  /\ opened' = IF opened = "yes" THEN "closed" ELSE opened
  /\ synth' = [synth EXCEPT !.open = FALSE, !.seeking = FALSE]
  /\ streamer' = FALSE /\ isPaused' = TRUE
  /\ remote' = IF remote.task = "none" \/ ~streamer THEN remote ELSE [remote EXCEPT !.cancelled = TRUE]
  /\ temp' = (temp /\ kind = "remote" /\ ~streamer)
  /\ UNCHANGED <<kind, arg, isPlaying, volume, pos, chain, outputVars, pull, stream, snap, place>>

Caller ==
  \/ OpenFile \/ OpenReader \/ OpenURL \/ Refuse \/ Discard
  \/ SetupStreamer \/ OpenMIDISynth \/ OpenOpenmpt \/ OpenTrackerSynth \/ Detach \/ Attach
  \/ Unpause \/ PauseChain \/ MarkPlaying \/ MarkResumed \/ MarkStopped
  \/ SynthPlay \/ SynthPause \/ SynthStop \/ SynthSeek \/ OpenmptSeek
  \/ SeekDecoder \/ Rebuild \/ Sought \/ MarkSeekFailed \/ ApplyVolume \/ Release

Owner == Play \/ Pause \/ Resume \/ Stop \/ Toggle \/ SetVolume \/ Seek \/ Close

-----------------------------------------------------------------------------
(* The audio goroutine: one callback of the speaker. *)

callerVars == <<callVars, playerVars, temp>>

AudioBegin ==
  /\ SpeakerFree /\ mixer # {}
  /\ pull' = mixer
  /\ UNCHANGED <<callerVars, decoderVars, chain, outputVars, synthVars, remote>>

AudioEnd ==
  /\ pull = {}
  /\ pull' = {None}
  /\ UNCHANGED <<callerVars, decoderVars, chain, outputVars, synthVars, remote>>

Served(e) == pull' = pull \ {e}

\* The mixer drops an entry whose stream has ended.
Drop(e) == Served(e) /\ mixer' = mixer \ {e} /\ live' = live \ {e} /\ UNCHANGED output
Keep(e) == Served(e) /\ UNCHANGED outputVars

Live(e) == e \in live
Silenced(e) == Live(e) /\ IF IsSynth THEN synth.paused /\ ~synth.seeking /\ ~synth.finished ELSE chain.paused

StreamDetached(e) ==
  /\ ~Live(e) /\ Drop(e)
  /\ UNCHANGED <<callerVars, decoderVars, chain, synthVars, remote>>

StreamSilence(e) ==
  /\ Silenced(e) /\ stream = "idle" /\ Keep(e)
  /\ UNCHANGED <<callerVars, decoderVars, chain, synthVars, remote>>

\* Where a decoder stops: the end of the track, or of what a failed download left.
AtEnd == pos = Length \/ (kind = "remote" /\ remote.done /\ pos >= remote.written)

\* The resampler plays what it holds and reads ahead; without it the decoder is read directly.
StreamDecoded(e) ==
  /\ ~IsSynth /\ Live(e) /\ ~Silenced(e)
  /\ IF AtEnd
     THEN Drop(e) /\ UNCHANGED <<pos, chain>>
     ELSE /\ Reached(pos) /\ Keep(e)
          /\ pos' = pos + 1
          /\ chain' = IF Resampled THEN [chain EXCEPT !.holds = "fresh"] ELSE chain
  /\ UNCHANGED <<callerVars, streamer, synthVars, remote>>

\* The module renders under the controller's mutex, so in one step.
StreamOpenmpt(e) ==
  /\ kind = "openmpt" /\ Live(e) /\ ~Silenced(e)
  /\ IF synth.finished
     THEN Drop(e) /\ UNCHANGED <<synth, place>>
     ELSE /\ Keep(e)
          /\ IF synth.elapsed = Length \/ place = Length
             THEN synth' = [synth EXCEPT !.finished = TRUE] /\ UNCHANGED place
             ELSE synth' = [synth EXCEPT !.elapsed = @ + 1] /\ place' = place + 1
  /\ UNCHANGED <<callerVars, decoderVars, chain, stream, snap, remote>>

Rendered(e) == kind \in {"midi", "tracker"} /\ Live(e)

\* The first critical section of Stream: it copies elapsed, and the target of a pending seek.
SynthBegin(e) ==
  /\ Rendered(e) /\ stream = "idle" /\ ~Silenced(e)
  /\ IF synth.finished
     THEN Drop(e) /\ UNCHANGED synthVars
     ELSE /\ snap' = synth.elapsed
          /\ stream' = IF synth.seeking THEN "jump" ELSE "render"
          /\ place' = IF synth.seeking THEN synth.target ELSE place
          /\ synth' = [synth EXCEPT !.seeking = FALSE]
          /\ UNCHANGED <<outputVars, pull>>
  /\ UNCHANGED <<callerVars, decoderVars, chain, remote>>

\* handleSeek renders towards its target without the mutex; a second seek starts it again.
JumpAgain(e) ==
  /\ Rendered(e) /\ stream = "jump" /\ synth.seeking
  /\ place' = synth.target
  /\ synth' = [synth EXCEPT !.seeking = FALSE]
  /\ UNCHANGED <<callerVars, decoderVars, chain, outputVars, pull, stream, snap, remote>>

\* The new sequencer takes over.  The tracker recomputes elapsed from it, MIDI keeps its copy.
Arrive(e) ==
  /\ Rendered(e) /\ stream = "jump"
  /\ IF synth.seeking \/ synth.paused
     THEN stream' = "idle" /\ snap' = 0 /\ Keep(e)
     ELSE /\ stream' = "render" /\ UNCHANGED <<outputVars, pull>>
          /\ snap' = IF kind = "tracker" THEN place ELSE snap
  /\ UNCHANGED <<callerVars, decoderVars, chain, synth, place, remote>>

\* fillSamples, and the critical section that writes elapsed back.
SynthEnd(e) ==
  /\ Rendered(e) /\ stream = "render" /\ Keep(e)
  /\ stream' = "idle" /\ snap' = 0
  /\ IF snap < Length
     THEN /\ synth' = [synth EXCEPT !.elapsed = snap + 1]
          /\ place' = IF place < Length THEN place + 1 ELSE place
     ELSE /\ synth' = [synth EXCEPT !.elapsed = snap, !.finished = TRUE]
          /\ UNCHANGED place
  /\ UNCHANGED <<callerVars, decoderVars, chain, remote>>

\* renderOneTick: the tracker's song has ended before its duration, or its engine panics.
TickEnds(e) ==
  /\ Rendered(e) /\ kind = "tracker" /\ stream = "render" /\ Keep(e)
  /\ stream' = "idle" /\ snap' = 0
  /\ synth' = [synth EXCEPT !.elapsed = snap, !.finished = TRUE]
  /\ UNCHANGED <<callerVars, decoderVars, chain, place, remote>>

\* The tracker's engine panics, or cannot be rebuilt, while it renders towards the target.
JumpFails(e) ==
  /\ Rendered(e) /\ kind = "tracker" /\ stream = "jump" /\ Keep(e)
  /\ stream' = "idle" /\ snap' = 0
  /\ synth' = [synth EXCEPT !.finished = TRUE]
  /\ UNCHANGED <<callerVars, decoderVars, chain, place, remote>>

StreamEntry(e) ==
  \/ StreamDetached(e) \/ StreamSilence(e) \/ StreamDecoded(e) \/ StreamOpenmpt(e)
  \/ SynthBegin(e) \/ JumpAgain(e) \/ Arrive(e) \/ SynthEnd(e) \/ TickEnds(e) \/ JumpFails(e)

Audio == AudioBegin \/ AudioEnd \/ \E e \in pull \ {None} : StreamEntry(e)

-----------------------------------------------------------------------------
(* The download of a remote track. *)

downloadRest == <<callVars, playerVars, temp, decoderVars, chain, outputVars, pull, synthVars>>

DownloadCheck ==
  /\ remote.task = "check"
  /\ remote' = [remote EXCEPT !.task = IF remote.cancelled THEN "ended" ELSE "read"]
  /\ UNCHANGED downloadRest

\* setError, which wakes whoever waits in Read.
SetErrorAsleep == [remote EXCEPT !.task = "ended"]
SetError == [remote EXCEPT !.task = "ended", !.done = TRUE]

\* One body.Read: data, the end, or an error, which the client's timeout makes certain in the end.
\* Close has closed the body and the cache file: what is read then cannot be written.
DownloadRead ==
  /\ remote.task = "read"
  /\ \/ /\ ~remote.cancelled /\ remote.written < Length
        /\ remote' = [remote EXCEPT !.task = "check", !.written = @ + 1]
     \/ /\ ~remote.cancelled /\ remote.written = Length
        /\ remote' = [remote EXCEPT !.task = "ended", !.done = TRUE]
     \/ remote' = SetError
  /\ UNCHANGED downloadRest

Download == DownloadCheck \/ DownloadRead

-----------------------------------------------------------------------------
Next == Caller \/ Owner \/ Audio \/ Download

Spec == Init /\ [][Next]_vars

\* Calls run to their end, and sync.Mutex gives the speaker's lock to whoever has waited for it
\* (strong fairness); oto keeps asking for samples; the body is read until it fails.
FairSpec == Spec /\ SF_vars(Caller) /\ WF_vars(Audio) /\ WF_vars(Download)

-----------------------------------------------------------------------------
(* Properties. *)

Quiet == todo = <<>> /\ opened = "yes"
Sounding(e) == e \in mixer /\ Live(e) /\ ~Silenced(e)

\* While a decoder is moved or closed the speaker streams none of it: detachOutput waits for the
\* callback under way and cuts the entry, whichever chain or callback was using it.
DecoderExclusive ==
  Now("seek") \/ Now("release") => live = {}

\* Between two calls the flags tell what is heard of a decoded track: it sounds exactly when
\* IsPlaying says so and it has not run out, once, and at the volume that was set.
FlagsTellSound ==
  Quiet /\ ~IsSynth =>
    /\ Cardinality(live) <= 1
    /\ Playing /\ ~AtEnd => \E e \in mixer : Sounding(e)
    /\ \A e \in mixer : Sounding(e) => Playing /\ e = output /\ chain.level = volume

\* After a seek nothing read before it is heard: a chain that the speaker can reach never holds
\* samples its resampler read before the last jump.
HeardIsHere ==
  live # {} => chain.holds # "stale"

\* What the player says of a decoded track and what the speaker does are the same, across
\* seeks, detached chains and callbacks under way (player.go, output.go).
SoundTrue == FlagsTellSound /\ HeardIsHere

\* A player whose Open failed or that was closed leaves nothing behind: no temporary file, no
\* decoder, no synthesiser, no download that nobody told to stop.
NothingLeft ==
  todo = <<>> /\ opened \in {"failed", "closed"} =>
    /\ ~temp /\ ~streamer /\ ~synth.open
    /\ remote.task = "none" \/ remote.cancelled

\* A decoder has one user at a time, and none when it is over (output.go: detachOutput;
\* player.go: Close; remote.go). Every variable keeps its type meanwhile.
DecoderOwned == TypeOK /\ DecoderExclusive /\ NothingLeft

\* Every call of the owner returns, though a callback that waits for data of a remote track holds
\* the speaker's lock meanwhile: the client's timeout ends the download and wakes it.
CallsReturn == todo # <<>> ~> todo = <<>>
=============================================================================
