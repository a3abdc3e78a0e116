# NeoViolet in TLA+

NeoViolet is a terminal music player: a Go program (`cmd`, `internal`) that decodes and plays
one track at a time and shows lyrics, cover colours and animations; a Rust window
(`tools/neoviolet-gui`) that hosts its terminal and talks to it over a loopback TCP connection;
and a Rust decoder for Monkey's Audio (`tools/apecli`) that it runs as a subprocess.

This directory holds TLA+ models of the parts where goroutines, processes and files meet and of
the small algorithms they rely on, TLC configurations that check them on small instances, and TLAPS
proofs of what the concurrent ones guarantee on any instance and most of the algorithms compute for any
input. `PROJECT.json` is the index: runs,
properties, mutants, the source lines of each definition, hazards, theorems.

## Inventory

### How the program runs

A Bubble Tea **event loop** is the only goroutine that touches the model of the interface
(`internal/ui`). A handler takes one message, changes the model and returns commands; each command
runs in a goroutine of its own and ends in another message. Order between messages of different
goroutines is not promised, and a message posted after the loop has ended is lost. Around the loop:

| Part | State | Operations | Talks to |
|---|---|---|---|
| Track loading (`ui/audio_load.go`, `update_audio.go`, `model.go`) | `loadGeneration`, `activeGeneration`, `pendingLoad`, `pendingSeek`, `AudioState`, one `audioLoad` per load | open, loaded, failed, cleanup, Close | a goroutine per load, IPC, accent, lyrics |
| IPC server (`internal/ipc`) | current session, its control queue and two latest-value slots, `Incoming` | accept, authenticate, deliver, SendTo, writeLoop, flush, Close | event loop, GUI |
| GUI session (`ui/update_ipc.go`, `ipc_state.go`, `ipc_picker.go`) | `ipcSession`, `ipcPendingOpen`, picker id, state revision | events, requests, results, state push | IPC server, track loading |
| Startup host (`internal/startup`) | setup or player, phase, deferred load, GUI wait | setup, save, fallback, activate, Close | IPC, wizard, player |
| APE pipe (`audio/format/apestream`) | generation, readLoop, chunk channel, kept tail, position | Stream, Seek, Close, abort | decoder process, audio callback |
| Player and output (`internal/audio`) | decoder, resampler, volume, pause control, output lock | Open, Play, Pause, Seek, Close | audio callback, decoders |
| Decoders and detection (`audio/format`) | a buffer and a position per stream; the tables of an MP4 | Stream, Seek; detect, register | player |
| Synthesised formats (`audio/synth`) | elapsed, seek target, finished, the sequencer | Play, Stop, Seek, Stream | audio callback |
| Playback (`ui/audio_state.go`, `ipc_state.go`, `update.go`) | `AudioState`, what was last sent and when | tick, play, pause, seek, push | GUI, overlay, media control |
| Remote files (`audio/remote.go`) | temporary file, bytes so far, error | download, Read, Seek, Close | HTTP, decoders |
| Online lyrics (`lyrics/fetch`, `ui/update_lyrics_fetch.go`) | session cache, records on disk, cooldown, indicator | fetch, manual fetch, refresh, result | provider, event loop, disk |
| Lyric files and panel (`internal/lyrics`, `ui/lyrics_*.go`) | parsed lines, index | parse, active lines, layout | event loop |
| Animations (`internal/anim`, `internal/power`) | generation, gates, pending load | LoadFor, Apply, Approve, Close | event loop, battery |
| Media control (`internal/mediactl`) | command channel, bus connection | Start, Update, reconnect, Close | D-Bus, event loop |
| GUI wrapper (`tools/neoviolet-gui`) | windows, terminal, IPC client | Rust event loop | IPC server |
| Configuration (`internal/config`) | the file, its settings | Load, Normalize, Save | everything, at start and exit |
| Wizard (`ui/wizard`) | the form, the question put to the window | keys, answers | startup host |
| Command line (`ui/keyboard_command.go`, `completion.go`, `history.go`, `drop.go`) | text, candidates, history | keys, paste | event loop |
| Views and styles | none of their own | rendering | the model |

### What is hard, and what correctness means there

* **Track loading.** Several loads can be under way; a load can be given up before, while and after
  it opens its decoder, and its message can come late or never. Correct means: every decoder has one
  owner and is closed once nobody wants it; one track is heard; what the interface shows is about
  that track; a failed replacement leaves the old track; each GUI request gets one true verdict.
* **IPC server.** Four kinds of goroutine, bounded queues, a client that may stall. Correct means:
  events of sessions come in order; results are neither reordered nor lost while a session
  lives; a stale display frame never follows a newer one; Close ends whatever the others do.
* **APE pipe.** The decoder may stall or die at any frame while the audio thread reads and the
  program seeks. Correct means: the frame heard is the one the position names; no process is
  forgotten; no call blocks for good.
* **Online lyrics.** Fetches outlive tracks, overlap for one track, and are killed half way through
  a save. Correct means: lyrics shown are of the track that plays; a marker or an indicator never
  outlives what it stands for; records on disk are whole.
* **Player and output.** A call of the owner, the audio callback and a download share a decoder and
  two locks; a callback can wait for the network while it holds the lock everybody needs. Correct
  means: one user of a decoder at a time; flags that say what sounds; every call returns; nothing
  is left behind by a player that failed or was closed.
* **Decoders.** A seek lands inside a frame; a frame no longer decodes; a tag hides what a file is;
  four tables of an MP4 leave each other short. Correct means: every sample once and in order.
* **Startup host.** A window that may come late, ask and go away, settings that cannot be saved,
  tracks dropped too early, a controller that is ready whenever it is. Correct means: the window
  knows the phase; no question hangs; whoever holds the controller at the end has closed it.
* **Playback.** Three listeners, each throttled or told only of changes, behind sessions and a bus
  that come and go. Correct means: each knows in the end what the program does.
* **Animations.** Results arrive for a track, a size or a warning that is gone. Correct means: what
  is on the page is of this track and this size, and nothing flashes before somebody chose it.
* **Text and files.** Completion rounds, escaped paths, a settings file that is repaired and
  rewritten. Correct means: what the user typed, dropped or wrote is what is used.

## Modules

| Module | Of | Built on |
|---|---|---|
| `TrackLoad` | loading, adopting, replacing and releasing tracks; open and quit over IPC | |
| `PlayerLifetime` | abstract: what becomes of each player | refined by `TrackLoad` |
| `TrackLoadProofs` | theorems about `TrackLoad` for all constants | `TrackLoad`, `TLAPS` |
| `IpcServer` | the IPC server: sessions, queues, Close | |
| `ApePipe` | one APE file through its subprocess | |
| `Player` | one track from its source to the sound card: player, output, synthesisers, remote reader | |
| `Playback` | what the program says about playback: ticks, GUI state, overlay, MPRIS | |
| `LyricsFetch` | online lyrics: fetches, caches, results | |
| `Wizard` | the first-run form | |
| `Startup` | from launch to exit: setup, window, phases, media controller | `Wizard` |
| `Animation` | the animation of a track: loads, gates, clocks, sizes | |
| `Keyboard` | normal mode over a page that may hold an animation | `Animation` |
| `CommandLine` | the command line: completion, paste, history | |
| `Lyrics`, `Mp4`, `Streams`, `Formats`, `Drop`, `Config` | pure algorithms, each with the reference it is compared with | |
| `LyricsOnScreen`, `OpenFile`, `LineFiles` | `Lyrics` under `LyricsFetch`, `Formats` under `Player`, `Drop` and `Config` under `CommandLine`: the songs, files, names and settings are constants | the modules each joins |
| `IpcServerProofs`, `ApePipeProofs`, `PlayerProofs`, `PlaybackProofs`, `LyricsFetchProofs`, `KeyboardProofs`, `StartupProofs` | theorems about those modules for all constants | each on its module, `TLAPS` |
| `MC*` | the same for TLC; `MCLyricsFetch`, `MCPlayer` and `MCCommandLine` also have every small song, file and payload | |

The modules meet where the code does: `Startup` keeps of a load only whether it will report, which
is what `TrackLoad` shows; `Playback` takes adopted tracks as given; `TrackLoad` and `Playback`
see of the IPC server what `IpcServer` promises (one session at a time, its events in order);
`Player` is one of `PlayerLifetime`'s players, and `Streams` what its decoder does between two steps.

Definitions named for a mistake (each stands right before the definition it would replace, for
example `TakeAny` before `Take`) are not part of a specification: `PROJECT.json`'s mutants name
them, and each property is shown to fail when its one is put in.

### TrackLoad

One action per handler of the event loop; three actions (`StartTask`, `OpenDecoder`, `Deliver`) for
a load's goroutine, cut where it takes `audioLoad`'s mutex or reads its context. A load is its
generation number, as `startAudioLoad` is called once for each value of `loadGeneration`.

| TLA+ | Code |
|---|---|
| `task`, `canceled`, `owned` | where the goroutine is; `audioLoad.ctx`; `audioLoad.player != nil` |
| `player` | the `AudioPlayer` of the load: opening, ready, playing, paused, closed |
| `audioPlayer`, `isPlaying`, `accent` | `AudioState.Player`, `IsPlaying`; `Model.Accent` (the load it was computed for) |
| `pendingLoad`, `loading`, `pendingSeek` | the fields of `Model` |
| `inbox`, `running` | messages posted to the loop, in no order; `Program.Run` has not returned |
| `server`, `serving`, `incoming` | `Server.Session()`, acceptLoop is in `serve`, the `Incoming` queue |
| `ipcSession`, `ipcPendingOpen`, `answers` | the fields of `Model`; the results sent for each request |
| `openedAs`, `sought` | history only: the load a request started, the tracks `--seek` moved |

`UserOpen` stands for every way of opening a file that goes through `handleLoadTrack` without a
request: `:open`, a dropped or piped path, a file from the GUI's picker. Whether `Play` or the
resumption of the old track succeeds is a choice. The IPC server is reduced to what its users see;
`IpcServer` is the server itself. A result refused because the control queue is full ends the
session there, and is covered here by the action `Drop` coming first. `UserQuit` is `:q` and `:wq`; `:q!` ends
the loop without a cleanup and is `LoopEnds` (in `Startup`, `ForceQuit`). Volume requests are left out; ticks,
play, pause and seek are `Playback`'s.

### IpcServer

`acceptor`, `writer[s]` and `closer` say where acceptLoop, each session's writeLoop and Close are.
Steps under the server's mutex are one action; a select is a choice among the ready cases, and
writeLoop's nested select keeps its priority of control frames (`WriterTop` before `WriterIdle`).
`log` and `got` together are the channel `Incoming`: what was delivered and how much was received.
`wire[s]` is what the client could read, by kind of frame. Frames are numbered in the order `SendTo` was called.
Deadlines are choices: a client may be too slow for `Authenticate`, `Write` or `flush` at any time.

### ApePipe

A generation is a subprocess with its pipe and `readLoop`. Frames are numbered by their place in the
file, so "the right frame is heard" is a statement about numbers. `Serialised = TRUE` is the
program's use, through `Streamer` and its `opMu`; `FALSE` is the back end alone, whose interface
demands that Seek and Close may interrupt a blocked Read; the run takes `TRUE`. Time is not modelled: the read's timer is
the action `ReadTimeout`, possible whenever the read waits, and the wait for `readLoop` in `abort`
can end early.

### Player

The owner's call is the sequence `todo` of its steps, cut where it takes the speaker's lock; `pull`
holds the mixer's entries left in a callback, so that a callback runs as a whole against those
steps. `chain` is what `buildChain` makes, with what its resampler holds: nothing, samples read
since the last jump, or samples from before it. `synth`, `stream` and `snap` are the two critical
sections of a synthesiser's render; `remote` is the download with what has arrived. Samples are
counted; a volume is one of two levels.

### Playback

A message is one action and ends with `PushTo`, as every `Update` ends with `pushIPCState`. Time is
in positions: `Sound` moves the player by one, `StateTime` and `LyricTime` let the 250 ms and 33 ms of
the two throttles pass. The first track adopted may begin elsewhere (`--seek`). `gui`, `overlay` and `client` are what each listener was told last, against
which the properties compare the program. `bus` is `linuxController.conn` with its reconnector: up,
down, being dialled; `queue` the commands of D-Bus calls on their way to the loop. Tracks are
adopted by one action; how is `TrackLoad`'s.

### LyricsFetch

The update loop's actions are handlers; a fetch's goroutine takes one step per request and per
system call of `Save`. All saves of one signature use the same temporary name, so a writer is
followed by the file it has open (`fetch[f].file`) and not by its name: a rename takes a file with
its writer. `Load` is two steps (`LoadRecord`, `Discard`), for a record it finds expired is unlinked by its
name, whatever another save has put there meanwhile. A fetch that is over can be begun again under the same name. A signature stands for a
track with tags; tracks without are never fetched for. Whether
the provider cools down is one bit that survives a restart. The startup sweep of old records and
the cooldown's clock are left out.

### Startup and Wizard

`Startup` extends `Wizard`: the form's fields are the host's while `phase` is one of setup. `save` is
a set of numbered save commands, `results` the loads that will report, `asks` and `checks` the
wizard's commands on their way out and back. The form's library completes it by a message of its own
(`ending`, `CompleteForm`), before which it still takes keys; what it sends itself between two fields is one
step with the key. `Activate` puts the form away with all its state (`Discard`). `mc` follows the media
controller: held by the host, `used` by a player that is open, `dropped` with a player that another one
replaced, or `late` for a player that had cleaned up; only the first two are closed by anybody. `told` is the
phase the window was sent last, and in which session. `open` is history: the players made and not
closed. A terminal that does not answer the question for its font leaves a goroutine at the input
(`probe`), which takes the first key.

### Animation and Keyboard

`Keyboard` extends `Animation` by one variable, `ui`: mode, focus, the quit question. `anim` is
`anim.State`; `commands` are the loads whose result is under way, each with the generation and the
path it was started for; `clocks` the players whose ticks are scheduled. What a sidecar is (none, broken,
calm, flashing and saying so, flashing and not) is a constant of each track; a load keeps the size it was
asked for (`asked`), which an approval uses again. `chosen` is history.

### CommandLine

A text is a sequence over two characters, one of them a space; `round` is the completion under way
(candidates, the piece they replace, the index), `disk` the history's file. The commands that
`Enter` runs are in the modules of their components; here a line is taken, remembered and saved.

### Pure algorithms

Each is an operator on bounded data, next to a second definition of what it should compute:

| Module | Algorithms | Compared with |
|---|---|---|
| `Lyrics` | active lines, window of the panel, lines of the overlay | who sings at a time; one piece without holes |
| `Mp4` | box search, sample table, ALAC cookie | the layout of the file that was written |
| `Streams` | reading and seeking of MP2, Opus, ALAC | the samples of the file, in order |
| `Formats` | detection, registry, the tags at the end of an MP3 | what the file is |
| `Drop` | splitting and unescaping of a dropped payload | the names that were escaped |
| `Config` | Load, repair, Normalize, Save | the settings the user wrote |

They do not change with the state: TLC evaluates each once, in the run whose component uses it. Where a
theorem covers every input, the inputs are constants of the module that joins the algorithm to its component
(`LyricsOnScreen`, `OpenFile`, `LineFiles`), with an assumption that says what an input may be; TLC gets the small
ones. Those
that walk over a sequence do it by a recursive function, which the provers can reason about.

## Runs and what they show

Each takes from half a minute to three minutes of TLC. Deadlock checking is off where the system may
rightly stop: the program has ended, or a bound on loads, frames or generations is reached.
`LyricsFetch` and `CommandLine` never stop: a track can always be adopted and a key pressed.

| Run | Question | Properties |
|---|---|---|
| `track_deferred` | four loads racing, failing, given up: ownership, what is heard and shown, refinement of `PlayerLifetime`, the old track kept | `PlayerOwned`, `OneVoice`, `GenerationNamesTrack`, `LoadingIsNewest`, `SeekInitialOnly`, `DeferredKeepsTrack`, `LifetimeSafety` |
| `track_requests` | `track_switch_mode = immediate`, a request over two sessions: one verdict, about the right load; under fair goroutines nothing stays open and the verdict comes | `TypeOK`, `VerdictsHold`, `LoadsEnd` |
| `ipc` | two connections against Close: what the client can read, order of lifecycle events, no send on a closed channel, Close ends, news arrive | `WireTrue`, `EventOrder`, `NoSendAfterClose`, `CloseTerminates`, `NewsArrives` |
| `ape` | three frames through `Streamer`, with seeks, stalls and crashes: the position is true, no process is forgotten, every call returns | `SoundInPlace`, `NoOrphan`, `CallsReturn` |
| `player` | a track of each kind against the callback and the download; every small file | `DecoderOwned`, `SoundTrue`, `CallsReturn`; `EverySample`, `OpenedAsItIs` |
| `playback` | ticks, keys, requests and D-Bus calls against a bus and sessions that come and go | `ListenersTold`, `OverlayFollows`, `CatchUp` |
| `fetch_safety` | overlapping fetches for two tracks, across restarts: what is shown and marked, that the indicator stops; every small song in the order of its times | `ScreenOfCurrent`, `PendingIsReal`, `DamageTakesTwo`, `IndicatorStops`; `LyricsFollowSong` |
| `startup` | from launch to exit: the window knows the phase, questions can be answered, a controller that is held is closed, setup moves on | `WindowInStep`, `ControllerReleased`, `StartupMoves` |
| `keyboard` | keys, track changes, resizes and the battery against late animations | `SurfaceTrue`, `NothingFlashesUnasked`, `LoadingEnds` |
| `command_line` | typing, completing, pasting, history, restarts; every small payload and settings file | `LineTrue`; `DropArrives`, `ConfigKept` |
| `fetch_stuck`, `startup_twice` | violations, below | `PendingIsReal`; `PlayersReleased` |

**Bounds.** Four loads (`MaxGen = 3`) give one active, one pending, one given up with its message
under way, and one more; stale messages differ only by which of these they meet, and the proofs
remove the bound. Two sessions let a request outlive its session and meet the next.
The IPC queues have capacity 1 against 8 and 32, because full and not full are what the code tells
apart; two frames of each kind overflow both the control queue and the slot. In `ape` chunks straddle
reads, and three generations make two seeks, the second of which meets a first one that was read
from, stalled or failed. A player has two samples, so that there is a place before, at and after a
seek, and the mixer two entries: one that was cut and leaves at the next callback, and one in its
place; every kind and every method is in.
`playback` has two tracks of one title, which is what a change-driven listener could miss, one
session after none and none after it, and two inputs. `fetch_safety` has two
places for fetches, used over and over: an automatic one and a manual one overlap, for one track or
for two. `startup` has two sessions, so that an answer can meet the wrong one, two questions, two
requests of the window, one event waiting, one early track and one save at a time;
`startup_twice` has two saves and no window. `keyboard` has a track with a flashing animation and one
whose sidecar cannot be read, and five generations. `command_line` has lines of
up to four characters over a letter and a space, two commands of which one begins the other, and a history
of two. The algorithms take songs of up to three lines (four if they are held), files of up to three
frames or chunks, names of up to four characters, and configurations of up to two settings over one run or
of one over two.

**Fairness.** A goroutine that can run does (`WF`), as Go's scheduler preempts; the event loop
handles a message posted to it; the deferred `Close` in `root.go` runs once the loop ends. Nothing is
assumed of the GUI, the user, the provider beyond the request's timeout, or the decoder process,
except what a timer in the code replaces. `NewsArrives` alone assumes that the
program keeps receiving events, as `waitIPC` is armed again by each event. `ApePipe` asks strong fairness of
`BeginRead` and `Player` of the owner's call, for `sync.Mutex` hands over to a waiter that has
starved; the output keeps asking for samples, and a download that stalls ends by its client's timeout.
`Playback` asks that ticks, events, commands and the throttle's time go on, and nothing of the bus;
`Startup` that its timer, saves and loads end and that the loop takes events, questions and the quit message it
was sent; a load that reports to a player that has quit changes nothing, so that `StartupMoves` says "or the
program is over";
`Keyboard` that a result that has arrived is handled. `NewsArrives` holds because
control frames are finitely many in the model: writeLoop prefers them without limit.

### Where the code departs from what it says

* `fetch_stuck`: a provider that answers the search, too, with 404 leaves `CachePending` behind.
  `searchFallback` returns the error without `storeNegative` (`lyrics/fetch/fetch.go:65-68`), and
  `handleFetchLyricsResult` leaves the marker, because "negative results were already cached inside
  fetch.Lyrics". The track is not fetched for again until the program restarts or the user asks by
  hand. `fetch_safety` shows that without that answer no marker is left.
* `startup_twice`: "Close releases owned playback resources on every host exit path"
  (`ui/model.go:269`). While a failed save is being asked about, a message that is no key reaches the
  completed form and saves again (`startup/update.go:91-95`), and Enter saves too (`73-77`): two
  saves, and two players of which the host closes one (`41-47`). A controller the first one took stays
  open with it, which is why `ControllerReleased` speaks of the host and of open players only.

Two more depart from a document's words. They have no run of their own: the properties and theorems
beside them are stated for the rest, and do not cover them.

* **Lyrics out of order.** "A line whose display text is non-empty is reachable at its own Time" (contract C7,
  `lyrics/contract_test.go:192`), and "Time is non-negative and non-decreasing across Lines" (C8, `194`).
  `parseSYLT` keeps the order of the frame (`lyrics/embedded.go:180-217`), which a test pins
  (`contract_test.go:436-444`), and nothing sorts it later. `activeLimits` takes the times to rise: with times 2, 0
  and 1 the first line is limited by 1 and never sung; with 1000 ms and 2 ms both lines are sung for ever. The
  panel's search and the overlay rest on the order as well. A negative minute of an LRC file
  (`lrc.go:167`) and a negative start of a QRC or YRC line (`parser.go:294`) are kept, too, and give times
  before 0, though sorted. `LyricsFollowSong` and its theorems are about songs in the order of their times,
  none before 0.
* **A controller that comes late.** "Close releases owned playback resources on every host exit path"
  (`ui/model.go:269`). A player that has quit is cleaned up before the loop
  has read its `tea.Quit`; a controller that becomes ready in between is handed to it (`startup/update.go:61-65`),
  and it is stored whether or not it can still be closed (`ui/update_mediactl.go:12-16`): the `Close` at the end
  returns at once (`ui/model.go:272-275`). After its own `Close` the host does discard one (`update.go:24-28`).
  The state is `mc = "late"`; `ControllerReleased` is about controllers that the host or an open player holds.

Met while modelling, and not runs, since no document says otherwise or nothing concurrent is about
them:

* **Lyrics.** All saves of one signature share a temporary name (`cachefile.go`), so that two at a
  time can damage a record; one cannot (`DamageTakesTwo`). The pending marker is one per track: of two
  fetches the first to fail clears it for both. `maybeFetchLyrics` does nothing for a track
  whose lyrics the session cache holds, so lyrics found while another track was playing are not
  mounted when theirs comes back. With an agent filter the countdown is measured from a line the
  filter leaves out. `Load` removes a record it found expired by its name, which may be that of a newer one by
  then.

* **Synthesisers.** Stop rewinds the position that is reported and not the sequencer; a Seek after the song
  has drained from the mixer leaves IsPlaying true and nothing heard.
* **Decoders.** ALAC plays the frame of a seek from its start and decodes a short last frame again
  (`alacstream.go`). An Opus file shorter than its pre-skip gets
  the packets' length added to a negative one. Up to seven stray bytes at
  the end of an MP4 lose all boxes after them; `stco` of a second track is preferred to `co64` of the first;
  a cookie followed by a channel layout is read one word off; the brand `M4B` never matches
  (`format_alac.go:24`). An MP2 or APE file behind a tag of more than a kilobyte is taken for an
  MP3, and `Decode` does not fold the case of an extension. Where one would meet a property, the property says so.
* **Text.** A dropped name that ends in a quote loses it. A negative `command_history.max` slices
  past the start (`keyboard_command.go:102`); a `TickRate` of 0 divides by zero (`ui/model.go:228`,
  `update.go:113`) where `status.go` guards it. A settings file that was cut off counts as all
  defaults and the next save writes them.
* **Media control.** A controller that arrives after the loop has ended is closed by nobody; Close
  closes a channel on which a D-Bus call may be sending, and a reconnect that finishes after it keeps
  its connection (`controller_linux.go:140, 218`).

## Proofs

Eight modules hold theorems. Most are about the specification a module extends, for every value of its constants:
any number of loads, connections, sessions, fetches, frames or questions, queues and mixers of any size.
There the argument has the same form throughout: an invariant (`IInv`, `LineInv`), of which each conjunct says what the
place of one party implies about the state it shares with the others, holds at first and is kept by each action, and
the properties follow from it. None of the properties is inductive alone. TLC checked each invariant before it was
proved. The others are about the algorithms: that they compute what their references say for every input, and not
only for the small ones of the runs.

| Theorem | States | Assumes |
|---|---|---|
| `TrackLoadProofs`: `TypeCorrect`, `PlayersOwned`, `OneVoiceHeard`, `NamesRight`, `SeekOnce`, `LoadingHonest`, `AnswersTrue`, `DeferredKeeps` | the safety invariants and the action property of the runs | `ConstantsAssumption`: numbers are naturals, flags Boolean, `Nil` is no load and no request |
| `TrackLoadProofs`: `ImplementsLifetime` | `Spec => Lifetime!SafeSpec` | the same |
| `IpcServerProofs`: `EventsInOrder`, `WireIsTrue`, `ClosedIncomingIsSilent` | `EventOrder`, `WireTrue`, `NoSendAfterClose` | `CapacityAssumption`: capacities are positive, no display kind is called "control" |
| `ApePipeProofs`: `ProcessesReaped`, `HeardInPlace` | `NoOrphan`, `SoundInPlace` | `PipeAssumption`: sizes are positive; the second also `Serialised` |
| `PlayerProofs`: `DecoderIsOwned`, `SoundIsTrue` | `DecoderOwned`, `SoundTrue` | `PlayerAssumption`: the code's kinds and calls, a track of at least one sample, a mixer of at least one entry |
| `PlaybackProofs`: `ListenersAreTold`, `OverlayIsFresh` | `ListenersTold`, `OverlayFollows` | `PlaybackAssumption`: a track has at least two positions, the queue a place, each track a title |
| `LyricsFetchProofs`: `ScreenTrue`, `DamageNeedsTwo`, `PendingTrue` | `ScreenOfCurrent`, `DamageTakesTwo`, `PendingIsReal` | `FetchAssumption`: finitely many fetches; the third also that a search is not answered 404 |
| `KeyboardProofs`: `SurfaceIsTrue`, `NothingFlashes` | `SurfaceTrue`, `NothingFlashesUnasked` | each track has one sidecar, `None` is no track |
| `KeyboardProofs`: `LineIsTrue` | `LineTrue` | `LineAssumption`: a space can be typed, the limits are naturals, commands and pastes are texts |
| `StartupProofs`: `WindowStaysInStep`, `ControllerIsReleased` | `WindowInStep`, `ControllerReleased` | `StartupAssumption`, `MaxPickAssumption`: the bounds are naturals |

And about the algorithms, of which the runs check every small case:

| Theorem | States | Of every |
|---|---|---|
| `LyricsFetchProofs`: `LyricsFollowOrderedSong` | `LyricsFollowSong` | `ScreenAssumption`: any set of songs whose lines are in the order of their times, none before 0: contract C8, which `parseSYLT` does not keep, nor some odd LRC, QRC and YRC files; moments, filters, sizes and caps |
| `LyricsFetchProofs`: `OrderedSongSungRight`, `OrderedSongOnOverlay`, `OrderedSongInPanel` | its three parts for one song: `SungRight`, `OverlayRight`, `PanelRight` | song in that order; moment; agent filter; height of the box and cap on the context |
| `LyricsFetchProofs`: `PanelIsFilled` | what `PanelRight` rests on: where the lines of the moment stand in the box | box, group of lines that fits it, rows before and after, cap on them |
| `ApePipeProofs`: `EveryFrameIsHeard` | `ReadsOn`, the part of `EverySample` about MP2 and Opus | song of at least one frame, none of them empty; sequence of reads and seeks, without seeks if some packet does not decode; length of the next read |
| `ApePipeProofs`: `EveryALACFrameIsHeard` | `ReadsOnALAC`, the part about ALAC | song of full frames and a last that may be shorter, all of which decode; seek; sequence of reads after it |
| `PlayerProofs`: `FilesOpenAsTheyAre` | `OpenedAsItIs` | `FilesAssumption`: any sets of files and of MP3s of these kinds |
| `PlayerProofs`: `EveryFileOpensAsItIs` | its first part for one file, `OpensWhatItIs` | file of a known content or none, of any name; with a tag that leaves the content's first bytes in sight, and an MP3 with any |
| `PlayerProofs`: `EveryTailIsHidden` | the second, `SeesTheAudio` | MP3 with audio; sizes of its tags |
| `KeyboardProofs`: `DroppedFilesArrive` | `DropArrives` | `FilesAssumption` of `LineFiles`: any set of such lists |
| `KeyboardProofs`: `EveryNameArrives` | the same for one list, `ArrivesWhole` | list of names, none empty, over any characters |
| `KeyboardProofs`: `SettingsSurvive` | `ConfigKept` | the same assumption: any set of files, and of sequences of runs over them |
| `KeyboardProofs`: `EverySettingKept` | the same for one file, `SettingsKept` | file with any of the settings, usable or not, of which numbers are numbers; sequence of runs, whose repairs and saves go well, fail or are cut off |

Two theorems have a hypothesis of their own. `HeardInPlace` is about the program's use of the pipe,
through `Streamer` and its `opMu`; `NoOrphan` does not need it. `PendingTrue` needs
`"missing" \notin SearchAnswers`, and `fetch_stuck` shows what happens without.

**TrackLoad.** `Ownership` is six conjuncts that say
what each stage of a load implies about the rest of the state:

* `Fresh`: a load not started yet has neither a goroutine nor a cancelled context;
* `Stage`: where its goroutine is tells how far a load's player is;
* `Posted`: messages come from goroutines that are done, and one that carries a player still owns it
  unless its load was cancelled;
* `Waiting`: an owned player is ready, its load is not cancelled, and its message is under way;
* `Newest`: only the newest load is pending, and every other one that was started is cancelled;
* `Adopted`: the active player is of a load that is over and is named by `activeGeneration`; only it
  can be playing or paused; a ready one is owned or still in its goroutine's hands.

The argument for "one voice" shows why it takes them all: a message can be accepted only if its load
is the newest and not cancelled (`Take`); by `Posted` and `Waiting` its player is then owned and
ready, and by `Newest` it is the pending one; adopting it closes the old player, and by `Adopted` no
third one is heard. `Naming`, `Seeking` and `Progress` are three more invariants on top of
`Ownership`, for the generation, `--seek` and the loading flag; `Verdicts` is one more, for the
answers to requests: what was answered is true (`Told`), a request in the queue has no answer yet
(`Queued`), and the one that waits for a load is the one that load was started for (`Pending`).

**IpcServer.** `Lifecycle` is about acceptLoop and Close: where acceptLoop is tells which session is
published (`Publishing`) and which event came last (`Told`); a session is stopped before its end is
reported and before another is published (`Ending`); `Incoming` is closed after acceptLoop is over
(`Closing`). `Frames` is about one session: the control frames written, in hand and queued are, in
this order, the ones that were taken (`Ordered`, `Placed`); the marker of a flush lies behind the last of them
(`Flushing`); the display frame that waits is newer than the one in hand, and that one than all
that were written (`Fresh`).

**ApePipe.** `Life` says who may be running: only the current generation, and a Seek or Close keeps it
until it has stopped (`Owned`). `Sound` says where the frames are: the run of the file ahead of the
output is cut into buffer, accumulator, reader's rest, queue and chunk, each of which starts where the one
before it ends (`Unbroken`), and the decoder is where the last ends, unless the end was thrown away by an abort
(`Complete`). `Alone` is what `opMu` gives: while Stream runs, no Seek does.

**Player.** What is left of a call is one of a few scripts (`Script`), and the rest of the invariant is told by
it. One entry of the mixer at most can reach the decoder, the one the player has, and it has none where the
decoder is moved or closed (`Reach`). `isPlaying` says that there is an entry, but where the last step of a call
has yet to say so (`Flag`). The chain is at the volume that was set, holds samples from before a jump only until
it is rebuilt, and is paused as the flags say or as they will when the call is over (`Chain`). The entry of
a track that has not ended is live (`Heard`): a callback may drop it only at the end. What there is to clean up
follows from how far opening got (`Left`).

**Playback.** One conjunct per party. What `pushIPCState` remembers is what the session served was sent, but for
a position (`GuiSide`); a signature kept is that of the frame the overlay shows, and a frame of another track is
kept only while one of the two is none, so that the signatures differ (`OverlaySide`); what a client knows is
what the controller last published, and what it has not published yet is still ahead of its track counter
(`DesktopSide`). A session is served and taken up only by an event that begins it, which forgets all
three: the order of events needs no invariant of its own.

**LyricsFetch.** A fetch that saves knows what it learned (`Learned`). As long as one fetch at most was for a
track, the temporary file holds what that fetch wrote, and its record is whole (`Intact`). A marker has a fetch
that is going to remove it (`Owed`); this is inductive by itself but for the answer above.

**Keyboard.** The surface shows, holds or reads one thing, and of this track (`Coherent`); loads have
generations of their own, and the surface waits for the newest exactly as long as it is under way
(`Newest`); a player behind the gate has no clock, and leaves it by being chosen (`Gate`).

**CommandLine.** `RoundOfTyped` is what makes completion safe to repeat: the round under way is the one the line as
it was typed begins, and its end moves with the candidate that is in the line now, so that the next Tab replaces
the candidate and nothing else. With it goes that the line is what was typed with that candidate put in
(`CompletionTrue`, in `LineFits`). `HistoryFits` bounds the history, its file and the place in it; `NoLine` says
that normal mode keeps nothing of a line, so that no round outlives its line.

**The algorithms.** The library's induction theorems are out of the provers' reach, for they take an operator. Two
facts replace them: a set of naturals that holds 0 and every successor of its members holds all of them, for its
complement would have a least element (`NatSets`, from `WFMin`); and a function defined by recursion over
`0 .. n` exists, and obeys its equations (`Recursion`), so that the `CHOOSE` behind a recursive definition has what
it looks for. What is proved by them:

* *Lyrics.* Going back from the last line, the limit of a line is the start of the next that begins later
  (`SungRight`). The lines of the overlay are picked by rank, and a rank is the number of distinct times before a
  line: the times within two ranks of the moment's are its neighbours (`OverlayRight`). The anchor is a third of
  the box, raised for what is missing below and lowered for what is missing above, and stays in it
  (`PanelIsFilled`). The rows of a song can be split behind any line (`GroupSplit`), so that what is collected above
  and below the lines of the moment is the rest of the song or fills the box (`CollectAbove`, `CollectBelow`); an end
  of the one, the moment's rows and a beginning of the other are a piece without a hole (`PieceOf`).
* *Streams.* The position of a stream and what is left of the frame in hand are the samples from the position on
  up to a boundary of frames (`Placed`); each turn of the loop gives a sample or takes a frame, so that the loop
  ends with all there is or all that was asked. Of ALAC, whose seek goes back to the start of a frame, the samples
  heard so far are whole frames but for what is in hand (`HeardSoFar`).
* *Formats.* A content is detected alike under every name (`Detection`), which is why what is piped can be opened
  as a file named after what was detected; of a module the two engines refuse only what the built-in one does not
  know (`Engines`), and the end of the audio is where the first tag begins.
* *Drop.* After an escaped name the reader is outside quotes, with the escaped name as its field; the space behind
  it closes the field (`ReadsEscaped`, `ReadsEveryName`). Such a field neither begins nor ends with a quote
  (`EscapedEnds`), and dropping the backslashes gives the name back (`EscapedBack`).
* *Config.* What the disk holds, torn or not, always stands for settings that `Load` leaves as they are (`Means`,
  `Steady`): what `Save` writes reads back (`SavedReadsBack`), a repair needs no second one (`UsedSteady`), and the
  volume can move alone (`VolumeAlone`). So a run changes them only by the way its save ends (`RunAsMeant`).

**Startup.** Form, phase and player agree (`InStep`); a form that waits for its window is untouched
(`Awaiting`), and nothing is saved before a form is complete (`Unsaved`); what was told is what was published
last (`Told`); a controller is held by the host before there is a player, then by the player that is open, until
another takes its place, and a closed host has neither (`Held`).
 `PhaseTold` fails unless the host cannot hear of a session before the end of the last: so
`Ordered` follows the queue of events, in which the end of the host's session comes before any other
begins, and `Typed` bounds the loads by the requests that have left it. A
question is pending only while the host has a window with a chooser (`Chooser`).

**Checked only by TLC.** Liveness everywhere, as fairness and `ENABLED` are out of the prover's reach:
`LoadsEnd`, `CloseTerminates`, `NewsArrives`, both `CallsReturn`, `IndicatorStops`, `StartupMoves`,
`LoadingEnds`, `CatchUp`. Of the algorithms, on bounded inputs: the tables of an MP4
(in `EverySample`). No recursive operator is used in a module with proofs.

## Plan

In the order in which they would add most:

1. That `Player` implements one player of `PlayerLifetime`, as `TrackLoad` does for all of them, and a
   proof of it.
2. The startup sweep of lyric records, and time: TTLs and the cooldown's deadline across a restart.
3. `MediaCtl`: Close of the controller against calls and the reconnector.
4. The GUI's client side, composed with `IpcServer`.
5. `Playback` over an abstract channel that `IpcServer` is shown to implement.
6. Proofs about the tables of an MP4.

## Not modelled, and why

Decoding of a frame to samples, resampling, synthesis, colour extraction and rendering are
computations whose correctness is numeric or visual. Parsers of lyric and tag files are sequential
functions of text, better served by tests; of the configuration file only what `Load` and `Normalize`
decide is modelled, not TOML. Views and styles are functions of the model. The Objective-C and
Windows glue of media control passes calls on. The state machine of the GUI (Rust) is seen through the
protocol only. Build scripts and vendored dependencies are not part of the running program.
