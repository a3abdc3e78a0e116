---------------------------- MODULE PlayerProofs ----------------------------
(***************************************************************************)
(* Theorems about Player, for tracks of any kind and length, any calls, a  *)
(* mixer of any size, and a speaker of the track's rate or of another; and *)
(* about Formats, for every file.                                          *)
(***************************************************************************)
EXTENDS OpenFile, FiniteSetTheorems, SequenceTheorems, TLAPS

-----------------------------------------------------------------------------
(* The inductive invariant. *)

\* What may be left of a call: of opening, of Close and of failing to open, of the others.
Opening == {<<"open">>, <<"detach", "decode">>, <<"decode">>}
Closing == {<<"discard", "detach", "release">>, <<"detach", "release">>, <<"release">>}
Starting ==
  {<<"synthplay", "detach", "attach", "playing">>, <<"unpause", "detach", "attach", "playing">>,
   <<"detach", "attach", "playing">>, <<"attach", "playing">>, <<"playing">>}
Setting == {<<"synthpause">>, <<"pause">>, <<"unpause", "resumed">>, <<"resumed">>, <<"volume">>, <<"synthseek">>}
Stopping == {<<"detach", "synthstop">>, <<"synthstop">>, <<"detach", "stopped">>, <<"stopped">>}
Seeking == {<<"detach", "seek">>, <<"seek">>, <<"rebuild", "detach", "attach", "sought">>, <<"rebuild", "sought">>}
Resuming == {<<"detach", "attach", "sought">>, <<"attach", "sought">>, <<"sought">>}
Restoring == {<<"detach", "attach", "seekfailed">>, <<"attach", "seekfailed">>, <<"seekfailed">>}
Script ==
  /\ opened = "no" => todo \in Opening
  /\ opened = "yes" =>
       todo \in {<<>>} \cup (Closing \ {<<"discard", "detach", "release">>})
                  \cup Starting \cup Setting \cup Stopping \cup Seeking \cup Resuming \cup Restoring
  /\ opened = "failed" => todo \in {<<>>} \cup Closing
  /\ opened = "closed" => todo = <<>>
  /\ Now("discard") => kind = "remote"
  /\ Now("synthpause") => IsSynth

\* One entry of the mixer can reach the decoder, the one the player has; it has none where
\* the decoder is moved or closed.
Reach ==
  /\ live \subseteq {output}
  /\ opened # "yes" => output = None
  /\ Now("attach") \/ Now("seek") \/ Now("rebuild") \/ Now("release") => output = None

\* IsPlaying says that there is an entry, but where the last step of a call has yet to say so.
Unsaid == Now("playing") \/ Now("sought") \/ Now("seekfailed")
Flag ==
  /\ isPlaying => output # None
  /\ output # None => isPlaying \/ Unsaid
  /\ Now("playing") \/ Now("seekfailed") => output # None
  /\ Now("sought") => (output # None <=> arg.wasAttached)
  /\ todo \in Resuming \ {<<"sought">>} => arg.wasAttached
  /\ todo = <<"rebuild", "detach", "attach", "sought">> => arg.wasAttached
  /\ todo = <<"rebuild", "sought">> => ~arg.wasAttached
  /\ Now("synthstop") \/ Now("stopped") => output = None

\* The chain an entry reads is paused as the flags say, or as they will when the call is over.
Follows == chain.paused = isPaused
Chain ==
  /\ chain.level = volume
  /\ chain.holds = "stale" => Now("rebuild")
  /\ ~IsSynth =>
       /\ todo \in Starting /\ ~Now("unpause") => ~chain.paused
       /\ Now("resumed") => ~chain.paused
       /\ todo \in Resuming => chain.paused = ~arg.wasPlaying
       /\ todo \in Restoring => Follows
       /\ todo \in {<<"detach", "seek">>, <<"seek">>} /\ arg.wasAttached => Follows
       /\ output # None /\ todo \notin Starting \cup Resuming /\ ~Now("resumed") => Follows

\* The entry of a track that has not ended is still live.
Heard ==
  /\ remote.done => remote.task = "ended"
  /\ ~IsSynth /\ output # None /\ ~AtEnd => output \in live

\* What is there to be cleaned up, by how far opening got.
Left ==
  /\ kind # "remote" => remote.task = "none"
  /\ opened \in {"no", "failed"} => ~streamer
  /\ opened = "yes" /\ kind = "remote" => streamer
  /\ Now("open") => ~temp /\ remote.task = "none"
  /\ opened = "failed" /\ kind = "remote" /\ ~Now("discard") =>
       ~temp /\ (remote.task = "none" \/ remote.cancelled)
  /\ NothingLeft

IInv == TypeOK /\ Script /\ Reach /\ Flag /\ Chain /\ Heard /\ Left

-----------------------------------------------------------------------------
(* What is left of a call. *)

LEMMA Tails ==
  /\ Tail(<<"open">>) = <<>> /\ Tail(<<"decode">>) = <<>> /\ Tail(<<"release">>) = <<>>
  /\ Tail(<<"playing">>) = <<>> /\ Tail(<<"sought">>) = <<>> /\ Tail(<<"seekfailed">>) = <<>>
  /\ Tail(<<"seek">>) = <<>> /\ Tail(<<"synthseek">>) = <<>> /\ Tail(<<"volume">>) = <<>>
  /\ Tail(<<"synthpause">>) = <<>> /\ Tail(<<"pause">>) = <<>> /\ Tail(<<"resumed">>) = <<>>
  /\ Tail(<<"synthstop">>) = <<>> /\ Tail(<<"stopped">>) = <<>>
  /\ Tail(<<"detach", "decode">>) = <<"decode">> /\ Tail(<<"detach", "release">>) = <<"release">>
  /\ Tail(<<"discard", "detach", "release">>) = <<"detach", "release">>
  /\ Tail(<<"synthplay", "detach", "attach", "playing">>) = <<"detach", "attach", "playing">>
  /\ Tail(<<"unpause", "detach", "attach", "playing">>) = <<"detach", "attach", "playing">>
  /\ Tail(<<"detach", "attach", "playing">>) = <<"attach", "playing">>
  /\ Tail(<<"attach", "playing">>) = <<"playing">>
  /\ Tail(<<"unpause", "resumed">>) = <<"resumed">>
  /\ Tail(<<"detach", "synthstop">>) = <<"synthstop">> /\ Tail(<<"detach", "stopped">>) = <<"stopped">>
  /\ Tail(<<"detach", "seek">>) = <<"seek">>
  /\ Tail(<<"rebuild", "detach", "attach", "sought">>) = <<"detach", "attach", "sought">>
  /\ Tail(<<"rebuild", "sought">>) = <<"sought">>
  /\ Tail(<<"detach", "attach", "sought">>) = <<"attach", "sought">>
  /\ Tail(<<"attach", "sought">>) = <<"sought">>
  /\ Tail(<<"detach", "attach", "seekfailed">>) = <<"attach", "seekfailed">>
  /\ Tail(<<"attach", "seekfailed">>) = <<"seekfailed">>
OBVIOUS

\* Where each step stands: what is left of the call, and whether the player is open.
LEMMA Stations ==
  ASSUME opened \in {"no", "yes", "failed", "closed"}, Script
  PROVE  /\ Now("open") => opened = "no" /\ todo = <<"open">>
         /\ Now("decode") => opened = "no" /\ todo = <<"decode">>
         /\ Now("discard") => opened = "failed" /\ todo = <<"discard", "detach", "release">>
         /\ Now("release") => opened \in {"yes", "failed"} /\ todo = <<"release">>
         /\ Now("attach") => /\ opened = "yes"
                            /\ todo \in {<<"attach", "playing">>, <<"attach", "sought">>, <<"attach", "seekfailed">>}
         /\ Now("unpause") => /\ opened = "yes"
                             /\ todo \in {<<"unpause", "resumed">>, <<"unpause", "detach", "attach", "playing">>}
         /\ Now("synthplay") => opened = "yes" /\ todo = <<"synthplay", "detach", "attach", "playing">>
         /\ Now("rebuild") => /\ opened = "yes"
                             /\ todo \in {<<"rebuild", "sought">>, <<"rebuild", "detach", "attach", "sought">>}
         /\ Now("playing") => opened = "yes" /\ todo = <<"playing">>
         /\ Now("resumed") => opened = "yes" /\ todo = <<"resumed">>
         /\ Now("stopped") => opened = "yes" /\ todo = <<"stopped">>
         /\ Now("synthstop") => opened = "yes" /\ todo = <<"synthstop">>
         /\ Now("synthpause") => opened = "yes" /\ todo = <<"synthpause">>
         /\ Now("pause") => opened = "yes" /\ todo = <<"pause">>
         /\ Now("volume") => opened = "yes" /\ todo = <<"volume">>
         /\ Now("synthseek") => opened = "yes" /\ todo = <<"synthseek">>
         /\ Now("seek") => opened = "yes" /\ todo = <<"seek">>
         /\ Now("sought") => opened = "yes" /\ todo = <<"sought">>
         /\ Now("seekfailed") => opened = "yes" /\ todo = <<"seekfailed">>
<1> USE DEF Opening, Closing, Starting, Setting, Stopping, Seeking, Resuming, Restoring, Now, Script
<1>1. Now("open") => opened = "no" /\ todo = <<"open">>
  OBVIOUS
<1>2. Now("decode") => opened = "no" /\ todo = <<"decode">>
  OBVIOUS
<1>3. Now("discard") => opened = "failed" /\ todo = <<"discard", "detach", "release">>
  OBVIOUS
<1>4. Now("release") => opened \in {"yes", "failed"} /\ todo = <<"release">>
  OBVIOUS
<1>5. Now("attach") =>
        opened = "yes" /\ todo \in {<<"attach", "playing">>, <<"attach", "sought">>, <<"attach", "seekfailed">>}
  OBVIOUS
<1>6. Now("unpause") =>
        opened = "yes" /\ todo \in {<<"unpause", "resumed">>, <<"unpause", "detach", "attach", "playing">>}
  OBVIOUS
<1>7. Now("synthplay") => opened = "yes" /\ todo = <<"synthplay", "detach", "attach", "playing">>
  OBVIOUS
<1>8. Now("rebuild") =>
        opened = "yes" /\ todo \in {<<"rebuild", "sought">>, <<"rebuild", "detach", "attach", "sought">>}
  OBVIOUS
<1>9. Now("playing") => opened = "yes" /\ todo = <<"playing">>
  OBVIOUS
<1>10. Now("resumed") => opened = "yes" /\ todo = <<"resumed">>
  OBVIOUS
<1>11. Now("stopped") => opened = "yes" /\ todo = <<"stopped">>
  OBVIOUS
<1>12. Now("synthstop") => opened = "yes" /\ todo = <<"synthstop">>
  OBVIOUS
<1>13. Now("synthpause") => opened = "yes" /\ todo = <<"synthpause">>
  OBVIOUS
<1>14. Now("pause") => opened = "yes" /\ todo = <<"pause">>
  OBVIOUS
<1>15. Now("volume") => opened = "yes" /\ todo = <<"volume">>
  OBVIOUS
<1>16. Now("synthseek") => opened = "yes" /\ todo = <<"synthseek">>
  OBVIOUS
<1>17. Now("seek") => opened = "yes" /\ todo = <<"seek">>
  OBVIOUS
<1>18. Now("sought") => opened = "yes" /\ todo = <<"sought">>
  OBVIOUS
<1>19. Now("seekfailed") => opened = "yes" /\ todo = <<"seekfailed">>
  OBVIOUS
<1> QED BY <1>1, <1>2, <1>3, <1>4, <1>5, <1>6, <1>7, <1>8, <1>9, <1>10, <1>11, <1>12, <1>13, <1>14,
   <1>15, <1>16, <1>17, <1>18, <1>19

LEMMA AtDetach ==
  ASSUME opened \in {"no", "yes", "failed", "closed"}, Script, Now("detach")
  PROVE  \/ opened = "no" /\ todo = <<"detach", "decode">>
         \/ opened \in {"yes", "failed"} /\ todo = <<"detach", "release">>
         \/ /\ opened = "yes"
            /\ todo \in {<<"detach", "attach", "playing">>, <<"detach", "attach", "sought">>,
                         <<"detach", "attach", "seekfailed">>, <<"detach", "seek">>,
                         <<"detach", "synthstop">>, <<"detach", "stopped">>}
BY DEF Opening, Closing, Starting, Setting, Stopping, Seeking, Resuming, Restoring, Now, Script

\* Only steps are left to be done.
LEMMA TodoType == opened \in {"no", "yes", "failed", "closed"} /\ Script => todo \in Seq(Steps)
<1>1. Opening \subseteq Seq(Steps)
  <2>1. /\ <<"open">> \in Seq(Steps) /\ <<"detach", "decode">> \in Seq(Steps)
        /\ <<"decode">> \in Seq(Steps)
    BY DEF Steps
  <2> QED BY <2>1 DEF Opening
<1>2. Closing \subseteq Seq(Steps)
  <2>1. /\ <<"discard", "detach", "release">> \in Seq(Steps) /\ <<"detach", "release">> \in Seq(Steps)
        /\ <<"release">> \in Seq(Steps)
    BY DEF Steps
  <2> QED BY <2>1 DEF Closing
<1>3. Starting \subseteq Seq(Steps)
  <2>1. /\ <<"synthplay", "detach", "attach", "playing">> \in Seq(Steps) /\ <<"unpause", "detach", "attach", "playing">> \in Seq(Steps)
        /\ <<"detach", "attach", "playing">> \in Seq(Steps) /\ <<"attach", "playing">> \in Seq(Steps)
        /\ <<"playing">> \in Seq(Steps)
    BY DEF Steps
  <2> QED BY <2>1 DEF Starting
<1>4. Setting \subseteq Seq(Steps)
  <2>1. /\ <<"synthpause">> \in Seq(Steps) /\ <<"pause">> \in Seq(Steps)
        /\ <<"unpause", "resumed">> \in Seq(Steps) /\ <<"resumed">> \in Seq(Steps)
        /\ <<"volume">> \in Seq(Steps) /\ <<"synthseek">> \in Seq(Steps)
    BY DEF Steps
  <2> QED BY <2>1 DEF Setting
<1>5. Stopping \subseteq Seq(Steps)
  <2>1. /\ <<"detach", "synthstop">> \in Seq(Steps) /\ <<"synthstop">> \in Seq(Steps)
        /\ <<"detach", "stopped">> \in Seq(Steps) /\ <<"stopped">> \in Seq(Steps)
    BY DEF Steps
  <2> QED BY <2>1 DEF Stopping
<1>6. Seeking \subseteq Seq(Steps)
  <2>1. /\ <<"detach", "seek">> \in Seq(Steps) /\ <<"seek">> \in Seq(Steps)
        /\ <<"rebuild", "detach", "attach", "sought">> \in Seq(Steps) /\ <<"rebuild", "sought">> \in Seq(Steps)
    BY DEF Steps
  <2> QED BY <2>1 DEF Seeking
<1>7. Resuming \subseteq Seq(Steps)
  <2>1. /\ <<"detach", "attach", "sought">> \in Seq(Steps) /\ <<"attach", "sought">> \in Seq(Steps)
        /\ <<"sought">> \in Seq(Steps)
    BY DEF Steps
  <2> QED BY <2>1 DEF Resuming
<1>8. Restoring \subseteq Seq(Steps)
  <2>1. /\ <<"detach", "attach", "seekfailed">> \in Seq(Steps) /\ <<"attach", "seekfailed">> \in Seq(Steps)
        /\ <<"seekfailed">> \in Seq(Steps)
    BY DEF Steps
  <2> QED BY <2>1 DEF Restoring
<1>9. <<>> \in Seq(Steps)
  OBVIOUS
<1> QED BY <1>1, <1>2, <1>3, <1>4, <1>5, <1>6, <1>7, <1>8, <1>9 DEF Script

\* What every step keeps, besides the types.
Kept == Script /\ Reach /\ Flag /\ Chain /\ Heard /\ Left

-----------------------------------------------------------------------------
(* The owner begins a call: nothing but what is left of it changes. *)

LEMMA OwnerStep == IInv /\ Owner => Kept'
<1> SUFFICES ASSUME IInv, Owner PROVE Kept'
  OBVIOUS
<1>1. /\ opened = "yes" /\ todo = <<>>
      /\ UNCHANGED <<kind, opened, isPlaying, isPaused, volume, streamer, pos, chain, output, mixer, live,
                     pull, synth, stream, snap, place, remote, temp>>
  BY DEF Owner, Play, Pause, Resume, Stop, Toggle, SetVolume, Seek, Close, Call, Idle,
         playerVars, decoderVars, outputVars, synthVars
<1>2. \/ todo' \in {<<"detach", "release">>, <<"volume">>, <<"synthseek">>, <<"pause">>}
      \/ todo' \in {<<"detach", "synthstop">>, <<"detach", "stopped">>, <<"unpause", "resumed">>}
      \/ todo' = <<"unpause", "detach", "attach", "playing">>
      \/ todo' \in {<<"synthplay", "detach", "attach", "playing">>, <<"synthpause">>} /\ IsSynth
      \/ todo' = <<"detach", "seek">> /\ arg'.wasAttached = (output # None)
  BY DEF Owner, Play, Pause, Resume, Stop, Toggle, SetVolume, Seek, Close, Call, PlaySteps,
     PauseSteps, CloseSteps
<1>3. Script'
  BY <1>1, <1>2 DEF Script, IsSynth, Now, Opening, Closing, Starting, Setting, Stopping, Seeking,
     Resuming, Restoring
<1>4. Reach'
  BY <1>1, <1>2 DEF IInv, TypeOK, Reach, Now
<1>5. Flag'
  BY <1>1, <1>2 DEF IInv, TypeOK, Flag, Unsaid, Now, Resuming
<1>6. Chain'
  BY <1>1, <1>2 DEF IInv, TypeOK, Chain, Follows, Flag, Unsaid, IsSynth, Now, Starting, Resuming,
     Restoring
<1>7. Heard'
  BY <1>1, <1>2 DEF IInv, Heard, AtEnd, IsSynth
<1>8. Left'
  BY <1>1, <1>2 DEF IInv, Left, NothingLeft, Now
<1> QED BY <1>3, <1>4, <1>5, <1>6, <1>7, <1>8 DEF Kept

-----------------------------------------------------------------------------
(* Opening, and giving up. *)

LEMMA OpenFileStep == IInv /\ OpenFile => Kept'
<1> SUFFICES ASSUME IInv, OpenFile PROVE Kept'
  OBVIOUS
<1> USE DEF OpenFile, Fail, Then, CloseSteps, Source,
            callVars, playerVars, decoderVars, outputVars, synthVars
<1>1. opened = "no" /\ todo = <<"open">> /\ todo' \in {<<"detach", "release">>, <<"detach", "decode">>}
  <2>1. opened = "no" /\ todo = <<"open">> /\ Tail(todo) = <<>>
    BY Stations, Tails DEF IInv, TypeOK
  <2>2. /\ <<"detach", "release">> \o <<>> = <<"detach", "release">>
        /\ <<"detach", "decode">> \o <<>> = <<"detach", "decode">>
    OBVIOUS
  <2> QED BY <2>1, <2>2
<1>2. Script'
  BY <1>1 DEF Script, IsSynth, Now, Opening, Closing, Starting, Setting, Stopping, Seeking, Resuming,
     Restoring
<1>3. Reach'
  BY <1>1 DEF IInv, TypeOK, Reach, Flag, Unsaid, Now
<1>4. Flag'
  BY <1>1 DEF IInv, TypeOK, Reach, Flag, Unsaid, Now, Resuming
<1>5. Chain'
  BY <1>1 DEF IInv, TypeOK, Reach, Flag, Unsaid, Chain, Follows, IsSynth, Now, Starting, Resuming,
     Restoring
<1>6. Heard'
  BY <1>1 DEF IInv, TypeOK, Reach, Flag, Unsaid, Heard, AtEnd, IsSynth, Now
<1>7. Left'
  BY <1>1 DEF IInv, TypeOK, Left, NothingLeft, Now
<1> QED BY <1>2, <1>3, <1>4, <1>5, <1>6, <1>7 DEF Kept

LEMMA OpenReaderStep == IInv /\ OpenReader => Kept'
<1> SUFFICES ASSUME IInv, OpenReader PROVE Kept'
  OBVIOUS
<1> USE DEF OpenReader, Fail, Then, CloseSteps, Source,
            callVars, playerVars, decoderVars, outputVars, synthVars
<1>1. opened = "no" /\ todo = <<"open">> /\ todo' \in {<<"detach", "release">>, <<"detach", "decode">>}
  <2>1. opened = "no" /\ todo = <<"open">> /\ Tail(todo) = <<>>
    BY Stations, Tails DEF IInv, TypeOK
  <2>2. /\ <<"detach", "release">> \o <<>> = <<"detach", "release">>
        /\ <<"detach", "decode">> \o <<>> = <<"detach", "decode">>
    OBVIOUS
  <2> QED BY <2>1, <2>2
<1>2. Script'
  BY <1>1 DEF Script, IsSynth, Now, Opening, Closing, Starting, Setting, Stopping, Seeking, Resuming,
     Restoring
<1>3. Reach'
  BY <1>1 DEF IInv, TypeOK, Reach, Flag, Unsaid, Now
<1>4. Flag'
  BY <1>1 DEF IInv, TypeOK, Reach, Flag, Unsaid, Now, Resuming
<1>5. Chain'
  BY <1>1 DEF IInv, TypeOK, Reach, Flag, Unsaid, Chain, Follows, IsSynth, Now, Starting, Resuming,
     Restoring
<1>6. Heard'
  BY <1>1 DEF IInv, TypeOK, Reach, Flag, Unsaid, Heard, AtEnd, IsSynth, Now
<1>7. Left'
  BY <1>1 DEF IInv, TypeOK, Left, NothingLeft, Now, IsSynth, Synthetic
<1> QED BY <1>2, <1>3, <1>4, <1>5, <1>6, <1>7 DEF Kept

LEMMA OpenURLStep == IInv /\ OpenURL => Kept'
<1> SUFFICES ASSUME IInv, OpenURL PROVE Kept'
  OBVIOUS
<1> USE DEF OpenURL, Fail, Then, CloseSteps, Source,
            callVars, playerVars, decoderVars, outputVars, synthVars
<1>1. opened = "no" /\ todo = <<"open">> /\ todo' \in {<<"detach", "release">>, <<"detach", "decode">>}
  <2>1. opened = "no" /\ todo = <<"open">> /\ Tail(todo) = <<>>
    BY Stations, Tails DEF IInv, TypeOK
  <2>2. /\ <<"detach", "release">> \o <<>> = <<"detach", "release">>
        /\ <<"detach", "decode">> \o <<>> = <<"detach", "decode">>
    OBVIOUS
  <2> QED BY <2>1, <2>2
<1>2. Script'
  BY <1>1 DEF Script, IsSynth, Now, Opening, Closing, Starting, Setting, Stopping, Seeking, Resuming,
     Restoring
<1>3. Reach'
  BY <1>1 DEF IInv, TypeOK, Reach, Flag, Unsaid, Now
<1>4. Flag'
  BY <1>1 DEF IInv, TypeOK, Reach, Flag, Unsaid, Now, Resuming
<1>5. Chain'
  BY <1>1 DEF IInv, TypeOK, Reach, Flag, Unsaid, Chain, Follows, IsSynth, Now, Starting, Resuming,
     Restoring
<1>6. Heard'
  BY <1>1 DEF IInv, Left, TypeOK, Reach, Flag, Unsaid, Heard, AtEnd, IsSynth, Now
<1>7. Left'
  BY <1>1 DEF IInv, TypeOK, Left, NothingLeft, Now
<1> QED BY <1>2, <1>3, <1>4, <1>5, <1>6, <1>7 DEF Kept

LEMMA RefuseStep == IInv /\ Refuse => Kept'
<1> SUFFICES ASSUME IInv, Refuse PROVE Kept'
  OBVIOUS
<1> USE DEF Refuse, Then, CloseSteps, callVars, playerVars, decoderVars, outputVars, synthVars
<1>1. /\ opened = "no" /\ todo = <<"decode">> /\ opened' = "failed"
      /\ \/ todo' = <<"discard", "detach", "release">> /\ kind = "remote"
         \/ todo' = <<"detach", "release">> /\ kind # "remote"
  <2>1. opened = "no" /\ todo = <<"decode">> /\ Tail(todo) = <<>>
    BY Stations, Tails DEF IInv, TypeOK
  <2>2. /\ <<"discard", "detach", "release">> \o <<>> = <<"discard", "detach", "release">>
        /\ <<"detach", "release">> \o <<>> = <<"detach", "release">>
    OBVIOUS
  <2> QED BY <2>1, <2>2
<1>2. Script'
  BY <1>1 DEF Script, IsSynth, Now, Opening, Closing, Starting, Setting, Stopping, Seeking, Resuming,
     Restoring
<1>3. Reach'
  BY <1>1 DEF IInv, TypeOK, Reach, Flag, Unsaid, Now
<1>4. Flag'
  BY <1>1 DEF IInv, TypeOK, Reach, Flag, Unsaid, Now, Resuming
<1>5. Chain'
  BY <1>1 DEF IInv, TypeOK, Reach, Flag, Unsaid, Chain, Follows, IsSynth, Now, Starting, Resuming,
     Restoring
<1>6. Heard'
  BY <1>1 DEF IInv, TypeOK, Reach, Flag, Unsaid, Heard, AtEnd, IsSynth, Now
<1>7. Left'
  BY <1>1 DEF IInv, TypeOK, Left, NothingLeft, Now
<1> QED BY <1>2, <1>3, <1>4, <1>5, <1>6, <1>7 DEF Kept

LEMMA DiscardStep == IInv /\ Discard => Kept'
<1> SUFFICES ASSUME IInv, Discard PROVE Kept'
  OBVIOUS
<1> USE DEF Discard, Done, callVars, playerVars, decoderVars, outputVars, synthVars
<1>1. /\ opened = "failed" /\ todo = <<"discard", "detach", "release">>
      /\ todo' = <<"detach", "release">> /\ opened' = "failed"
  BY Stations, AtDetach, Tails DEF IInv, TypeOK
<1>2. Script'
  BY <1>1 DEF Script, IsSynth, Now, Opening, Closing, Starting, Setting, Stopping, Seeking, Resuming,
     Restoring
<1>3. Reach'
  BY <1>1 DEF IInv, TypeOK, Reach, Flag, Unsaid, Now
<1>4. Flag'
  BY <1>1 DEF IInv, TypeOK, Reach, Flag, Unsaid, Now, Resuming
<1>5. Chain'
  BY <1>1 DEF IInv, TypeOK, Reach, Flag, Unsaid, Chain, Follows, IsSynth, Now, Starting, Resuming,
     Restoring
<1>6. Heard'
  BY <1>1 DEF IInv, TypeOK, Reach, Flag, Unsaid, Heard, AtEnd, IsSynth, Now
<1>7. Left'
  BY <1>1 DEF IInv, TypeOK, Left, NothingLeft, Now
<1> QED BY <1>2, <1>3, <1>4, <1>5, <1>6, <1>7 DEF Kept

\* A track that has been opened, by whichever of its decoders.
LEMMA OpenedStep ==
  IInv /\ (SetupStreamer \/ OpenMIDISynth \/ OpenOpenmpt \/ OpenTrackerSynth) => Kept'
<1> SUFFICES ASSUME IInv, SetupStreamer \/ OpenMIDISynth \/ OpenOpenmpt \/ OpenTrackerSynth PROVE Kept'
  OBVIOUS
<1>1. opened = "no" /\ todo = <<"decode">> /\ todo' = <<>> /\ opened' = "yes"
  BY Stations, Tails DEF IInv, TypeOK, SetupStreamer, OpenMIDISynth, OpenOpenmpt, OpenTrackerSynth,
     Opened, Done
<1>2. /\ isPlaying' = FALSE /\ UNCHANGED <<kind, arg, volume, pos, output, mixer, live, remote, temp>>
      /\ IsSynth => UNCHANGED <<streamer, chain>>
      /\ ~IsSynth => streamer' = TRUE /\ chain' = NewChain(TRUE, volume)
  BY DEF SetupStreamer, OpenMIDISynth, OpenOpenmpt, OpenTrackerSynth, Opened, outputVars, IsSynth,
     Synthetic
<1>3. chain'.level = volume' /\ chain'.holds # "stale"
  BY <1>1, <1>2 DEF NewChain, IInv, Chain, Now
<1>4. Script'
  BY <1>1, <1>2, <1>3 DEF Script, IsSynth, Now, Opening, Closing, Starting, Setting, Stopping,
     Seeking, Resuming, Restoring
<1>5. Reach'
  BY <1>1, <1>2, <1>3 DEF IInv, Reach, Now
<1>6. Flag'
  BY <1>1, <1>2, <1>3 DEF IInv, Reach, Flag, Unsaid, Now, Resuming
<1>7. Chain'
  BY <1>1, <1>2, <1>3 DEF IInv, Reach, Chain, Follows, IsSynth, Now, Starting, Resuming, Restoring
<1>8. Heard'
  BY <1>1, <1>2, <1>3 DEF IInv, Reach, Heard, AtEnd, IsSynth
<1>9. Left'
  BY <1>1, <1>2, <1>3 DEF IInv, Left, NothingLeft, Now, IsSynth, Synthetic
<1> QED BY <1>4, <1>5, <1>6, <1>7, <1>8, <1>9 DEF Kept

-----------------------------------------------------------------------------
(* The output: after Detach nothing is live, after Attach one entry is. *)

LEMMA DetachStep == IInv /\ Detach => Kept'
<1> SUFFICES ASSUME IInv, Detach PROVE Kept'
  OBVIOUS
<1> USE DEF Detach, Done, callVars, playerVars, decoderVars, outputVars, synthVars
<1>1. todo \in {<<"detach", "decode">>, <<"detach", "release">>,
                <<"detach", "attach", "playing">>, <<"detach", "attach", "sought">>,
                <<"detach", "attach", "seekfailed">>, <<"detach", "seek">>,
                <<"detach", "synthstop">>, <<"detach", "stopped">>}
  BY Stations, AtDetach DEF IInv, TypeOK
<1>2. CASE todo = <<"detach", "decode">>
  <2>1. opened = "no" /\ todo = <<"detach", "decode">> /\ todo' = <<"decode">> /\ opened' = "no"
    BY <1>2, Stations, AtDetach, Tails DEF IInv, TypeOK
  <2>2. Script'
    BY <2>1 DEF Script, IsSynth, Now, Opening, Closing, Starting, Setting, Stopping, Seeking,
       Resuming, Restoring
  <2>3. Reach'
    BY <2>1 DEF IInv, TypeOK, Reach, Flag, Unsaid, Now
  <2>4. Flag'
    BY <2>1 DEF IInv, TypeOK, Reach, Flag, Unsaid, Now, Resuming
  <2>5. Chain'
    BY <2>1 DEF IInv, TypeOK, Reach, Flag, Unsaid, Chain, Follows, IsSynth, Now, Starting, Resuming,
       Restoring
  <2>6. Heard'
    BY <2>1 DEF IInv, TypeOK, Reach, Flag, Unsaid, Heard, AtEnd, IsSynth, Now
  <2>7. Left'
    BY <2>1 DEF IInv, TypeOK, Left, NothingLeft, Now
  <2> QED BY <2>2, <2>3, <2>4, <2>5, <2>6, <2>7 DEF Kept
<1>3. CASE todo = <<"detach", "release">>
  <2>1. opened \in {"yes", "failed"} /\ todo = <<"detach", "release">> /\ todo' = <<"release">>
    BY <1>3, Stations, AtDetach, Tails DEF IInv, TypeOK
  <2>2. Script'
    BY <2>1 DEF Script, IsSynth, Now, Opening, Closing, Starting, Setting, Stopping, Seeking,
       Resuming, Restoring
  <2>3. Reach'
    BY <2>1 DEF IInv, TypeOK, Reach, Flag, Unsaid, Now
  <2>4. Flag'
    BY <2>1 DEF IInv, TypeOK, Reach, Flag, Unsaid, Now, Resuming
  <2>5. Chain'
    BY <2>1 DEF IInv, TypeOK, Reach, Flag, Unsaid, Chain, Follows, IsSynth, Now, Starting, Resuming,
       Restoring
  <2>6. Heard'
    BY <2>1 DEF IInv, TypeOK, Reach, Flag, Unsaid, Heard, AtEnd, IsSynth, Now
  <2>7. Left'
    BY <2>1 DEF IInv, TypeOK, Left, NothingLeft, Now
  <2> QED BY <2>2, <2>3, <2>4, <2>5, <2>6, <2>7 DEF Kept
<1>4. CASE todo = <<"detach", "attach", "playing">>
  <2>1. /\ opened = "yes" /\ todo = <<"detach", "attach", "playing">>
        /\ todo' = <<"attach", "playing">> /\ opened' = "yes"
    BY <1>4, Stations, AtDetach, Tails DEF IInv, TypeOK
  <2>2. Script'
    BY <2>1 DEF Script, IsSynth, Now, Opening, Closing, Starting, Setting, Stopping, Seeking,
       Resuming, Restoring
  <2>3. Reach'
    BY <2>1 DEF IInv, TypeOK, Reach, Flag, Unsaid, Now
  <2>4. Flag'
    BY <2>1 DEF IInv, TypeOK, Reach, Flag, Unsaid, Now, Resuming
  <2>5. Chain'
    BY <2>1 DEF IInv, TypeOK, Reach, Flag, Unsaid, Chain, Follows, IsSynth, Now, Starting, Resuming,
       Restoring
  <2>6. Heard'
    BY <2>1 DEF IInv, TypeOK, Reach, Flag, Unsaid, Heard, AtEnd, IsSynth, Now
  <2>7. Left'
    BY <2>1 DEF IInv, TypeOK, Left, NothingLeft, Now
  <2> QED BY <2>2, <2>3, <2>4, <2>5, <2>6, <2>7 DEF Kept
<1>5. CASE todo = <<"detach", "attach", "sought">>
  <2>1. /\ opened = "yes" /\ todo = <<"detach", "attach", "sought">>
        /\ todo' = <<"attach", "sought">> /\ opened' = "yes"
    BY <1>5, Stations, AtDetach, Tails DEF IInv, TypeOK
  <2>2. Script'
    BY <2>1 DEF Script, IsSynth, Now, Opening, Closing, Starting, Setting, Stopping, Seeking,
       Resuming, Restoring
  <2>3. Reach'
    BY <2>1 DEF IInv, TypeOK, Reach, Flag, Unsaid, Now
  <2>4. Flag'
    BY <2>1 DEF IInv, TypeOK, Reach, Flag, Unsaid, Now, Resuming
  <2>5. Chain'
    BY <2>1 DEF IInv, TypeOK, Reach, Flag, Unsaid, Chain, Follows, IsSynth, Now, Starting, Resuming,
       Restoring
  <2>6. Heard'
    BY <2>1 DEF IInv, TypeOK, Reach, Flag, Unsaid, Heard, AtEnd, IsSynth, Now
  <2>7. Left'
    BY <2>1 DEF IInv, TypeOK, Left, NothingLeft, Now
  <2> QED BY <2>2, <2>3, <2>4, <2>5, <2>6, <2>7 DEF Kept
<1>6. CASE todo = <<"detach", "attach", "seekfailed">>
  <2>1. /\ opened = "yes" /\ todo = <<"detach", "attach", "seekfailed">>
        /\ todo' = <<"attach", "seekfailed">> /\ opened' = "yes"
    BY <1>6, Stations, AtDetach, Tails DEF IInv, TypeOK
  <2>2. Script'
    BY <2>1 DEF Script, IsSynth, Now, Opening, Closing, Starting, Setting, Stopping, Seeking,
       Resuming, Restoring
  <2>3. Reach'
    BY <2>1 DEF IInv, TypeOK, Reach, Flag, Unsaid, Now
  <2>4. Flag'
    BY <2>1 DEF IInv, TypeOK, Reach, Flag, Unsaid, Now, Resuming
  <2>5. Chain'
    BY <2>1 DEF IInv, TypeOK, Reach, Flag, Unsaid, Chain, Follows, IsSynth, Now, Starting, Resuming,
       Restoring
  <2>6. Heard'
    BY <2>1 DEF IInv, TypeOK, Reach, Flag, Unsaid, Heard, AtEnd, IsSynth, Now
  <2>7. Left'
    BY <2>1 DEF IInv, TypeOK, Left, NothingLeft, Now
  <2> QED BY <2>2, <2>3, <2>4, <2>5, <2>6, <2>7 DEF Kept
<1>7. CASE todo = <<"detach", "seek">>
  <2>1. opened = "yes" /\ todo = <<"detach", "seek">> /\ todo' = <<"seek">> /\ opened' = "yes"
    BY <1>7, Stations, AtDetach, Tails DEF IInv, TypeOK
  <2>2. Script'
    BY <2>1 DEF Script, IsSynth, Now, Opening, Closing, Starting, Setting, Stopping, Seeking,
       Resuming, Restoring
  <2>3. Reach'
    BY <2>1 DEF IInv, TypeOK, Reach, Flag, Unsaid, Now
  <2>4. Flag'
    BY <2>1 DEF IInv, TypeOK, Reach, Flag, Unsaid, Now, Resuming
  <2>5. Chain'
    BY <2>1 DEF IInv, TypeOK, Reach, Flag, Unsaid, Chain, Follows, IsSynth, Now, Starting, Resuming,
       Restoring
  <2>6. Heard'
    BY <2>1 DEF IInv, TypeOK, Reach, Flag, Unsaid, Heard, AtEnd, IsSynth, Now
  <2>7. Left'
    BY <2>1 DEF IInv, TypeOK, Left, NothingLeft, Now
  <2> QED BY <2>2, <2>3, <2>4, <2>5, <2>6, <2>7 DEF Kept
<1>8. CASE todo = <<"detach", "synthstop">>
  <2>1. opened = "yes" /\ todo = <<"detach", "synthstop">> /\ todo' = <<"synthstop">> /\ opened' = "yes"
    BY <1>8, Stations, AtDetach, Tails DEF IInv, TypeOK
  <2>2. Script'
    BY <2>1 DEF Script, IsSynth, Now, Opening, Closing, Starting, Setting, Stopping, Seeking,
       Resuming, Restoring
  <2>3. Reach'
    BY <2>1 DEF IInv, TypeOK, Reach, Flag, Unsaid, Now
  <2>4. Flag'
    BY <2>1 DEF IInv, TypeOK, Reach, Flag, Unsaid, Now, Resuming
  <2>5. Chain'
    BY <2>1 DEF IInv, TypeOK, Reach, Flag, Unsaid, Chain, Follows, IsSynth, Now, Starting, Resuming,
       Restoring
  <2>6. Heard'
    BY <2>1 DEF IInv, TypeOK, Reach, Flag, Unsaid, Heard, AtEnd, IsSynth, Now
  <2>7. Left'
    BY <2>1 DEF IInv, TypeOK, Left, NothingLeft, Now
  <2> QED BY <2>2, <2>3, <2>4, <2>5, <2>6, <2>7 DEF Kept
<1>9. CASE todo = <<"detach", "stopped">>
  <2>1. opened = "yes" /\ todo = <<"detach", "stopped">> /\ todo' = <<"stopped">> /\ opened' = "yes"
    BY <1>9, Stations, AtDetach, Tails DEF IInv, TypeOK
  <2>2. Script'
    BY <2>1 DEF Script, IsSynth, Now, Opening, Closing, Starting, Setting, Stopping, Seeking,
       Resuming, Restoring
  <2>3. Reach'
    BY <2>1 DEF IInv, TypeOK, Reach, Flag, Unsaid, Now
  <2>4. Flag'
    BY <2>1 DEF IInv, TypeOK, Reach, Flag, Unsaid, Now, Resuming
  <2>5. Chain'
    BY <2>1 DEF IInv, TypeOK, Reach, Flag, Unsaid, Chain, Follows, IsSynth, Now, Starting, Resuming,
       Restoring
  <2>6. Heard'
    BY <2>1 DEF IInv, TypeOK, Reach, Flag, Unsaid, Heard, AtEnd, IsSynth, Now
  <2>7. Left'
    BY <2>1 DEF IInv, TypeOK, Left, NothingLeft, Now
  <2> QED BY <2>2, <2>3, <2>4, <2>5, <2>6, <2>7 DEF Kept
<1> QED BY <1>1, <1>2, <1>3, <1>4, <1>5, <1>6, <1>7, <1>8, <1>9

LEMMA AttachStep == IInv /\ Attach => Kept'
<1> SUFFICES ASSUME IInv, Attach PROVE Kept'
  OBVIOUS
<1> USE DEF Attach, Done, Entries, None, callVars, playerVars, decoderVars, outputVars, synthVars
<1>1. todo \in {<<"attach", "playing">>, <<"attach", "sought">>, <<"attach", "seekfailed">>}
  BY Stations, AtDetach DEF IInv, TypeOK
<1>2. CASE todo = <<"attach", "playing">>
  <2>1. opened = "yes" /\ todo = <<"attach", "playing">> /\ todo' = <<"playing">> /\ opened' = "yes"
    BY <1>2, Stations, AtDetach, Tails DEF IInv, TypeOK
  <2>2. Script'
    BY <2>1 DEF Script, IsSynth, Now, Opening, Closing, Starting, Setting, Stopping, Seeking,
       Resuming, Restoring
  <2>3. Reach'
    BY <2>1 DEF IInv, TypeOK, Reach, Flag, Unsaid, Now
  <2>4. Flag'
    BY <2>1 DEF IInv, TypeOK, Reach, Flag, Unsaid, Now, Resuming
  <2>5. Chain'
    BY <2>1 DEF IInv, TypeOK, Reach, Flag, Unsaid, Chain, Follows, IsSynth, Now, Starting, Resuming,
       Restoring
  <2>6. Heard'
    BY <2>1 DEF IInv, TypeOK, Reach, Flag, Unsaid, Heard, AtEnd, IsSynth, Now
  <2>7. Left'
    BY <2>1 DEF IInv, TypeOK, Left, NothingLeft, Now
  <2> QED BY <2>2, <2>3, <2>4, <2>5, <2>6, <2>7 DEF Kept
<1>3. CASE todo = <<"attach", "sought">>
  <2>1. opened = "yes" /\ todo = <<"attach", "sought">> /\ todo' = <<"sought">> /\ opened' = "yes"
    BY <1>3, Stations, AtDetach, Tails DEF IInv, TypeOK
  <2>2. Script'
    BY <2>1 DEF Script, IsSynth, Now, Opening, Closing, Starting, Setting, Stopping, Seeking,
       Resuming, Restoring
  <2>3. Reach'
    BY <2>1 DEF IInv, TypeOK, Reach, Flag, Unsaid, Now
  <2>4. Flag'
    BY <2>1 DEF IInv, TypeOK, Reach, Flag, Unsaid, Now, Resuming
  <2>5. Chain'
    BY <2>1 DEF IInv, TypeOK, Reach, Flag, Unsaid, Chain, Follows, IsSynth, Now, Starting, Resuming,
       Restoring
  <2>6. Heard'
    BY <2>1 DEF IInv, TypeOK, Reach, Flag, Unsaid, Heard, AtEnd, IsSynth, Now
  <2>7. Left'
    BY <2>1 DEF IInv, TypeOK, Left, NothingLeft, Now
  <2> QED BY <2>2, <2>3, <2>4, <2>5, <2>6, <2>7 DEF Kept
<1>4. CASE todo = <<"attach", "seekfailed">>
  <2>1. /\ opened = "yes" /\ todo = <<"attach", "seekfailed">>
        /\ todo' = <<"seekfailed">> /\ opened' = "yes"
    BY <1>4, Stations, AtDetach, Tails DEF IInv, TypeOK
  <2>2. Script'
    BY <2>1 DEF Script, IsSynth, Now, Opening, Closing, Starting, Setting, Stopping, Seeking,
       Resuming, Restoring
  <2>3. Reach'
    BY <2>1 DEF IInv, TypeOK, Reach, Flag, Unsaid, Now
  <2>4. Flag'
    BY <2>1 DEF IInv, TypeOK, Reach, Flag, Unsaid, Now, Resuming
  <2>5. Chain'
    BY <2>1 DEF IInv, TypeOK, Reach, Flag, Unsaid, Chain, Follows, IsSynth, Now, Starting, Resuming,
       Restoring
  <2>6. Heard'
    BY <2>1 DEF IInv, TypeOK, Reach, Flag, Unsaid, Heard, AtEnd, IsSynth, Now
  <2>7. Left'
    BY <2>1 DEF IInv, TypeOK, Left, NothingLeft, Now
  <2> QED BY <2>2, <2>3, <2>4, <2>5, <2>6, <2>7 DEF Kept
<1> QED BY <1>1, <1>2, <1>3, <1>4

-----------------------------------------------------------------------------
(* The flags and the controller of a synthesiser. *)

LEMMA UnpauseStep == IInv /\ Unpause => Kept'
<1> SUFFICES ASSUME IInv, Unpause PROVE Kept'
  OBVIOUS
<1> USE DEF Unpause, Done, SetPaused, callVars, playerVars, decoderVars, outputVars, synthVars
<1>1. todo = <<"unpause", "resumed">> \/ todo = <<"unpause", "detach", "attach", "playing">>
  BY Stations, AtDetach DEF IInv, TypeOK
<1>2. CASE todo = <<"unpause", "resumed">>
  <2>1. opened = "yes" /\ todo = <<"unpause", "resumed">> /\ todo' = <<"resumed">> /\ opened' = "yes"
    BY <1>2, Stations, AtDetach, Tails DEF IInv, TypeOK
  <2>2. Script'
    BY <2>1 DEF Script, IsSynth, Now, Opening, Closing, Starting, Setting, Stopping, Seeking,
       Resuming, Restoring
  <2>3. Reach'
    BY <2>1 DEF IInv, TypeOK, Reach, Flag, Unsaid, Now
  <2>4. Flag'
    BY <2>1 DEF IInv, TypeOK, Reach, Flag, Unsaid, Now, Resuming
  <2>5. Chain'
    BY <2>1 DEF IInv, TypeOK, Reach, Flag, Unsaid, Chain, Follows, IsSynth, Now, Starting, Resuming,
       Restoring
  <2>6. Heard'
    BY <2>1 DEF IInv, TypeOK, Reach, Flag, Unsaid, Heard, AtEnd, IsSynth, Now
  <2>7. Left'
    BY <2>1 DEF IInv, TypeOK, Left, NothingLeft, Now
  <2> QED BY <2>2, <2>3, <2>4, <2>5, <2>6, <2>7 DEF Kept
<1>3. CASE todo = <<"unpause", "detach", "attach", "playing">>
  <2>1. /\ opened = "yes" /\ todo = <<"unpause", "detach", "attach", "playing">>
        /\ todo' = <<"detach", "attach", "playing">> /\ opened' = "yes"
    BY <1>3, Stations, AtDetach, Tails DEF IInv, TypeOK
  <2>2. Script'
    BY <2>1 DEF Script, IsSynth, Now, Opening, Closing, Starting, Setting, Stopping, Seeking,
       Resuming, Restoring
  <2>3. Reach'
    BY <2>1 DEF IInv, TypeOK, Reach, Flag, Unsaid, Now
  <2>4. Flag'
    BY <2>1 DEF IInv, TypeOK, Reach, Flag, Unsaid, Now, Resuming
  <2>5. Chain'
    BY <2>1 DEF IInv, TypeOK, Reach, Flag, Unsaid, Chain, Follows, IsSynth, Now, Starting, Resuming,
       Restoring
  <2>6. Heard'
    BY <2>1 DEF IInv, TypeOK, Reach, Flag, Unsaid, Heard, AtEnd, IsSynth, Now
  <2>7. Left'
    BY <2>1 DEF IInv, TypeOK, Left, NothingLeft, Now
  <2> QED BY <2>2, <2>3, <2>4, <2>5, <2>6, <2>7 DEF Kept
<1> QED BY <1>1, <1>2, <1>3

LEMMA PauseChainStep == IInv /\ PauseChain => Kept'
<1> SUFFICES ASSUME IInv, PauseChain PROVE Kept'
  OBVIOUS
<1> USE DEF PauseChain, Done, SetPaused, callVars, playerVars, decoderVars, outputVars, synthVars
<1>1. opened = "yes" /\ todo = <<"pause">> /\ todo' = <<>> /\ opened' = "yes"
  BY Stations, AtDetach, Tails DEF IInv, TypeOK
<1>2. Script'
  BY <1>1 DEF Script, IsSynth, Now, Opening, Closing, Starting, Setting, Stopping, Seeking, Resuming,
     Restoring
<1>3. Reach'
  BY <1>1 DEF IInv, TypeOK, Reach, Flag, Unsaid, Now
<1>4. Flag'
  BY <1>1 DEF IInv, TypeOK, Reach, Flag, Unsaid, Now, Resuming
<1>5. Chain'
  BY <1>1 DEF IInv, TypeOK, Reach, Flag, Unsaid, Chain, Follows, IsSynth, Now, Starting, Resuming,
     Restoring
<1>6. Heard'
  BY <1>1 DEF IInv, TypeOK, Reach, Flag, Unsaid, Heard, AtEnd, IsSynth, Now
<1>7. Left'
  BY <1>1 DEF IInv, TypeOK, Left, NothingLeft, Now
<1> QED BY <1>2, <1>3, <1>4, <1>5, <1>6, <1>7 DEF Kept

LEMMA MarkPlayingStep == IInv /\ MarkPlaying => Kept'
<1> SUFFICES ASSUME IInv, MarkPlaying PROVE Kept'
  OBVIOUS
<1> USE DEF MarkPlaying, Settle, Done, callVars, playerVars, decoderVars, outputVars, synthVars
<1>1. opened = "yes" /\ todo = <<"playing">> /\ todo' = <<>> /\ opened' = "yes"
  BY Stations, AtDetach, Tails DEF IInv, TypeOK
<1>2. Script'
  BY <1>1 DEF Script, IsSynth, Now, Opening, Closing, Starting, Setting, Stopping, Seeking, Resuming,
     Restoring
<1>3. Reach'
  BY <1>1 DEF IInv, TypeOK, Reach, Flag, Unsaid, Now
<1>4. Flag'
  BY <1>1 DEF IInv, TypeOK, Reach, Flag, Unsaid, Now, Resuming
<1>5. Chain'
  <2>1. ASSUME ~IsSynth PROVE Follows'
    <3>1. chain.paused = FALSE
      BY <1>1, <2>1 DEF IInv, TypeOK, Chain, Now, Starting
    <3>2. isPaused' = FALSE /\ chain' = chain
      OBVIOUS
    <3> QED BY <3>1, <3>2 DEF Follows
  <2>2. ~Now("resumed")' /\ ~Now("unpause")' /\ todo' \notin Starting \cup Resuming \cup Restoring
        /\ todo' \notin {<<"detach", "seek">>, <<"seek">>}
    BY <1>1 DEF Now, Starting, Resuming, Restoring
  <2>3. chain'.level = volume' /\ (chain'.holds # "stale")
    BY <1>1 DEF IInv, Chain, Now
  <2>4. IsSynth' = IsSynth
    BY DEF IsSynth
  <2> QED BY <2>1, <2>2, <2>3, <2>4 DEF Chain
<1>6. Heard'
  BY <1>1 DEF IInv, TypeOK, Reach, Flag, Unsaid, Heard, AtEnd, IsSynth, Now
<1>7. Left'
  BY <1>1 DEF IInv, TypeOK, Left, NothingLeft, Now
<1> QED BY <1>2, <1>3, <1>4, <1>5, <1>6, <1>7 DEF Kept

LEMMA MarkResumedStep == IInv /\ MarkResumed => Kept'
<1> SUFFICES ASSUME IInv, MarkResumed PROVE Kept'
  OBVIOUS
<1> USE DEF MarkResumed, Settle, Done, callVars, playerVars, decoderVars, outputVars, synthVars
<1>1. opened = "yes" /\ todo = <<"resumed">> /\ todo' = <<>> /\ opened' = "yes"
  BY Stations, AtDetach, Tails DEF IInv, TypeOK
<1>2. Script'
  BY <1>1 DEF Script, IsSynth, Now, Opening, Closing, Starting, Setting, Stopping, Seeking, Resuming,
     Restoring
<1>3. Reach'
  BY <1>1 DEF IInv, TypeOK, Reach, Flag, Unsaid, Now
<1>4. Flag'
  BY <1>1 DEF IInv, TypeOK, Reach, Flag, Unsaid, Now, Resuming
<1>5. Chain'
  <2>1. ASSUME ~IsSynth PROVE Follows'
    <3>1. chain.paused = FALSE
      BY <1>1, <2>1 DEF IInv, TypeOK, Chain, Now, Starting
    <3>2. isPaused' = FALSE /\ chain' = chain
      OBVIOUS
    <3> QED BY <3>1, <3>2 DEF Follows
  <2>2. ~Now("resumed")' /\ ~Now("unpause")' /\ todo' \notin Starting \cup Resuming \cup Restoring
        /\ todo' \notin {<<"detach", "seek">>, <<"seek">>}
    BY <1>1 DEF Now, Starting, Resuming, Restoring
  <2>3. chain'.level = volume' /\ (chain'.holds # "stale")
    BY <1>1 DEF IInv, Chain, Now
  <2>4. IsSynth' = IsSynth
    BY DEF IsSynth
  <2> QED BY <2>1, <2>2, <2>3, <2>4 DEF Chain
<1>6. Heard'
  BY <1>1 DEF IInv, TypeOK, Reach, Flag, Unsaid, Heard, AtEnd, IsSynth, Now
<1>7. Left'
  BY <1>1 DEF IInv, TypeOK, Left, NothingLeft, Now
<1> QED BY <1>2, <1>3, <1>4, <1>5, <1>6, <1>7 DEF Kept

LEMMA MarkStoppedStep == IInv /\ MarkStopped => Kept'
<1> SUFFICES ASSUME IInv, MarkStopped PROVE Kept'
  OBVIOUS
<1> USE DEF MarkStopped, Settle, Done, callVars, playerVars, decoderVars, outputVars, synthVars
<1>1. opened = "yes" /\ todo = <<"stopped">> /\ todo' = <<>> /\ opened' = "yes"
  BY Stations, AtDetach, Tails DEF IInv, TypeOK
<1>2. Script'
  BY <1>1 DEF Script, IsSynth, Now, Opening, Closing, Starting, Setting, Stopping, Seeking, Resuming,
     Restoring
<1>3. Reach'
  BY <1>1 DEF IInv, TypeOK, Reach, Flag, Unsaid, Now
<1>4. Flag'
  BY <1>1 DEF IInv, TypeOK, Reach, Flag, Unsaid, Now, Resuming
<1>5. Chain'
  BY <1>1 DEF IInv, TypeOK, Reach, Flag, Unsaid, Chain, Follows, IsSynth, Now, Starting, Resuming,
     Restoring
<1>6. Heard'
  BY <1>1 DEF IInv, TypeOK, Reach, Flag, Unsaid, Heard, AtEnd, IsSynth, Now
<1>7. Left'
  BY <1>1 DEF IInv, TypeOK, Left, NothingLeft, Now
<1> QED BY <1>2, <1>3, <1>4, <1>5, <1>6, <1>7 DEF Kept

LEMMA SynthPauseStep == IInv /\ SynthPause => Kept'
<1> SUFFICES ASSUME IInv, SynthPause PROVE Kept'
  OBVIOUS
<1> USE DEF SynthPause, Settle, Done, callVars, playerVars, decoderVars, outputVars, synthVars
<1>1. opened = "yes" /\ todo = <<"synthpause">> /\ todo' = <<>> /\ opened' = "yes"
  BY Stations, AtDetach, Tails DEF IInv, TypeOK
<1>2. Script'
  BY <1>1 DEF Script, IsSynth, Now, Opening, Closing, Starting, Setting, Stopping, Seeking, Resuming,
     Restoring
<1>3. Reach'
  BY <1>1 DEF IInv, TypeOK, Reach, Flag, Unsaid, Now
<1>4. Flag'
  BY <1>1 DEF IInv, TypeOK, Reach, Flag, Unsaid, Now, Resuming
<1>5. Chain'
  <2>1. IsSynth'
    BY <1>1 DEF IInv, Script, IsSynth, Now
  <2> QED BY <1>1, <2>1 DEF IInv, Chain, Now
<1>6. Heard'
  BY <1>1 DEF IInv, TypeOK, Reach, Flag, Unsaid, Heard, AtEnd, IsSynth, Now
<1>7. Left'
  BY <1>1 DEF IInv, TypeOK, Left, NothingLeft, Now
<1> QED BY <1>2, <1>3, <1>4, <1>5, <1>6, <1>7 DEF Kept

LEMMA SynthStopStep == IInv /\ SynthStop => Kept'
<1> SUFFICES ASSUME IInv, SynthStop PROVE Kept'
  OBVIOUS
<1> USE DEF SynthStop, Settle, Done, callVars, playerVars, decoderVars, outputVars, synthVars
<1>1. opened = "yes" /\ todo = <<"synthstop">> /\ todo' = <<>> /\ opened' = "yes"
  BY Stations, AtDetach, Tails DEF IInv, TypeOK
<1>2. Script'
  BY <1>1 DEF Script, IsSynth, Now, Opening, Closing, Starting, Setting, Stopping, Seeking, Resuming,
     Restoring
<1>3. Reach'
  BY <1>1 DEF IInv, TypeOK, Reach, Flag, Unsaid, Now
<1>4. Flag'
  BY <1>1 DEF IInv, TypeOK, Reach, Flag, Unsaid, Now, Resuming
<1>5. Chain'
  BY <1>1 DEF IInv, TypeOK, Reach, Flag, Unsaid, Chain, Follows, IsSynth, Now, Starting, Resuming,
     Restoring
<1>6. Heard'
  BY <1>1 DEF IInv, TypeOK, Reach, Flag, Unsaid, Heard, AtEnd, IsSynth, Now
<1>7. Left'
  BY <1>1 DEF IInv, TypeOK, Left, NothingLeft, Now
<1> QED BY <1>2, <1>3, <1>4, <1>5, <1>6, <1>7 DEF Kept

LEMMA MarkSeekFailedStep == IInv /\ MarkSeekFailed => Kept'
<1> SUFFICES ASSUME IInv, MarkSeekFailed PROVE Kept'
  OBVIOUS
<1> USE DEF MarkSeekFailed, Settle, Done, callVars, playerVars, decoderVars, outputVars, synthVars
<1>1. opened = "yes" /\ todo = <<"seekfailed">> /\ todo' = <<>> /\ opened' = "yes"
  BY Stations, AtDetach, Tails DEF IInv, TypeOK
<1>2. Script'
  BY <1>1 DEF Script, IsSynth, Now, Opening, Closing, Starting, Setting, Stopping, Seeking, Resuming,
     Restoring
<1>3. Reach'
  BY <1>1 DEF IInv, TypeOK, Reach, Flag, Unsaid, Now
<1>4. Flag'
  BY <1>1 DEF IInv, TypeOK, Reach, Flag, Unsaid, Now, Resuming
<1>5. Chain'
  BY <1>1 DEF IInv, TypeOK, Reach, Flag, Unsaid, Chain, Follows, IsSynth, Now, Starting, Resuming,
     Restoring
<1>6. Heard'
  BY <1>1 DEF IInv, TypeOK, Reach, Flag, Unsaid, Heard, AtEnd, IsSynth, Now
<1>7. Left'
  BY <1>1 DEF IInv, TypeOK, Left, NothingLeft, Now
<1> QED BY <1>2, <1>3, <1>4, <1>5, <1>6, <1>7 DEF Kept

LEMMA SynthPlayStep == IInv /\ SynthPlay => Kept'
<1> SUFFICES ASSUME IInv, SynthPlay PROVE Kept'
  OBVIOUS
<1> USE DEF SynthPlay, Settle, Done, callVars, playerVars, decoderVars, outputVars, synthVars
<1>1. /\ opened = "yes" /\ todo = <<"synthplay", "detach", "attach", "playing">>
      /\ todo' = <<"detach", "attach", "playing">> /\ opened' = "yes"
  BY Stations, AtDetach, Tails DEF IInv, TypeOK
<1>2. Script'
  BY <1>1 DEF Script, IsSynth, Now, Opening, Closing, Starting, Setting, Stopping, Seeking, Resuming,
     Restoring
<1>3. Reach'
  BY <1>1 DEF IInv, TypeOK, Reach, Flag, Unsaid, Now
<1>4. Flag'
  BY <1>1 DEF IInv, TypeOK, Reach, Flag, Unsaid, Now, Resuming
<1>5. Chain'
  BY <1>1 DEF IInv, TypeOK, Reach, Flag, Unsaid, Chain, Follows, IsSynth, Now, Starting, Resuming,
     Restoring
<1>6. Heard'
  BY <1>1 DEF IInv, TypeOK, Reach, Flag, Unsaid, Heard, AtEnd, IsSynth, Now
<1>7. Left'
  BY <1>1 DEF IInv, TypeOK, Left, NothingLeft, Now
<1> QED BY <1>2, <1>3, <1>4, <1>5, <1>6, <1>7 DEF Kept

LEMMA SynthSeekStep == IInv /\ SynthSeek => Kept'
<1> SUFFICES ASSUME IInv, SynthSeek PROVE Kept'
  OBVIOUS
<1> USE DEF SynthSeek, Done, callVars, playerVars, decoderVars, outputVars, synthVars
<1>1. opened = "yes" /\ todo = <<"synthseek">> /\ todo' = <<>> /\ opened' = "yes"
  BY Stations, AtDetach, Tails DEF IInv, TypeOK
<1>2. Script'
  BY <1>1 DEF Script, IsSynth, Now, Opening, Closing, Starting, Setting, Stopping, Seeking, Resuming,
     Restoring
<1>3. Reach'
  BY <1>1 DEF IInv, TypeOK, Reach, Flag, Unsaid, Now
<1>4. Flag'
  BY <1>1 DEF IInv, TypeOK, Reach, Flag, Unsaid, Now, Resuming
<1>5. Chain'
  BY <1>1 DEF IInv, TypeOK, Reach, Flag, Unsaid, Chain, Follows, IsSynth, Now, Starting, Resuming,
     Restoring
<1>6. Heard'
  BY <1>1 DEF IInv, TypeOK, Reach, Flag, Unsaid, Heard, AtEnd, IsSynth, Now
<1>7. Left'
  BY <1>1 DEF IInv, TypeOK, Left, NothingLeft, Now
<1> QED BY <1>2, <1>3, <1>4, <1>5, <1>6, <1>7 DEF Kept

LEMMA OpenmptSeekStep == IInv /\ OpenmptSeek => Kept'
<1> SUFFICES ASSUME IInv, OpenmptSeek PROVE Kept'
  OBVIOUS
<1> USE DEF OpenmptSeek, Done, callVars, playerVars, decoderVars, outputVars, synthVars
<1>1. opened = "yes" /\ todo = <<"synthseek">> /\ todo' = <<>> /\ opened' = "yes"
  BY Stations, AtDetach, Tails DEF IInv, TypeOK
<1>2. Script'
  BY <1>1 DEF Script, IsSynth, Now, Opening, Closing, Starting, Setting, Stopping, Seeking, Resuming,
     Restoring
<1>3. Reach'
  BY <1>1 DEF IInv, TypeOK, Reach, Flag, Unsaid, Now
<1>4. Flag'
  BY <1>1 DEF IInv, TypeOK, Reach, Flag, Unsaid, Now, Resuming
<1>5. Chain'
  BY <1>1 DEF IInv, TypeOK, Reach, Flag, Unsaid, Chain, Follows, IsSynth, Now, Starting, Resuming,
     Restoring
<1>6. Heard'
  BY <1>1 DEF IInv, TypeOK, Reach, Flag, Unsaid, Heard, AtEnd, IsSynth, Now
<1>7. Left'
  BY <1>1 DEF IInv, TypeOK, Left, NothingLeft, Now
<1> QED BY <1>2, <1>3, <1>4, <1>5, <1>6, <1>7 DEF Kept

-----------------------------------------------------------------------------
(* Seeking in a decoder, the volume, and Close. *)

\* The chain may go stale here, with nobody to read it, and is rebuilt next.
LEMMA SeekDecoderStep == IInv /\ SeekDecoder => Kept'
<1> SUFFICES ASSUME IInv, SeekDecoder PROVE Kept'
  OBVIOUS
<1> USE DEF SeekDecoder, Then, callVars, playerVars, decoderVars, outputVars, synthVars
<1> DEFINE jumped ==
       /\ pos' = arg.target
       /\ chain' = [chain EXCEPT !.holds = IF @ = "nothing" THEN @ ELSE "stale"]
<1>1. opened = "yes" /\ todo = <<"seek">> /\ Tail(todo) = <<>> /\ output = None
  BY Stations, Tails DEF IInv, TypeOK, Reach
<1>2. \/ jumped /\ arg.wasAttached /\ todo' = <<"rebuild", "detach", "attach", "sought">>
      \/ jumped /\ ~arg.wasAttached /\ todo' = <<"rebuild", "sought">>
      \/ UNCHANGED <<pos, chain>> /\ arg.wasAttached /\ todo' = <<"detach", "attach", "seekfailed">>
      \/ UNCHANGED <<pos, chain>> /\ ~arg.wasAttached /\ todo' = <<>>
  <2>1. /\ <<"rebuild", "detach", "attach", "sought">> \o <<>> = <<"rebuild", "detach", "attach", "sought">>
        /\ <<"rebuild", "sought">> \o <<>> = <<"rebuild", "sought">>
        /\ <<"detach", "attach", "seekfailed">> \o <<>> = <<"detach", "attach", "seekfailed">>
        /\ <<>> \o <<>> = <<>>
    OBVIOUS
  <2> QED BY <1>1, <2>1
<1>3. chain'.paused = chain.paused /\ chain'.level = chain.level /\ chain'.holds \in {chain.holds, "stale"}
  BY <1>2 DEF IInv, TypeOK
<1>4. UNCHANGED chain \/ Now("rebuild")'
  BY <1>2 DEF Now
<1> HIDE DEF jumped
<1>5. Script'
  BY <1>1, <1>2 DEF Script, IsSynth, Now, Opening, Closing, Starting, Setting, Stopping, Seeking,
     Resuming, Restoring
<1>6. Reach'
  BY <1>1, <1>2 DEF IInv, TypeOK, Reach, Now
<1>7. Flag'
  BY <1>1, <1>2 DEF IInv, TypeOK, Reach, Flag, Unsaid, Now, Resuming
<1>8. Chain'
  BY <1>1, <1>2, <1>3, <1>4 DEF IInv, TypeOK, Reach, Flag, Unsaid, Chain, Follows, IsSynth, Now,
     Starting, Resuming, Restoring
<1>9. Heard'
  BY <1>1, <1>2 DEF IInv, TypeOK, Reach, Flag, Unsaid, Heard, AtEnd, IsSynth, Now
<1>10. Left'
  BY <1>1, <1>2 DEF IInv, TypeOK, Left, NothingLeft, Now
<1> QED BY <1>5, <1>6, <1>7, <1>8, <1>9, <1>10 DEF Kept

LEMMA RebuildStep == IInv /\ Rebuild => Kept'
<1> SUFFICES ASSUME IInv, Rebuild PROVE Kept'
  OBVIOUS
<1> USE DEF Rebuild, Done, NewChain, callVars, playerVars, decoderVars, outputVars, synthVars
<1>1. todo = <<"rebuild", "sought">> \/ todo = <<"rebuild", "detach", "attach", "sought">>
  BY Stations, AtDetach DEF IInv, TypeOK
<1>2. CASE todo = <<"rebuild", "sought">>
  <2>1. opened = "yes" /\ todo = <<"rebuild", "sought">> /\ todo' = <<"sought">> /\ opened' = "yes"
    BY <1>2, Stations, AtDetach, Tails DEF IInv, TypeOK
  <2>2. Script'
    BY <2>1 DEF Script, IsSynth, Now, Opening, Closing, Starting, Setting, Stopping, Seeking,
       Resuming, Restoring
  <2>3. Reach'
    BY <2>1 DEF IInv, TypeOK, Reach, Flag, Unsaid, Now
  <2>4. Flag'
    BY <2>1 DEF IInv, TypeOK, Reach, Flag, Unsaid, Now, Resuming
  <2>5. Chain'
    BY <2>1 DEF IInv, TypeOK, Reach, Flag, Unsaid, Chain, Follows, IsSynth, Now, Starting, Resuming,
       Restoring
  <2>6. Heard'
    BY <2>1 DEF IInv, TypeOK, Reach, Flag, Unsaid, Heard, AtEnd, IsSynth, Now
  <2>7. Left'
    BY <2>1 DEF IInv, TypeOK, Left, NothingLeft, Now
  <2> QED BY <2>2, <2>3, <2>4, <2>5, <2>6, <2>7 DEF Kept
<1>3. CASE todo = <<"rebuild", "detach", "attach", "sought">>
  <2>1. /\ opened = "yes" /\ todo = <<"rebuild", "detach", "attach", "sought">>
        /\ todo' = <<"detach", "attach", "sought">> /\ opened' = "yes"
    BY <1>3, Stations, AtDetach, Tails DEF IInv, TypeOK
  <2>2. Script'
    BY <2>1 DEF Script, IsSynth, Now, Opening, Closing, Starting, Setting, Stopping, Seeking,
       Resuming, Restoring
  <2>3. Reach'
    BY <2>1 DEF IInv, TypeOK, Reach, Flag, Unsaid, Now
  <2>4. Flag'
    BY <2>1 DEF IInv, TypeOK, Reach, Flag, Unsaid, Now, Resuming
  <2>5. Chain'
    BY <2>1 DEF IInv, TypeOK, Reach, Flag, Unsaid, Chain, Follows, IsSynth, Now, Starting, Resuming,
       Restoring
  <2>6. Heard'
    BY <2>1 DEF IInv, TypeOK, Reach, Flag, Unsaid, Heard, AtEnd, IsSynth, Now
  <2>7. Left'
    BY <2>1 DEF IInv, TypeOK, Left, NothingLeft, Now
  <2> QED BY <2>2, <2>3, <2>4, <2>5, <2>6, <2>7 DEF Kept
<1> QED BY <1>1, <1>2, <1>3

LEMMA SoughtStep == IInv /\ Sought => Kept'
<1> SUFFICES ASSUME IInv, Sought PROVE Kept'
  OBVIOUS
<1> USE DEF Sought, Done, callVars, playerVars, decoderVars, outputVars, synthVars
<1>1. opened = "yes" /\ todo = <<"sought">> /\ todo' = <<>> /\ opened' = "yes"
  BY Stations, AtDetach, Tails DEF IInv, TypeOK
<1>2. Script'
  BY <1>1 DEF Script, IsSynth, Now, Opening, Closing, Starting, Setting, Stopping, Seeking, Resuming,
     Restoring
<1>3. Reach'
  BY <1>1 DEF IInv, TypeOK, Reach, Flag, Unsaid, Now
<1>4. Flag'
  BY <1>1 DEF IInv, TypeOK, Reach, Flag, Unsaid, Now, Resuming
<1>5. Chain'
  BY <1>1 DEF IInv, TypeOK, Reach, Flag, Unsaid, Chain, Follows, IsSynth, Now, Starting, Resuming,
     Restoring
<1>6. Heard'
  BY <1>1 DEF IInv, TypeOK, Reach, Flag, Unsaid, Heard, AtEnd, IsSynth, Now
<1>7. Left'
  BY <1>1 DEF IInv, TypeOK, Left, NothingLeft, Now
<1> QED BY <1>2, <1>3, <1>4, <1>5, <1>6, <1>7 DEF Kept

LEMMA ApplyVolumeStep == IInv /\ ApplyVolume => Kept'
<1> SUFFICES ASSUME IInv, ApplyVolume PROVE Kept'
  OBVIOUS
<1> USE DEF ApplyVolume, Done, callVars, playerVars, decoderVars, outputVars, synthVars
<1>1. opened = "yes" /\ todo = <<"volume">> /\ todo' = <<>> /\ opened' = "yes"
  BY Stations, AtDetach, Tails DEF IInv, TypeOK
<1>2. Script'
  BY <1>1 DEF Script, IsSynth, Now, Opening, Closing, Starting, Setting, Stopping, Seeking, Resuming,
     Restoring
<1>3. Reach'
  BY <1>1 DEF IInv, TypeOK, Reach, Flag, Unsaid, Now
<1>4. Flag'
  BY <1>1 DEF IInv, TypeOK, Reach, Flag, Unsaid, Now, Resuming
<1>5. Chain'
  BY <1>1 DEF IInv, TypeOK, Reach, Flag, Unsaid, Chain, Follows, IsSynth, Now, Starting, Resuming,
     Restoring
<1>6. Heard'
  BY <1>1 DEF IInv, TypeOK, Reach, Flag, Unsaid, Heard, AtEnd, IsSynth, Now
<1>7. Left'
  BY <1>1 DEF IInv, TypeOK, Left, NothingLeft, Now
<1> QED BY <1>2, <1>3, <1>4, <1>5, <1>6, <1>7 DEF Kept

\* Close, and the failure of Open, leave nothing behind.
LEMMA ReleaseStep == IInv /\ Release => Kept'
<1> SUFFICES ASSUME IInv, Release PROVE Kept'
  OBVIOUS
<1> USE DEF Release, Done, callVars, playerVars, decoderVars, outputVars, synthVars
<1>1. /\ opened \in {"yes", "failed"} /\ todo = <<"release">>
      /\ todo' = <<>> /\ opened' \in {"closed", "failed"}
  BY Stations, Tails DEF IInv, TypeOK
<1>2. remote'.task = remote.task /\ remote'.done = remote.done
  BY DEF IInv, TypeOK
<1>3. opened' \in {"failed", "closed"} => ~temp' /\ ~synth'.open /\ (remote'.task = "none" \/ remote'.cancelled)
  <2>1. ~synth'.open
    BY DEF IInv, TypeOK
  <2>2. ~temp'
    BY <1>1 DEF IInv, Left, Now
  <2>3. CASE remote.task = "none" \/ ~streamer
    <3>1. remote' = remote
      BY <2>3
    <3> QED BY <1>1, <2>1, <2>2, <2>3, <3>1 DEF IInv, Left, Now
  <2>4. CASE ~(remote.task = "none" \/ ~streamer)
    <3>1. remote'.cancelled
      BY <2>4 DEF IInv, TypeOK
    <3> QED BY <2>1, <2>2, <3>1
  <2> QED BY <2>3, <2>4
<1>4. Script'
  BY <1>1 DEF Script, IsSynth, Now
<1>5. Reach'
  BY <1>1 DEF IInv, TypeOK, Reach, Flag, Unsaid, Now
<1>6. Flag'
  BY <1>1 DEF IInv, TypeOK, Reach, Flag, Unsaid, Now, Resuming
<1>7. Chain'
  BY <1>1 DEF IInv, TypeOK, Reach, Flag, Unsaid, Chain, Follows, IsSynth, Now, Starting, Resuming,
     Restoring
<1>8. Heard'
  BY <1>1, <1>2 DEF IInv, TypeOK, Reach, Flag, Unsaid, Heard, AtEnd, IsSynth, Now
<1>9. Left'
  BY <1>1, <1>2, <1>3 DEF IInv, TypeOK, Left, NothingLeft, Now
<1> QED BY <1>4, <1>5, <1>6, <1>7, <1>8, <1>9 DEF Kept

-----------------------------------------------------------------------------
(* The audio goroutine and the download. *)

\* A callback calls no method and makes no entry live: what it may disturb is Heard.
LEMMA ListenStep ==
  ASSUME IInv, UNCHANGED <<callerVars, streamer, output, remote>>, live' \subseteq live,
         chain'.paused = chain.paused, chain'.level = chain.level,
         chain'.holds = "stale" => chain.holds = "stale",
         synth'.open = synth.open, Heard'
  PROVE  Kept'
<1> USE DEF callerVars, callVars, playerVars
<1>1. Script'
  BY DEF IInv, Script, IsSynth, Now
<1>2. Reach'
  BY DEF IInv, Reach, Now
<1>3. Flag'
  BY DEF IInv, Flag, Unsaid, Now
<1>4. Chain'
  BY DEF IInv, Chain, Follows, IsSynth, Now
<1>5. Left'
  BY DEF IInv, Left, NothingLeft, Now
<1> QED BY <1>1, <1>2, <1>3, <1>4, <1>5 DEF Kept

LEMMA StreamStep ==
  ASSUME IInv, NEW e \in pull \ {None}, StreamEntry(e)
  PROVE  Kept'
<1> USE DEF callerVars, callVars, playerVars, decoderVars, outputVars, synthVars, Keep, Drop, Served
<1>1. synth \in [open : BOOLEAN, paused : BOOLEAN, finished : BOOLEAN, seeking : BOOLEAN,
                target : 0 .. Length, elapsed : 0 .. Length, level : Levels]
  BY DEF IInv, TypeOK
<1>2. chain \in [paused : BOOLEAN, level : Levels, holds : {"nothing", "fresh", "stale"}]
  BY DEF IInv, TypeOK
<1>3. CASE StreamDetached(e) \/ StreamSilence(e)
  <2>1. Heard'
    BY <1>3 DEF StreamDetached, StreamSilence, IInv, Heard, AtEnd, IsSynth, Live
  <2>2. live' \subseteq live /\ UNCHANGED <<callerVars, streamer, output, remote, chain, synth>>
    BY <1>3 DEF StreamDetached, StreamSilence
  <2> QED BY <2>1, <2>2, ListenStep
<1>4. CASE StreamDecoded(e)
  <2>1. ~AtEnd' => ~AtEnd
    BY <1>4 DEF StreamDecoded, IInv, TypeOK, AtEnd, Reached
  <2>2. ~IsSynth /\ output # None /\ ~AtEnd' => output \in live'
    BY <1>4, <2>1 DEF StreamDecoded, IInv, Heard, AtEnd, IsSynth
  <2>3. Heard'
    BY <1>4, <2>2 DEF StreamDecoded, IInv, Heard, IsSynth
  <2>4. live' \subseteq live /\ UNCHANGED <<callerVars, streamer, output, remote, synth>>
    BY <1>4 DEF StreamDecoded
  <2>5. chain'.paused = chain.paused /\ chain'.level = chain.level /\ (chain'.holds = "stale" => chain.holds = "stale")
    BY <1>2, <1>4 DEF StreamDecoded
  <2> QED BY <2>3, <2>4, <2>5, ListenStep
<1>5. CASE \/ StreamOpenmpt(e) \/ SynthBegin(e) \/ JumpAgain(e) \/ Arrive(e) \/ SynthEnd(e)
           \/ TickEnds(e) \/ JumpFails(e)
  <2> USE DEF StreamOpenmpt, SynthBegin, JumpAgain, Arrive, SynthEnd, TickEnds, JumpFails, Rendered
  <2>1. Heard'
    BY <1>5 DEF IInv, Heard, IsSynth, Synthetic
  <2>2. live' \subseteq live /\ UNCHANGED <<callerVars, streamer, output, remote, chain>>
    BY <1>5
  <2>3. synth'.open = synth.open
    BY <1>1, <1>5
  <2> QED BY <2>1, <2>2, <2>3, ListenStep
<1> QED BY <1>3, <1>4, <1>5 DEF StreamEntry

LEMMA AudioStep == IInv /\ Audio => Kept'
<1> SUFFICES ASSUME IInv, Audio PROVE Kept'
  OBVIOUS
<1>1. CASE AudioBegin \/ AudioEnd
  <2>1. Heard'
    BY <1>1 DEF AudioBegin, AudioEnd, IInv, Heard, AtEnd, IsSynth, callerVars, callVars, decoderVars,
       outputVars
  <2>2. UNCHANGED <<callerVars, streamer, output, remote, live, chain, synth>>
    BY <1>1 DEF AudioBegin, AudioEnd, decoderVars, outputVars, synthVars
  <2> QED BY <2>1, <2>2, ListenStep
<1>2. CASE \E e \in pull \ {None} : StreamEntry(e)
  BY <1>2, StreamStep
<1> QED BY <1>1, <1>2 DEF Audio

\* The download tells of its end as it ends; it does not lose what Close told it.
LEMMA DownloadStep == IInv /\ Download => Kept'
<1> SUFFICES ASSUME IInv, Download PROVE Kept'
  OBVIOUS
<1> USE DEF downloadRest, callVars, playerVars, decoderVars, outputVars, synthVars
<1>1. UNCHANGED downloadRest
  BY DEF Download, DownloadCheck, DownloadRead
<1>2. /\ remote.task \in {"check", "read"} /\ remote'.task # "none" /\ ~remote.done
      /\ remote'.cancelled = remote.cancelled
      /\ remote'.done => remote'.task = "ended"
  <2>1. remote \in [task : {"none", "check", "read", "ended"}, written : 0 .. Length, done : BOOLEAN,
                   cancelled : BOOLEAN]
    BY DEF IInv, TypeOK
  <2>2. CASE DownloadCheck
    BY <2>1, <2>2 DEF DownloadCheck, IInv, Heard
  <2>3. CASE DownloadRead
    BY <2>1, <2>3 DEF DownloadRead, SetError, IInv, Heard
  <2> QED BY <2>2, <2>3 DEF Download
<1>3. Script'
  BY <1>1 DEF IInv, Script, IsSynth, Now
<1>4. Reach'
  BY <1>1 DEF IInv, Reach, Now
<1>5. Flag'
  BY <1>1 DEF IInv, Flag, Unsaid, Now
<1>6. Chain'
  BY <1>1 DEF IInv, Chain, Follows, IsSynth, Now
<1>7. ~AtEnd' => ~AtEnd
  BY <1>1, <1>2 DEF IInv, Heard, AtEnd
<1>8. Heard'
  BY <1>1, <1>2, <1>7 DEF IInv, Heard, IsSynth
<1>9. Left'
  BY <1>1, <1>2 DEF IInv, Left, NothingLeft, Now
<1> QED BY <1>3, <1>4, <1>5, <1>6, <1>8, <1>9 DEF Kept

-----------------------------------------------------------------------------
(* Types, but for the steps, of which TodoType has taken care. *)

ChainRecord == [paused : BOOLEAN, level : Levels, holds : {"nothing", "fresh", "stale"}]
SynthRecord(Places) ==
  [open : BOOLEAN, paused : BOOLEAN, finished : BOOLEAN, seeking : BOOLEAN,
   target : Places, elapsed : Places, level : Levels]
RemoteRecord ==
  [task : {"none", "check", "read", "ended"}, written : 0 .. Length, done : BOOLEAN, cancelled : BOOLEAN]

TypeOfCall ==
  /\ kind \in Kinds /\ opened \in {"no", "yes", "failed", "closed"}
  /\ arg \in [target : 0 .. Length, wasPlaying : BOOLEAN, wasAttached : BOOLEAN]
TypeOfFlags == isPlaying \in BOOLEAN /\ isPaused \in BOOLEAN /\ streamer \in BOOLEAN /\ temp \in BOOLEAN
TypeOfDecoder == volume \in Levels /\ pos \in 0 .. Length /\ chain \in ChainRecord
TypeOfOutput ==
  /\ output \in Entries \cup {None} /\ live \subseteq mixer /\ mixer \subseteq Entries
  /\ pull \subseteq Entries \cup {None}
TypeOfSynth ==
  /\ synth \in SynthRecord(0 .. Length)
  /\ stream \in {"idle", "jump", "render"} /\ snap \in 0 .. Length /\ place \in 0 .. Length
TypeOfRemote == remote \in RemoteRecord

LEMMA TypeParts ==
  TypeOK <=> /\ TypeOfCall /\ TypeOfFlags /\ TypeOfDecoder /\ TypeOfOutput /\ TypeOfSynth /\ TypeOfRemote
             /\ todo \in Seq(Steps)
BY DEF TypeOK, TypeOfCall, TypeOfFlags, TypeOfDecoder, TypeOfOutput, TypeOfSynth, TypeOfRemote,
       ChainRecord, SynthRecord, RemoteRecord

LEMMA ChainUpdates ==
  ASSUME NEW c \in ChainRecord, NEW b \in BOOLEAN, NEW v \in Levels
  PROVE  /\ NewChain(b, v) \in ChainRecord
         /\ [c EXCEPT !.paused = b] \in ChainRecord
         /\ [c EXCEPT !.level = v] \in ChainRecord
         /\ [c EXCEPT !.holds = IF @ = "nothing" THEN @ ELSE "stale"] \in ChainRecord
         /\ [c EXCEPT !.holds = "fresh"] \in ChainRecord
BY DEF ChainRecord, NewChain

LEMMA SynthUpdates ==
  ASSUME NEW Places, 0 \in Places, NEW s \in SynthRecord(Places), NEW x \in Places, NEW v \in Levels
  PROVE  /\ [s EXCEPT !.paused = FALSE, !.finished = FALSE] \in SynthRecord(Places)
         /\ [s EXCEPT !.paused = TRUE] \in SynthRecord(Places)
         /\ [s EXCEPT !.paused = TRUE, !.finished = FALSE, !.elapsed = 0, !.seeking = FALSE] \in SynthRecord(Places)
         /\ [s EXCEPT !.elapsed = x, !.target = x, !.finished = FALSE, !.seeking = TRUE] \in SynthRecord(Places)
         /\ [s EXCEPT !.elapsed = x, !.finished = FALSE] \in SynthRecord(Places)
         /\ [s EXCEPT !.level = v] \in SynthRecord(Places)
         /\ [s EXCEPT !.open = FALSE, !.seeking = FALSE] \in SynthRecord(Places)
         /\ [s EXCEPT !.seeking = FALSE] \in SynthRecord(Places)
         /\ [s EXCEPT !.finished = TRUE] \in SynthRecord(Places)
         /\ [s EXCEPT !.elapsed = x] \in SynthRecord(Places)
         /\ [s EXCEPT !.elapsed = x, !.finished = TRUE] \in SynthRecord(Places)
BY DEF SynthRecord

LEMMA SynthMade ==
  ASSUME NEW Places, 0 \in Places, volume \in Levels
  PROVE  NoSynth \in SynthRecord(Places) /\ NewController \in SynthRecord(Places)
<1>1. NoSynth \in SynthRecord(Places)
  BY DEF NoSynth, SynthRecord, Levels
<1> QED BY <1>1 DEF NewController, SynthRecord

LEMMA CallType == TypeOK /\ [Next]_vars => TypeOfCall'
<1> SUFFICES ASSUME TypeOK, [Next]_vars PROVE TypeOfCall'
  OBVIOUS
<1> USE PlayerAssumption DEF TypeOK, TypeOfCall,
            callVars, playerVars, decoderVars, outputVars, synthVars
<1>1. CASE Caller
  <2>1. CASE SynthSeek \/ OpenmptSeek \/ Sought
    <3>1. arg' = NoArg /\ UNCHANGED <<kind, opened>>
      BY <2>1 DEF SynthSeek, OpenmptSeek, Sought
    <3>2. NoArg \in [target : 0 .. Length, wasPlaying : BOOLEAN, wasAttached : BOOLEAN]
      BY DEF NoArg
    <3> QED BY <3>1, <3>2
  <2>2. CASE OpenFile \/ OpenReader \/ OpenURL \/ Refuse \/ Discard \/ SetupStreamer \/ OpenMIDISynth
           \/ OpenOpenmpt \/ OpenTrackerSynth \/ Detach \/ Attach \/ Unpause \/
           PauseChain \/ MarkPlaying \/ MarkResumed \/ MarkStopped \/ SynthPlay \/
           SynthPause \/ SynthStop \/ SeekDecoder \/ Rebuild \/ MarkSeekFailed \/
           ApplyVolume \/ Release
    <3>1. UNCHANGED <<kind, arg>> /\ opened' \in {"no", "yes", "failed", "closed"}
      BY <2>2 DEF OpenFile, Fail, OpenReader, OpenURL, Refuse, Discard, SetupStreamer, Opened,
         OpenMIDISynth, OpenOpenmpt, OpenTrackerSynth, Detach, Attach, Unpause, SetPaused, PauseChain,
         MarkPlaying, Settle, MarkResumed, MarkStopped, SynthPlay, SynthPause, SynthStop, SeekDecoder,
         Rebuild, MarkSeekFailed, ApplyVolume, Release
    <3> QED BY <3>1
  <2> QED BY <1>1, <2>1, <2>2 DEF Caller
<1>2. CASE Owner
  <2>1. CASE Seek
    <3>1. Playing \in BOOLEAN /\ (output # None) \in BOOLEAN
      BY DEF Playing
    <3>2. PICK t \in 0 .. Length :
             arg' = [target |-> t, wasPlaying |-> Playing, wasAttached |-> output # None]
      BY <2>1 DEF Seek
    <3>3. UNCHANGED <<kind, opened>>
      BY <2>1 DEF Seek, Call
    <3> QED BY <3>1, <3>2, <3>3
  <2>2. CASE Play \/ Pause \/ Resume \/ Stop \/ Toggle \/ SetVolume \/ Close
    BY <2>2 DEF Play, Pause, Resume, Stop, Toggle, SetVolume, Close, Call
  <2> QED BY <1>2, <2>1, <2>2 DEF Owner
<1>3. CASE Audio
  BY <1>3 DEF Audio, AudioBegin, AudioEnd, StreamEntry, StreamDetached, StreamSilence, StreamDecoded,
     StreamOpenmpt, SynthBegin, JumpAgain, Arrive, SynthEnd, TickEnds, JumpFails, Keep, Drop, Served,
     callerVars, Playing, NoArg, None
<1>4. CASE Download
  BY <1>4 DEF Download, DownloadCheck, DownloadRead, SetError, downloadRest, Playing, NoArg, None
<1>5. CASE UNCHANGED vars
  BY <1>5 DEF vars
<1> QED BY <1>1, <1>2, <1>3, <1>4, <1>5 DEF Next

LEMMA FlagsType == TypeOK /\ [Next]_vars => TypeOfFlags'
<1> SUFFICES ASSUME TypeOK, [Next]_vars PROVE TypeOfFlags'
  OBVIOUS
<1> USE PlayerAssumption DEF TypeOK, TypeOfFlags,
            callVars, playerVars, decoderVars, outputVars, synthVars
<1>1. CASE Caller
  BY <1>1 DEF Caller, OpenFile, OpenReader, OpenURL, Fail, Refuse, Discard, Opened, SetupStreamer,
     OpenMIDISynth, OpenOpenmpt, OpenTrackerSynth, Detach, Attach, Unpause, PauseChain, SetPaused,
     MarkPlaying, MarkResumed, MarkStopped, SynthPlay, SynthPause, SynthStop, SynthSeek, OpenmptSeek,
     Settle, SeekDecoder, Rebuild, Sought, MarkSeekFailed, ApplyVolume, Release
<1>2. CASE Owner
  BY <1>2 DEF Owner, Play, Pause, Resume, Stop, Toggle, SetVolume, Seek, Close, Call
<1>3. CASE Audio
  BY <1>3 DEF Audio, AudioBegin, AudioEnd, StreamEntry, StreamDetached, StreamSilence, StreamDecoded,
     StreamOpenmpt, SynthBegin, JumpAgain, Arrive, SynthEnd, TickEnds, JumpFails, Keep, Drop, Served,
     callerVars
<1>4. CASE Download
  BY <1>4 DEF Download, DownloadCheck, DownloadRead, SetError, downloadRest
<1>5. CASE UNCHANGED vars
  BY <1>5 DEF vars
<1> QED BY <1>1, <1>2, <1>3, <1>4, <1>5 DEF Next

LEMMA DecoderType == TypeOK /\ [Next]_vars => TypeOfDecoder'
<1> SUFFICES ASSUME TypeOfDecoder, TypeOK, [Next]_vars PROVE TypeOfDecoder'
  BY TypeParts
<1> USE PlayerAssumption DEF TypeOfDecoder, callVars, playerVars, decoderVars, outputVars, synthVars
<1>1. CASE Caller
  <2>1. CASE SetupStreamer \/ Rebuild
    <3>1. \E b \in BOOLEAN : chain' = NewChain(b, volume)
      BY <2>1, TypeParts DEF SetupStreamer, Rebuild, TypeOfCall
    <3> QED BY <2>1, <3>1, ChainUpdates DEF SetupStreamer, Opened, Rebuild
  <2>2. CASE Unpause \/ PauseChain
    BY <2>2, ChainUpdates DEF Unpause, SetPaused, PauseChain
  <2>3. CASE SeekDecoder
    <3>1. arg.target \in 0 .. Length
      BY DEF TypeOK
    <3> QED BY <2>3, <3>1, ChainUpdates DEF SeekDecoder
  <2>4. CASE ApplyVolume
    <3>1. PICK v \in Levels : volume' = v /\ chain' = [chain EXCEPT !.level = v] /\ pos' = pos
      BY <2>4 DEF ApplyVolume
    <3>2. [chain EXCEPT !.level = v] \in ChainRecord
      BY <3>1, ChainUpdates
    <3> QED BY <3>1, <3>2
  <2>5. CASE OpenFile \/ OpenReader \/ OpenURL \/ Refuse \/ Discard \/ OpenMIDISynth \/ OpenOpenmpt
           \/ OpenTrackerSynth \/ Detach \/ Attach \/ MarkPlaying \/ MarkResumed \/
           MarkStopped \/ SynthPlay \/ SynthPause \/ SynthStop \/ SynthSeek \/
           OpenmptSeek \/ Sought \/ MarkSeekFailed \/ Release
    <3>1. UNCHANGED <<volume, pos, chain>>
      BY <2>5 DEF OpenFile, Fail, OpenReader, OpenURL, Refuse, Discard, OpenMIDISynth, Opened,
         OpenOpenmpt, OpenTrackerSynth, Detach, Attach, MarkPlaying, Settle, MarkResumed, MarkStopped,
         SynthPlay, SynthPause, SynthStop, SynthSeek, OpenmptSeek, Sought, MarkSeekFailed, Release
    <3> QED BY <3>1
  <2> QED BY <1>1, <2>1, <2>2, <2>3, <2>4, <2>5 DEF Caller
<1>2. CASE Owner
  BY <1>2 DEF Owner, Play, Pause, Resume, Stop, Toggle, SetVolume, Seek, Close, Call, NewChain, AtEnd,
     Levels
<1>3. CASE Audio
  <2>1. CASE \E e \in pull \ {None} : StreamDecoded(e) /\ ~AtEnd
    <3>1. pos' = pos + 1 /\ pos # Length /\ volume' = volume
      BY <2>1 DEF StreamDecoded, AtEnd, callerVars
    <3>2. chain' = chain \/ chain' = [chain EXCEPT !.holds = "fresh"]
      BY <2>1 DEF StreamDecoded
    <3>3. chain' \in ChainRecord
      BY <3>2, ChainUpdates
    <3>4. pos' \in 0 .. Length
      BY <3>1
    <3> QED BY <3>1, <3>3, <3>4
  <2>2. CASE ~ \E e \in pull \ {None} : StreamDecoded(e) /\ ~AtEnd
    <3>1. UNCHANGED <<volume, pos, chain>>
      BY <1>3, <2>2 DEF Audio, AudioBegin, AudioEnd, StreamEntry, StreamDetached, StreamSilence,
         StreamDecoded,
         StreamOpenmpt, SynthBegin, JumpAgain, Arrive, SynthEnd, TickEnds, JumpFails, callerVars
    <3> QED BY <3>1
  <2> QED BY <2>1, <2>2
<1>4. CASE Download
  BY <1>4 DEF Download, DownloadCheck, DownloadRead, SetError, downloadRest, NewChain, AtEnd, Levels
<1>5. CASE UNCHANGED vars
  BY <1>5 DEF vars
<1> QED BY <1>1, <1>2, <1>3, <1>4, <1>5 DEF Next

LEMMA OutputType == TypeOK /\ [Next]_vars => TypeOfOutput'
<1> SUFFICES ASSUME TypeOK, [Next]_vars PROVE TypeOfOutput'
  OBVIOUS
<1> USE PlayerAssumption DEF TypeOK, TypeOfOutput,
            callVars, playerVars, decoderVars, outputVars, synthVars
<1>1. CASE Caller
  <2>1. CASE Detach
    BY <2>1 DEF Detach
  <2>2. CASE Attach
    BY <2>2 DEF Attach
  <2>3. CASE ~Detach /\ ~Attach
    <3>1. UNCHANGED <<output, mixer, live, pull>>
      BY <1>1, <2>3 DEF Caller, OpenFile, OpenReader, OpenURL, Refuse, Discard, Opened, SetupStreamer,
         OpenMIDISynth, OpenOpenmpt, OpenTrackerSynth, Unpause, PauseChain, SetPaused, MarkPlaying,
         MarkResumed, MarkStopped, SynthPlay, SynthPause, SynthStop, SynthSeek, OpenmptSeek, Settle,
         SeekDecoder, Rebuild, Sought, MarkSeekFailed, ApplyVolume, Release
    <3> QED BY <3>1
  <2> QED BY <2>1, <2>2, <2>3
<1>2. CASE Owner
  BY <1>2 DEF Owner, Play, Pause, Resume, Stop, Toggle, SetVolume, Seek, Close, Call, Entries, None
<1>3. CASE Audio
  BY <1>3 DEF Audio, AudioBegin, AudioEnd, StreamEntry, StreamDetached, StreamSilence, StreamDecoded,
     StreamOpenmpt, SynthBegin, JumpAgain, Arrive, SynthEnd, TickEnds, JumpFails, Keep, Drop, Served,
     callerVars, Entries, None
<1>4. CASE Download
  BY <1>4 DEF Download, DownloadCheck, DownloadRead, SetError, downloadRest, Entries, None
<1>5. CASE UNCHANGED vars
  BY <1>5 DEF vars
<1> QED BY <1>1, <1>2, <1>3, <1>4, <1>5 DEF Next

LEMMA SynthType == TypeOK /\ [Next]_vars => TypeOfSynth'
<1> SUFFICES ASSUME TypeOfSynth, TypeOfDecoder, TypeOK, [Next]_vars PROVE TypeOfSynth'
  BY TypeParts
<1> USE PlayerAssumption DEF TypeOfSynth, callVars, playerVars, decoderVars, outputVars, synthVars
<1>0. 0 \in 0 .. Length /\ volume \in Levels
  BY DEF TypeOfDecoder
<1> DEFINE Places == 0 .. Length
<1>9. \A x \in Places, v \in Levels :
        /\ [synth EXCEPT !.paused = FALSE, !.finished = FALSE] \in SynthRecord(Places)
        /\ [synth EXCEPT !.paused = TRUE] \in SynthRecord(Places)
        /\ [synth EXCEPT !.paused = TRUE, !.finished = FALSE, !.elapsed = 0, !.seeking = FALSE] \in SynthRecord(Places)
        /\ [synth EXCEPT !.elapsed = x, !.target = x, !.finished = FALSE, !.seeking = TRUE] \in SynthRecord(Places)
        /\ [synth EXCEPT !.elapsed = x, !.finished = FALSE] \in SynthRecord(Places)
        /\ [synth EXCEPT !.level = v] \in SynthRecord(Places)
        /\ [synth EXCEPT !.open = FALSE, !.seeking = FALSE] \in SynthRecord(Places)
        /\ [synth EXCEPT !.seeking = FALSE] \in SynthRecord(Places)
        /\ [synth EXCEPT !.finished = TRUE] \in SynthRecord(Places)
        /\ [synth EXCEPT !.elapsed = x] \in SynthRecord(Places)
        /\ [synth EXCEPT !.elapsed = x, !.finished = TRUE] \in SynthRecord(Places)
  BY <1>0, SynthUpdates
<1>1. CASE Caller
  <2>1. CASE OpenMIDISynth \/ OpenOpenmpt \/ OpenTrackerSynth
    <3>1. NewController \in SynthRecord(0 .. Length)
      BY <1>0, SynthMade
    <3> QED BY <2>1, <3>1 DEF OpenMIDISynth, Opened, OpenOpenmpt, OpenTrackerSynth
  <2>2. CASE SynthPlay \/ SynthPause \/ SynthStop
    BY <1>0, <2>2, <1>9 DEF SynthPlay, Settle, SynthPause, SynthStop
  <2>3. CASE SynthSeek \/ OpenmptSeek
    <3>1. arg.target \in 0 .. Length
      BY DEF TypeOK
    <3> QED BY <1>0, <2>3, <3>1, <1>9 DEF SynthSeek, OpenmptSeek
  <2>4. CASE ApplyVolume \/ Release
    BY <1>0, <2>4, <1>9 DEF ApplyVolume, Release
  <2>5. CASE OpenFile \/ OpenReader \/ OpenURL \/ Refuse \/ Discard \/ SetupStreamer \/ Detach \/
           Attach \/ Unpause \/ PauseChain \/ MarkPlaying \/ MarkResumed \/ MarkStopped
           \/ SeekDecoder \/ Rebuild \/ Sought \/ MarkSeekFailed
    <3>1. UNCHANGED synthVars
      BY <2>5 DEF OpenFile, Fail, OpenReader, OpenURL, Refuse, Discard, SetupStreamer, Opened, Detach,
         Attach, Unpause, SetPaused, PauseChain, MarkPlaying, Settle, MarkResumed, MarkStopped,
         SeekDecoder, Rebuild, Sought, MarkSeekFailed
    <3> QED BY <3>1
  <2> QED BY <1>1, <2>1, <2>2, <2>3, <2>4, <2>5 DEF Caller
<1>2. CASE Owner
  BY <1>2 DEF Owner, Play, Pause, Resume, Stop, Toggle, SetVolume, Seek, Close, Call, NoSynth,
     NewController, Levels
<1>3. CASE Audio
  <2>1. CASE AudioBegin \/ AudioEnd
    BY <2>1 DEF AudioBegin, AudioEnd
  <2>2. ASSUME NEW e \in pull \ {None}, StreamEntry(e) PROVE TypeOfSynth'
    <3>1. CASE StreamDetached(e) \/ StreamSilence(e) \/ StreamDecoded(e)
      BY <3>1 DEF StreamDetached, StreamSilence, StreamDecoded
    <3>2. CASE StreamOpenmpt(e)
      <4>1. synth.elapsed \in 0 .. Length
        BY DEF SynthRecord
      <4>2. CASE synth.finished
        BY <3>2, <4>2 DEF StreamOpenmpt
      <4>3. CASE ~synth.finished /\ (synth.elapsed = Length \/ place = Length)
        <5>1. synth' = [synth EXCEPT !.finished = TRUE] /\ UNCHANGED <<place, stream, snap>>
          BY <3>2, <4>3 DEF StreamOpenmpt
        <5> QED BY <1>0, <5>1, <1>9
      <4>4. CASE ~synth.finished /\ ~(synth.elapsed = Length \/ place = Length)
        <5>1. synth.elapsed + 1 \in 0 .. Length /\ place + 1 \in 0 .. Length
          BY <4>1, <4>4
        <5> QED BY <1>0, <3>2, <4>4, <5>1, <1>9 DEF StreamOpenmpt
      <4> QED BY <4>2, <4>3, <4>4
    <3>3. CASE SynthBegin(e)
      <4>1. synth.elapsed \in 0 .. Length /\ synth.target \in 0 .. Length
        BY DEF SynthRecord
      <4> QED BY <1>0, <3>3, <4>1, <1>9 DEF SynthBegin
    <3>4. CASE JumpAgain(e) \/ Arrive(e)
      <4>1. synth.target \in 0 .. Length
        BY DEF SynthRecord
      <4> QED BY <1>0, <3>4, <4>1, <1>9 DEF JumpAgain, Arrive
    <3>5. CASE SynthEnd(e)
      <4>1. snap < Length => snap + 1 \in 0 .. Length
        OBVIOUS
      <4>2. place < Length => place + 1 \in 0 .. Length
        OBVIOUS
      <4> QED BY <1>0, <3>5, <4>1, <4>2, <1>9 DEF SynthEnd
    <3>6. CASE TickEnds(e) \/ JumpFails(e)
      BY <1>0, <3>6, <1>9 DEF TickEnds, JumpFails
    <3> QED BY <2>2, <3>1, <3>2, <3>3, <3>4, <3>5, <3>6 DEF StreamEntry
  <2> QED BY <1>3, <2>1, <2>2 DEF Audio
<1>4. CASE Download
  BY <1>4 DEF Download, DownloadCheck, DownloadRead, SetError, downloadRest, NoSynth, NewController,
     Levels
<1>5. CASE UNCHANGED vars
  BY <1>5 DEF vars
<1> QED BY <1>1, <1>2, <1>3, <1>4, <1>5 DEF Next

LEMMA RemoteType == TypeOK /\ [Next]_vars => TypeOfRemote'
<1> SUFFICES ASSUME TypeOfRemote, TypeOK, [Next]_vars PROVE TypeOfRemote'
  BY TypeParts
<1> USE PlayerAssumption DEF TypeOfRemote, callVars, playerVars, decoderVars, outputVars, synthVars
<1>1. CASE Caller
  <2>1. CASE OpenURL
    BY <2>1 DEF OpenURL, Fail, RemoteRecord
  <2>2. CASE Discard
    BY <2>2 DEF Discard, RemoteRecord
  <2>3. CASE Release
    BY <2>3 DEF Release, RemoteRecord
  <2>4. CASE OpenFile \/ OpenReader \/ Refuse \/ SetupStreamer \/ OpenMIDISynth \/ OpenOpenmpt \/
           OpenTrackerSynth \/ Detach \/ Attach \/ Unpause \/ PauseChain \/ MarkPlaying
           \/ MarkResumed \/ MarkStopped \/ SynthPlay \/ SynthPause \/ SynthStop \/
           SynthSeek \/ OpenmptSeek \/ SeekDecoder \/ Rebuild \/ Sought \/
           MarkSeekFailed \/ ApplyVolume
    <3>1. UNCHANGED remote
      BY <2>4 DEF OpenFile, Fail, OpenReader, Refuse, SetupStreamer, Opened, OpenMIDISynth, OpenOpenmpt,
         OpenTrackerSynth, Detach, Attach, Unpause, SetPaused, PauseChain, MarkPlaying, Settle,
         MarkResumed, MarkStopped, SynthPlay, SynthPause, SynthStop, SynthSeek, OpenmptSeek,
         SeekDecoder, Rebuild, Sought, MarkSeekFailed, ApplyVolume
    <3> QED BY <3>1
  <2> QED BY <1>1, <2>1, <2>2, <2>3, <2>4 DEF Caller
<1>2. CASE Owner
  BY <1>2 DEF Owner, Play, Pause, Resume, Stop, Toggle, SetVolume, Seek, Close, Call
<1>3. CASE Audio
  BY <1>3 DEF Audio, AudioBegin, AudioEnd, StreamEntry, StreamDetached, StreamSilence, StreamDecoded,
     StreamOpenmpt, SynthBegin, JumpAgain, Arrive, SynthEnd, TickEnds, JumpFails, Keep, Drop, Served,
     callerVars
<1>4. CASE Download
  <2>1. CASE DownloadCheck
    BY <2>1 DEF DownloadCheck, RemoteRecord
  <2>2. CASE DownloadRead
    <3>1. CASE remote.written < Length /\ remote' = [remote EXCEPT !.task = "check", !.written = @ + 1]
      <4>1. remote.written + 1 \in 0 .. Length
        BY <3>1 DEF RemoteRecord
      <4> QED BY <3>1, <4>1 DEF RemoteRecord
    <3>2. CASE remote' = [remote EXCEPT !.task = "ended", !.done = TRUE]
      BY <3>2 DEF RemoteRecord
    <3> QED BY <2>2, <3>1, <3>2 DEF DownloadRead, SetError
  <2> QED BY <1>4, <2>1, <2>2 DEF Download
<1>5. CASE UNCHANGED vars
  BY <1>5 DEF vars
<1> QED BY <1>1, <1>2, <1>3, <1>4, <1>5 DEF Next

-----------------------------------------------------------------------------
(* The invariant and the theorems. *)

LEMMA InitInv == Init => IInv
<1> SUFFICES ASSUME Init PROVE IInv
  OBVIOUS
<1> USE PlayerAssumption DEF Init
<1>1. Script
  BY DEF Script, Opening, IsSynth, Now
<1>2. TypeOK
  <2>1. TypeOfCall
    BY DEF TypeOfCall, NoArg
  <2>2. TypeOfFlags
    BY DEF TypeOfFlags
  <2>3. volume \in Levels
    BY DEF Levels
  <2>4. TypeOfDecoder
    BY <2>3, ChainUpdates DEF TypeOfDecoder, ChainRecord, NewChain
  <2>5. TypeOfOutput
    BY DEF TypeOfOutput, Entries, None
  <2>6. TypeOfSynth
    BY <2>3, SynthMade DEF TypeOfSynth
  <2>7. TypeOfRemote
    BY DEF TypeOfRemote, RemoteRecord, NoRemote
  <2> QED BY <1>1, <2>1, <2>2, <2>4, <2>5, <2>6, <2>7, TodoType, TypeParts
<1>3. Reach /\ Flag
  BY DEF Reach, Flag, Unsaid, Resuming, Now
<1>4. Chain
  BY DEF Chain, NewChain, Follows, Starting, Resuming, Restoring, Now
<1>5. Heard /\ Left
  BY DEF Heard, Left, NothingLeft, Now, NoRemote
<1> QED BY <1>1, <1>2, <1>3, <1>4, <1>5 DEF IInv

\* A step in which nothing happens.
LEMMA QuietStep == IInv /\ UNCHANGED vars => Kept'
<1> SUFFICES ASSUME IInv, UNCHANGED vars PROVE Kept'
  OBVIOUS
<1>1. UNCHANGED <<callerVars, streamer, output, remote, live, chain, synth, pos>>
  BY DEF vars, callVars, playerVars, decoderVars, outputVars, synthVars, callerVars
<1>2. Heard'
  BY <1>1 DEF IInv, Heard, AtEnd, IsSynth, callerVars, callVars
<1> QED BY <1>1, <1>2, ListenStep

LEMMA InvStep == IInv /\ [Next]_vars => IInv'
<1> SUFFICES ASSUME IInv, [Next]_vars PROVE IInv'
  OBVIOUS
<1>1. ASSUME Caller PROVE Kept'
  BY <1>1, OpenFileStep, OpenReaderStep, OpenURLStep, RefuseStep, DiscardStep, OpenedStep,
     DetachStep, AttachStep, UnpauseStep, PauseChainStep, MarkPlayingStep, MarkResumedStep,
     MarkStoppedStep, SynthPlayStep, SynthPauseStep, SynthStopStep, SynthSeekStep, OpenmptSeekStep,
     SeekDecoderStep, RebuildStep, SoughtStep, MarkSeekFailedStep, ApplyVolumeStep, ReleaseStep DEF
     Caller
<1>3. Kept'
  BY <1>1, OwnerStep, AudioStep, DownloadStep, QuietStep DEF Next
<1>4. TypeOfCall' /\ TypeOfFlags' /\ TypeOfDecoder' /\ TypeOfOutput' /\ TypeOfSynth' /\ TypeOfRemote'
  BY CallType, FlagsType, DecoderType, OutputType, SynthType, RemoteType DEF IInv
<1>5. (opened \in {"no", "yes", "failed", "closed"} /\ Script)'
  BY <1>3, <1>4 DEF Kept, TypeOfCall
<1>6. (todo \in Seq(Steps))'
  BY <1>5, TodoType, PTL
<1>7. TypeOK'
  BY <1>4, <1>6, TypeParts, PTL
<1> QED BY <1>3, <1>7 DEF Kept, IInv

\* The invariant holds in every state of the program.
THEOREM Invariance == Spec => []IInv
BY InitInv, InvStep, PTL DEF Spec

\* While a decoder is moved or closed no callback streams it, whatever the owner calls and
\* wherever the callback is; a player that failed to open or was closed leaves neither file,
\* decoder, synthesiser nor download behind (output.go, player.go, remote.go).
THEOREM DecoderIsOwned == Spec => []DecoderOwned
<1>1. IInv => DecoderOwned
  BY DEF IInv, TypeOK, Entries, None, Reach, Left, DecoderOwned, DecoderExclusive
<1> QED BY <1>1, Invariance, PTL

\* Between two calls a decoded track sounds exactly when the player says so, once and at the
\* volume that was set, and nothing read before a seek is heard after it (player.go, output.go).
THEOREM SoundIsTrue == Spec => []SoundTrue
<1>1. ASSUME IInv PROVE FlagsTellSound
  <2> SUFFICES ASSUME Quiet, ~IsSynth PROVE
         /\ Cardinality(live) <= 1
         /\ Playing /\ ~AtEnd => \E e \in mixer : Sounding(e)
         /\ \A e \in mixer : Sounding(e) => Playing /\ e = output /\ chain.level = volume
    BY DEF FlagsTellSound
  <2>1. todo = <<>>
    BY DEF Quiet
  <2>2. output # None => isPlaying /\ chain.paused = isPaused
    BY <1>1, <2>1 DEF IInv, Flag, Unsaid, Chain, Follows, Starting, Resuming, Now
  <2>3. live \subseteq {output} /\ live \subseteq mixer /\ mixer \subseteq Entries
    BY <1>1 DEF IInv, Reach, TypeOK
  <2>4. Cardinality(live) <= 1
    <3>1. IsFiniteSet({output}) /\ Cardinality({output}) = 1
      BY FS_Singleton
    <3> QED BY <2>3, <3>1, FS_Subset
  <2>5. ASSUME Playing, ~AtEnd PROVE \E e \in mixer : Sounding(e)
    <3>1. isPlaying /\ ~isPaused /\ output # None
      BY <1>1, <2>5 DEF Playing, IInv, Flag
    <3>2. output \in live
      BY <1>1, <2>5, <3>1 DEF IInv, Heard
    <3> QED BY <2>2, <2>3, <3>1, <3>2 DEF Sounding, Live, Silenced
  <2>6. ASSUME NEW e \in mixer, Sounding(e) PROVE Playing /\ e = output /\ chain.level = volume
    <3>1. e = output /\ output # None /\ ~chain.paused
      BY <2>3, <2>6 DEF Sounding, Live, Silenced, Entries, None
    <3> QED BY <1>1, <2>2, <3>1 DEF IInv, Chain, Playing
  <2> QED BY <2>4, <2>5, <2>6
<1>2. ASSUME IInv PROVE HeardIsHere
  <2>1. chain.holds = "stale" => output = None
    BY <1>2 DEF IInv, Chain, Reach
  <2>2. output = None => live = {}
    BY <1>2 DEF IInv, TypeOK, Reach, Entries, None
  <2> QED BY <2>1, <2>2 DEF HeardIsHere
<1> QED BY <1>1, <1>2, Invariance, PTL DEF SoundTrue

-----------------------------------------------------------------------------
(* Formats: what a file is taken for, and what of it is audio. *)

\* What is detected of a content by itself.
LEMMA Detection ==
  ASSUME NEW Name, NEW file \in FilesNamed(Name), NEW library \in BOOLEAN,
         NEW ext, ext = F!Detect(file, library)
  PROVE  /\ file.content \in {"xm", "it", "s3m", "mod", "mp3", "mp2", "wav", "flac", "opus", "ape"}
              => ext = file.content
         /\ file.content = "mptm" => ext = "it"
         /\ file.content = "vorbis" => ext = "ogg"
         /\ file.content = "midi" => ext = "mid"
         /\ file.content \in {"m4a", "mp42", "isom"} => ext = "m4a"
         /\ file.content = "mtm" => ext = IF library THEN "mod" ELSE F!Unknown
         /\ file.content \in {"m4b", "text"} => ext = F!Unknown
<1>1. file.content \in Contents /\ (file.id3 = "none" \/ file.content \in {"mp3", "mp2", "ape"})
  BY DEF FilesNamed
<1>2. CASE file.id3 = "none"
  BY <1>1, <1>2 DEF F!Detect, F!FTYPProbe, F!OpenmptProbe, F!Modules, F!Unknown, Contents
<1>3. CASE file.id3 # "none"
  <2>1. /\ file.content \in {"mp3", "mp2", "ape"}
        /\ file.content = "mp3" \/ file.id3 = "short"
    BY <1>1, <1>3 DEF FilesNamed
  <2>2. ext = file.content
    BY <1>3, <2>1 DEF F!Detect, F!BehindID3, F!MP2Probe, F!APEProbe
  <2> QED BY <2>1, <2>2
<1> QED BY <1>2, <1>3

LEMMA SyntheticNames ==
  /\ \A ext \in {"xm", "it", "s3m", "mod", "mid"} : F!Synthetic(ext)
  /\ \A ext \in {"mp3", "mp2", "wav", "flac", "opus", "ape", "ogg", "m4a"} :
       ~F!Synthetic(ext) /\ ext \in DOMAIN F!Needs /\ (ext # "ape" => F!Needs[ext] # "file")
  /\ \A ext \in DOMAIN F!Needs : ~F!Synthetic(ext)
  /\ F!Unknown \notin DOMAIN F!Needs /\ ~F!Synthetic(F!Unknown)
BY DEF F!Synthetic, F!Needs, F!Modules, F!Unknown

\* The end of an MP3 is where its tags begin, whatever tags it has and of what size.
THEOREM EveryTailIsHidden ==
  ASSUME NEW f \in [audio : Nat \ {0}, header : {0, 1}, items : Nat, footer : {0, 1}, id3v1 : {0, 4}],
         f.footer = 0 => f.items = 0 /\ f.header = 0
  PROVE  F!SeesTheAudio(f)
<1>1. PICK audio \in Nat \ {0}, header \in {0, 1}, items \in Nat, footer \in {0, 1}, id3v1 \in {0, 4} :
        /\ f.audio = audio /\ f.header = header /\ f.items = items /\ f.footer = footer
        /\ f.id3v1 = id3v1 /\ (footer = 0 => items = 0 /\ header = 0)
  OBVIOUS
<1>2. F!SizeOf(f) = audio + header + items + footer + id3v1
  BY <1>1 DEF F!SizeOf
<1>3. F!AudioLimit(f) = audio
  <2>1. CASE footer = 0 /\ id3v1 = 0
    <3>1. F!FooterPosition(f) = 0
      BY <1>1, <2>1 DEF F!FooterPosition
    <3> QED BY <1>1, <1>2, <2>1, <3>1 DEF F!AudioLimit
  <2>2. CASE footer = 0 /\ id3v1 = 4
    <3>1. F!FooterPosition(f) = 0
      BY <1>1, <2>2 DEF F!FooterPosition
    <3> QED BY <1>1, <1>2, <2>2, <3>1 DEF F!AudioLimit, F!ID3v1Size
  <2>3. CASE footer = 1
    <3>1. F!FooterPosition(f) = audio + header + items + 1
      BY <1>1, <1>2, <2>3 DEF F!FooterPosition, F!ID3v1Size
    <3>2. F!APETagStart(f) = audio
      BY <1>1, <3>1 DEF F!APETagStart
    <3> QED BY <1>1, <3>1, <3>2 DEF F!AudioLimit
  <2> QED BY <2>1, <2>2, <2>3
<1>4. ASSUME NEW from \in Nat, NEW n \in 1 .. 3
      PROVE  F!BoundedRead(f, from, n) = Cardinality({i \in from + 1 .. from + n : i <= f.audio})
  <2>1. PICK rest \in Int : rest = F!Min({n, audio - from}) /\ rest = IF n <= audio - from THEN n ELSE audio - from
    <3>1. F!Min({n, audio - from}) = IF n <= audio - from THEN n ELSE audio - from
      <4>1. \E m \in {n, audio - from} : \A y \in {n, audio - from} : m =< y
        OBVIOUS
      <4>2. PICK m : m = F!Min({n, audio - from}) /\ m \in {n, audio - from} /\ \A y \in {n, audio - from} : m =< y
        BY <4>1 DEF F!Min
      <4> QED BY <4>2
    <3> QED BY <3>1
  <2>2. F!Max({0, rest}) = IF rest >= 0 THEN rest ELSE 0
    <3>1. \E m \in {0, rest} : \A y \in {0, rest} : m >= y
      OBVIOUS
    <3>2. PICK m : m = F!Max({0, rest}) /\ m \in {0, rest} /\ \A y \in {0, rest} : m >= y
      BY <3>1 DEF F!Max
    <3> QED BY <3>2
  <2>3. F!BoundedRead(f, from, n) = F!Max({0, rest})
    BY <1>3, <2>1 DEF F!BoundedRead
  <2>4. {i \in from + 1 .. from + n : i <= f.audio} = from + 1 .. from + rest
    BY <1>1, <2>1
  <2>5. Cardinality(from + 1 .. from + rest) = IF from + 1 > from + rest THEN 0 ELSE from + rest - (from + 1) + 1
    BY FS_Interval
  <2>6. (IF from + 1 > from + rest THEN 0 ELSE from + rest - (from + 1) + 1)
          = IF rest >= 0 THEN rest ELSE 0
    OBVIOUS
  <2> QED BY <2>2, <2>3, <2>4, <2>5, <2>6
<1>5. \A from \in 0 .. F!SizeOf(f) : from \in Nat
  BY <1>1, <1>2
<1>6. \A S : F!Cardinality(S) = Cardinality(S)
  BY Zenon DEF F!Cardinality, Cardinality
<1>7. \A from \in 0 .. F!SizeOf(f), n \in 1 .. 3 :
        F!BoundedRead(f, from, n) = F!Cardinality({i \in from + 1 .. from + n : i <= f.audio})
  BY <1>4, <1>5, <1>6
<1> QED BY <1>7 DEF F!SeesTheAudio

\* Which engine gets a module, and that no file is played by the built-in one but those it
\* can load.
LEMMA Engines ==
  ASSUME NEW content \in Contents, NEW pathExt, NEW ext, NEW library \in BOOLEAN, NEW backend,
         NEW r, r = F!OpenSynthetic(content, pathExt, ext, library, backend)
  PROVE  /\ r.by = "gotracker" => content \in F!Modules
         /\ ext \in {"mid", "midi"} /\ content = "midi" => r = F!By("soundfont", ext)
         /\ ext \notin {"mid", "midi"} =>
              \/ r = F!Refused /\ (~F!GotrackerSupports(pathExt) \/ content \notin F!Modules)
              \/ r = F!By("gotracker", ext) /\ content \in F!Modules
              \/ r = F!By("openmpt", ext) /\ content \in F!Modules \cup {"mptm", "mtm"}
<1>1. \A who, e : F!By(who, e).by = who /\ F!Refused.by = "nobody"
  BY DEF F!By, F!Refused
<1>2. CASE ext \in {"mid", "midi"}
  <2>1. r = IF content = "midi" THEN F!By("soundfont", ext) ELSE F!Refused
    BY <1>2 DEF F!OpenSynthetic
  <2> QED BY <1>1, <1>2, <2>1
<1>3. CASE ext \notin {"mid", "midi"}
  <2>1. \/ r = F!By("openmpt", ext) /\ content \in F!Modules \cup {"mptm", "mtm"}
        \/ r = F!Gotracker(content, pathExt, ext)
    BY <1>3 DEF F!OpenSynthetic
  <2>2. CASE r = F!Gotracker(content, pathExt, ext)
    <3>1. \/ r = F!Refused /\ (~F!GotrackerSupports(pathExt) \/ content \notin F!Modules)
          \/ r = F!By("gotracker", ext) /\ content \in F!Modules
      BY <2>2 DEF F!Gotracker, F!TrackerLoads
    <3> QED BY <1>1, <1>3, <3>1
  <2>3. CASE r = F!By("openmpt", ext) /\ content \in F!Modules \cup {"mptm", "mtm"}
    BY <1>1, <1>3, <2>3
  <2> QED BY <2>1, <2>2, <2>3
<1> QED BY <1>2, <1>3

LEMMA Decoders ==
  ASSUME NEW file, NEW library, NEW ext
  PROVE  /\ F!Decode(file, library).by # "gotracker" /\ F!DecodeFromReader(ext).by # "gotracker"
         /\ F!Detect(file, library) \in DOMAIN F!Needs
              => F!Decode(file, library) = F!By("decoder", F!Detect(file, library))
         /\ ext \in DOMAIN F!Needs /\ F!Needs[ext] # "file"
              => F!DecodeFromReader(ext) = F!By("decoder", ext)
<1>1. \A e : F!By("decoder", e).by = "decoder" /\ F!Refused.by = "nobody"
  BY DEF F!By, F!Refused
<1>2. F!Decode(file, library) = F!Refused \/ \E e : F!Decode(file, library) = F!By("decoder", e)
  BY DEF F!Decode
<1>3. F!DecodeFromReader(ext) = F!Refused \/ F!DecodeFromReader(ext) = F!By("decoder", ext)
  BY DEF F!DecodeFromReader
<1>4. F!Detect(file, library) \in DOMAIN F!Needs
        => F!Decode(file, library) = F!By("decoder", F!Detect(file, library))
  <2>1. F!Unknown \notin DOMAIN F!Needs
    BY SyntheticNames
  <2> QED BY <2>1 DEF F!Decode
<1>5. ext \in DOMAIN F!Needs /\ F!Needs[ext] # "file" => F!DecodeFromReader(ext) = F!By("decoder", ext)
  BY DEF F!DecodeFromReader
<1> QED BY <1>1, <1>2, <1>3, <1>4, <1>5

\* A file given to Open, by its path or under the name of what was detected.
OpenedRight(file, r, library, backend) ==
  /\ r.by = "gotracker" => file.content \in F!Modules
  /\ F!Detect(file, library) # F!Unknown =>
       /\ r \in F!Plays(file.content, library, backend) \cup {F!Refused}
       /\ file.content \notin {"mptm", "mtm"} => r.by # "nobody" \/ ~F!GotrackerSupports(file.folded)

LEMMA OpenFits ==
  ASSUME NEW Name, NEW file \in FilesNamed(Name), NEW library \in BOOLEAN, NEW backend,
         NEW r, r = F!Open(file, library, backend)
  PROVE  OpenedRight(file, r, library, backend)
<1>1. file.content \in Contents
  BY DEF FilesNamed
<1>2. PICK seen : seen = F!Detect(file, library)
  OBVIOUS
<1>3. PICK ext : ext = (IF seen = F!Unknown THEN file.name ELSE seen)
  OBVIOUS
<1>4. r = IF F!Synthetic(ext) THEN F!OpenSynthetic(file.content, file.folded, ext, library, backend)
          ELSE F!Decode(file, library)
  BY <1>2, <1>3 DEF F!Open
<1>5. r.by = "gotracker" => file.content \in F!Modules
  <2>1. CASE F!Synthetic(ext)
    <3>1. r = F!OpenSynthetic(file.content, file.folded, ext, library, backend)
      BY <1>4, <2>1
    <3>2. F!OpenSynthetic(file.content, file.folded, ext, library, backend).by = "gotracker"
            => file.content \in F!Modules
      BY <1>1, Engines
    <3> QED BY <3>1, <3>2
  <2>2. CASE ~F!Synthetic(ext)
    <3>1. r = F!Decode(file, library)
      BY <1>4, <2>2
    <3> QED BY <3>1, Decoders
  <2> QED BY <2>1, <2>2
<1>6. \A who, e : F!By(who, e).by = who /\ F!Refused.by = "nobody"
  BY DEF F!By, F!Refused
<1>7. ASSUME seen # F!Unknown
      PROVE  /\ r \in F!Plays(file.content, library, backend) \cup {F!Refused}
             /\ file.content \notin {"mptm", "mtm"} => r.by # "nobody" \/ ~F!GotrackerSupports(file.folded)
  <2>1. ext = seen
    BY <1>3, <1>7
  <2>2. CASE file.content \in {"mp3", "mp2", "wav", "flac", "opus", "ape"}
    <3>1. ext = file.content
      BY <1>2, <2>1, <2>2, Detection
    <3>2. ext \in DOMAIN F!Needs /\ ~F!Synthetic(ext)
      BY <2>2, <3>1, SyntheticNames
    <3>3. r = F!By("decoder", file.content)
      BY <1>2, <1>4, <2>1, <3>1, <3>2, Decoders
    <3>4. F!Plays(file.content, library, backend) = {F!By("decoder", file.content)}
      BY <2>2 DEF F!Plays, F!Modules
    <3> QED BY <1>6, <2>2, <3>3, <3>4
  <2>3. CASE file.content = "vorbis"
    <3>1. ext = "ogg"
      BY <1>2, <2>1, <2>3, Detection
    <3>2. r = F!By("decoder", "ogg")
      BY <1>2, <1>4, <2>1, <3>1, SyntheticNames, Decoders
    <3>3. F!By("decoder", "ogg") \in F!Plays(file.content, library, backend)
      BY <2>3 DEF F!Plays, F!Modules
    <3> QED BY <1>6, <2>3, <3>2, <3>3
  <2>4. CASE file.content \in {"m4a", "mp42", "isom"}
    <3>1. ext = "m4a"
      BY <1>2, <2>1, <2>4, Detection
    <3>2. r = F!By("decoder", "m4a")
      BY <1>2, <1>4, <2>1, <3>1, SyntheticNames, Decoders
    <3>3. F!By("decoder", "m4a") \in F!Plays(file.content, library, backend)
      BY <2>4 DEF F!Plays, F!Modules
    <3> QED BY <1>6, <2>4, <3>2, <3>3
  <2>5. CASE file.content = "midi"
    <3>1. ext = "mid"
      BY <1>2, <2>1, <2>5, Detection
    <3>2. r = F!By("soundfont", "mid")
      <4>1. F!Synthetic(ext)
        BY <3>1, SyntheticNames
      <4>2. r = F!OpenSynthetic(file.content, file.folded, ext, library, backend)
        BY <1>4, <4>1
      <4> QED BY <1>1, <2>5, <3>1, <4>2, Engines
    <3>3. F!By("soundfont", "mid") \in F!Plays(file.content, library, backend)
      BY <2>5 DEF F!Plays, F!Modules
    <3> QED BY <1>6, <2>5, <3>2, <3>3
  <2>6. CASE file.content \in {"xm", "it", "s3m", "mod", "mptm", "mtm"}
    <3>1. ext \in {"xm", "it", "s3m", "mod"}
      BY <1>2, <1>7, <2>1, <2>6, Detection
    <3>2. F!Synthetic(ext) /\ ext \notin {"mid", "midi"}
      BY <3>1, SyntheticNames
    <3>3. \/ r = F!Refused /\ (~F!GotrackerSupports(file.folded) \/ file.content \notin F!Modules)
          \/ r = F!By("gotracker", ext) /\ file.content \in F!Modules
          \/ r = F!By("openmpt", ext) /\ file.content \in F!Modules \cup {"mptm", "mtm"}
      BY <1>1, <1>4, <3>2, Engines
    <3>4. \A engine \in {"openmpt", "gotracker"} :
            F!By(engine, ext) \in F!Plays(file.content, library, backend)
      BY <2>6, <3>1 DEF F!Plays, F!Modules
    <3>5. r \in F!Plays(file.content, library, backend) \cup {F!Refused}
      BY <3>3, <3>4
    <3>6. file.content \notin {"mptm", "mtm"} => r.by # "nobody" \/ ~F!GotrackerSupports(file.folded)
      BY <1>6, <2>6, <3>3 DEF F!Modules
    <3> QED BY <3>5, <3>6
  <2>7. CASE file.content \in {"m4b", "text"}
    BY <1>2, <1>7, <2>7, Detection
  <2> QED BY <1>1, <2>2, <2>3, <2>4, <2>5, <2>6, <2>7 DEF Contents
<1> QED BY <1>2, <1>5, <1>7 DEF OpenedRight

\* Every file, of whatever name and with any tag, is opened as what it is, from disk and from
\* stdin, with libopenmpt and without, whichever engine is asked for.
THEOREM EveryFileOpensAsItIs ==
  ASSUME NEW Name, {"xm", "it", "s3m", "mod", "mid", "mp3", "mp2", "wav", "flac", "opus", "ogg", "m4a", "ape"} \subseteq Name,
         NEW file \in FilesNamed(Name), NEW library \in BOOLEAN, NEW backend
  PROVE  F!OpensWhatItIs(file, library, backend)
<1>1. PICK ext : ext = F!Detect(file, library)
  OBVIOUS
<1>2. PICK byName : byName = F!Open(file, library, backend)
  OBVIOUS
<1>3. PICK piped : piped = F!OpenReader(file, library, backend)
  OBVIOUS
<1>4. PICK temporary : temporary = [file EXCEPT !.name = ext, !.folded = ext]
  OBVIOUS
<1>5. file.content \in Contents
  BY DEF FilesNamed
<1>6. /\ byName.by = "gotracker" => file.content \in F!Modules
      /\ ext # F!Unknown =>
           /\ byName \in F!Plays(file.content, library, backend) \cup {F!Refused}
           /\ file.content \notin {"mptm", "mtm"} => byName.by # "nobody" \/ ~F!GotrackerSupports(file.folded)
  BY <1>1, <1>2, OpenFits DEF OpenedRight
<1>7. \A who, e : F!By(who, e).by = who /\ F!Refused.by = "nobody"
  BY DEF F!By, F!Refused
<1>8. /\ file.content \in {"xm", "it", "s3m", "mod", "mp3", "mp2", "wav", "flac", "opus", "ape"}
           => ext = file.content
      /\ file.content = "mptm" => ext = "it"
      /\ file.content = "vorbis" => ext = "ogg"
      /\ file.content = "midi" => ext = "mid"
      /\ file.content \in {"m4a", "mp42", "isom"} => ext = "m4a"
      /\ file.content = "mtm" => ext = IF library THEN "mod" ELSE F!Unknown
      /\ file.content \in {"m4b", "text"} => ext = F!Unknown
  BY <1>1, Detection
<1>9. piped = IF ext = F!Unknown THEN F!Refused
              ELSE IF F!Synthetic(ext) \/ ext = "ape" THEN F!Open(temporary, library, backend)
              ELSE F!DecodeFromReader(ext)
  BY <1>1, <1>3, <1>4 DEF F!OpenReader
<1>10. ASSUME ext # F!Unknown, F!Synthetic(ext) \/ ext = "ape"
       PROVE  /\ piped \in F!Plays(file.content, library, backend) \cup {F!Refused}
              /\ piped.by # "nobody" \/ file.content \in {"mptm", "mtm"}
              /\ piped.by = "gotracker" => file.content \in F!Modules
  <2>1. ext \in {"xm", "it", "s3m", "mod", "mid", "ape"}
    BY <1>5, <1>8, <1>10, SyntheticNames DEF Contents
  <2>2. /\ temporary \in FilesNamed(Name)
        /\ temporary.content = file.content /\ temporary.id3 = file.id3 /\ temporary.folded = ext
    BY <1>4, <2>1 DEF FilesNamed
  <2>3. F!Detect(temporary, library) = ext
    BY <1>1, <2>2 DEF F!Detect, F!BehindID3, F!MP2Probe, F!APEProbe
  <2>4. piped = F!Open(temporary, library, backend)
    BY <1>9, <1>10
  <2>5. OpenedRight(temporary, piped, library, backend)
    BY <2>2, <2>4, OpenFits
  <2>6. F!GotrackerSupports(ext)
    BY <2>1, SyntheticNames DEF F!GotrackerSupports, F!Modules
  <2> QED BY <1>10, <2>2, <2>3, <2>5, <2>6 DEF OpenedRight
<1>11. ASSUME ext # F!Unknown, ~F!Synthetic(ext), ext # "ape"
       PROVE  /\ piped \in F!Plays(file.content, library, backend) \cup {F!Refused}
              /\ piped.by # "nobody" /\ piped.by # "gotracker"
  <2>1. ext \in {"mp3", "mp2", "wav", "flac", "opus", "ogg", "m4a"}
    BY <1>5, <1>8, <1>11, SyntheticNames DEF Contents
  <2>2. piped = F!By("decoder", ext)
    BY <1>9, <1>11, <2>1, SyntheticNames, Decoders
  <2>3. /\ file.content \in {"mp3", "mp2", "wav", "flac", "opus"} => ext = file.content
        /\ file.content \in {"mp3", "mp2", "wav", "flac", "opus", "vorbis", "m4a", "mp42", "isom"}
    <3>1. ~F!Synthetic(ext) => file.content \notin {"xm", "it", "s3m", "mod", "mptm", "midi"}
      BY <1>8, SyntheticNames
    <3> QED BY <1>5, <1>8, <1>11, <2>1, <3>1, SyntheticNames DEF Contents
  <2>4. F!By("decoder", ext) \in F!Plays(file.content, library, backend)
    <3>1. CASE file.content \in {"mp3", "mp2", "wav", "flac", "opus"}
      BY <2>3, <3>1 DEF F!Plays, F!Modules
    <3>2. CASE file.content = "vorbis"
      BY <1>8, <3>2 DEF F!Plays, F!Modules
    <3>3. CASE file.content \in {"m4a", "mp42", "isom"}
      BY <1>8, <3>3 DEF F!Plays, F!Modules
    <3> QED BY <2>3, <3>1, <3>2, <3>3
  <2> QED BY <1>7, <2>2, <2>4
<1>12. ext = F!Unknown => piped = F!Refused
  BY <1>9
<1>13. ext # F!Unknown =>
         /\ piped \in F!Plays(file.content, library, backend) \cup {F!Refused}
         /\ piped.by # "nobody" \/ file.content \in {"mptm", "mtm"}
  BY <1>10, <1>11
<1>14. piped.by = "gotracker" => file.content \in F!Modules
  BY <1>7, <1>10, <1>11, <1>12
<1> QED BY <1>1, <1>2, <1>3, <1>6, <1>13, <1>14 DEF F!OpensWhatItIs

\* Whatever files there are, an open track is what its file is, and none of its tags is heard:
\* the two theorems above (detection, registry, mp3TrailingTagStart).
THEOREM FilesOpenAsTheyAre == Spec => []OpenedAsItIs
<1>1. EveryFileOpened
  <2> DEFINE Known == {"xm", "it", "s3m", "mod", "mid", "mp3", "mp2", "wav", "flac", "opus", "ogg", "m4a", "ape"}
             Name == Known \cup {f.name : f \in Files} \cup {f.folded : f \in Files}
  <2>1. ASSUME NEW f \in Files PROVE f \in FilesNamed(Name)
    <3>1. f \in FilesNamed(STRING) /\ f.name \in Name /\ f.folded \in Name
      BY FilesAssumption
    <3> HIDE DEF Name
    <3> QED BY <3>1 DEF FilesNamed
  <2>2. Known \subseteq Name
    OBVIOUS
  <2> HIDE DEF Name
  <2> QED BY <2>1, <2>2, EveryFileOpensAsItIs DEF EveryFileOpened
<1>2. EveryTailHidden
  BY FilesAssumption, EveryTailIsHidden DEF EveryTailHidden, MP3Type
<1>3. OpenedAsItIs
  BY <1>1, <1>2 DEF OpenedAsItIs
<1> QED BY <1>3, PTL

=============================================================================
