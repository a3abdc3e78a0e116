--------------------------- MODULE StartupProofs ---------------------------
(***************************************************************************)
(* Theorems about Startup and its Wizard, for any number of sessions of    *)
(* the window, questions, requests, dropped tracks and saves, and a queue  *)
(* of events of any length.                                                *)
(***************************************************************************)
EXTENDS Startup, FiniteSetTheorems, SequenceTheorems, TLAPS

Events ==
  [kind : {"connected", "disconnected"}, session : 1 .. MaxSession]
    \cup [kind : {"request"}, session : 1 .. MaxSession, msg : Requests]

-----------------------------------------------------------------------------
(* The inductive invariant. *)

\* The events that wait are events of sessions there were. Every load but the first was
\* asked for by a drop or by a request that no longer waits.
Waiting(q) == {i \in 1 .. Len(q) : q[i].kind = "request"}
Typed ==
  /\ incoming \in Seq(Events) /\ player \in Nat
  /\ sessions \in 0 .. MaxSession /\ server \in {0, sessions} /\ session <= sessions
  /\ requests \in 0 .. MaxRequest /\ drops \in 0 .. MaxDrop
  /\ generation + Cardinality(Waiting(incoming)) <= drops + requests

\* The form, the phase and the player say the same of where the program is.
InStep ==
  /\ Setup <=> phase \in {"starting", "wizard"}
  /\ Setup <=> player = 0
  /\ phase = "initial_loading" /\ player \in open => loading /\ generation \in results

\* While the window is awaited the form is as it was. Nothing is saved before it is complete.
Unsaved == ~saving /\ ~saveError /\ \A j \in Saves : save[j] = "idle"
Awaiting ==
  /\ awaitGUI =>
       /\ phase = "starting" /\ form \in {"icons", "aborted"} /\ ~ending /\ pending = 0
       /\ checks = {} /\ Unsaved
  /\ Setup /\ form # "completed" => Unsaved

Told ==
  /\ lastPhase = told
  /\ Live /\ Reached => told = [phase |-> phase, session |-> session]

\* A controller is with the host before there is a player, and then with the player that
\* is open, until another takes that one's place; a closed host has neither.
Held ==
  /\ mc = "held" => player = 0
  /\ mc = "used" => player \in open
  /\ closed => player \notin open /\ mc \notin {"held", "used"}
  /\ loop = "exited" => closed

\* What the host heard of the window is behind what the server knows: as long as the form
\* is shown, the end of the host's session is under way unless the server still serves it,
\* and comes before any other session.
Begun(i) == incoming[i].kind = "connected"
Ended(i) == incoming[i] = [kind |-> "disconnected", session |-> session]
Places == 1 .. Len(incoming)
Ordered ==
  /\ \A i \in Places : Begun(i) => incoming[i].session <= sessions
  /\ \A i, j \in Places : i < j /\ Begun(i) /\ Begun(j) =>
       incoming[i].session < incoming[j].session
  /\ Live /\ Setup /\ session # 0 =>
       /\ session # server => \E i \in Places : Ended(i)
       /\ \A i \in Places : Begun(i) => \E j \in Places : j < i /\ Ended(j)

\* The form has the window's chooser as long as the host has the window.
Chooser ==
  Setup => /\ native = guiNative
           /\ native => session # 0
           /\ pending # 0 => native

IInv ==
  /\ TypeOK /\ Typed /\ InStep /\ Awaiting /\ Told /\ Held /\ Ordered /\ Chooser
  /\ PendingAnswerable

-----------------------------------------------------------------------------
(* The parts of the type invariant, and what the helpers do to them. *)

TypeFlags ==
  /\ closed \in BOOLEAN /\ hint \in BOOLEAN /\ timer \in BOOLEAN /\ guiNative \in BOOLEAN
  /\ awaitGUI \in BOOLEAN /\ saving \in BOOLEAN /\ saveError \in BOOLEAN
  /\ path \in BOOLEAN /\ deferred \in BOOLEAN /\ loading \in BOOLEAN
TypeSave == save \in [Saves -> {"idle", "running", "ok", "failed"}]
TypeLoop ==
  /\ loop \in {"running", "quitting", "forced", "ended", "failed", "exited", "killed"}
  /\ mc \in {"starting", "held", "used", "dropped", "late", "closed", "lost"}
TypePlayer == open \in SUBSET (1 .. player) /\ generation \in Generation /\ results \in SUBSET Generation
TypeWindow ==
  /\ phase \in Phases
  /\ session \in 0 .. MaxSession /\ server \in 0 .. MaxSession /\ sessions \in 0 .. MaxSession
  /\ pickerID \in 0 .. MaxPick
TypeTold == lastPhase.phase \in Phases \cup {"none"} /\ told.phase \in Phases \cup {"none"}
TypeQueue == Len(incoming) <= MaxQueue

LEMMA TypeParts ==
  TypeOK <=> /\ WizardTypeOK /\ TypeFlags /\ TypeSave /\ TypeLoop /\ TypePlayer /\ TypeWindow
             /\ TypeTold /\ TypeQueue
BY DEF TypeOK, TypeFlags, TypeSave, TypeLoop, TypePlayer, TypeWindow, TypeTold, TypeQueue

\* After Publish the window of the session has been told of the phase, or cannot be.
LEMMA PublishTells ==
  ASSUME Told, TypeTold, NEW force \in BOOLEAN, NEW now \in Phases, Publish(force, now)
  PROVE  /\ lastPhase' = told' /\ TypeTold'
         /\ Reached => told' = [phase |-> now, session |-> session]
<1> DEFINE news == [phase |-> now, session |-> session]
<1>1. news.phase = now
  OBVIOUS
<1>2. IF Reached /\ (force \/ lastPhase # news)
        THEN lastPhase' = news /\ told' = news
        ELSE UNCHANGED toldVars
  BY DEF Publish
<1> HIDE DEF news
<1>3. CASE Reached /\ (force \/ lastPhase # news)
  BY <1>1, <1>2, <1>3 DEF TypeTold, news
<1>4. CASE ~(Reached /\ (force \/ lastPhase # news))
  <2>1. lastPhase' = lastPhase /\ told' = told
    BY <1>2, <1>4 DEF toldVars
  <2> QED BY <1>4, <2>1 DEF Told, TypeTold, news
<1> QED BY <1>3, <1>4

LEMMA WaitingFinite ==
  ASSUME NEW q \in Seq(Events) PROVE IsFiniteSet(Waiting(q))
<1> DEFINE n == Len(q)
<1>1. n \in Nat
  OBVIOUS
<1>2. Waiting(q) \subseteq 1 .. n
  BY DEF Waiting
<1> HIDE DEF n
<1>3. IsFiniteSet(1 .. n)
  BY <1>1, FS_Interval
<1> QED BY <1>2, <1>3, FS_Subset

\* What is said of the queue and of the sessions, when neither changes.
LEMMA QueueFrame ==
  ASSUME IInv, UNCHANGED <<incoming, sessions, session, requests>>, server' \in {server, 0},
         player' \in Nat, drops' \in 0 .. MaxDrop, generation' \in Nat,
         generation' + drops <= generation + drops',
         Live' /\ Setup' => Live /\ Setup /\ server' = server
  PROVE  Typed' /\ Ordered' /\ TypeQueue'
<1>1. Typed'
  <2> DEFINE n == Cardinality(Waiting(incoming))
  <2>1. n \in Nat
    <3>1. incoming \in Seq(Events)
      BY DEF IInv, Typed
    <3> QED BY <3>1, WaitingFinite, FS_CardinalityType
  <2>2. Cardinality(Waiting(incoming))' = n
    OBVIOUS
  <2>4. generation + n <= drops + requests
    BY DEF IInv, Typed
  <2> HIDE DEF n
  <2>3. generation' + n <= drops' + requests
    <3>1. generation \in Nat /\ drops \in Nat /\ requests \in Nat /\ drops' \in Nat
      BY StartupAssumption DEF IInv, TypeOK, Generation, Typed
    <3>2. \A g, h, d, e, r, m \in Nat : h + d <= g + e /\ g + m <= d + r => h + m <= e + r
      OBVIOUS
    <3> QED BY <2>1, <2>4, <3>1, <3>2
  <2> QED BY <2>2, <2>3 DEF IInv, Typed
<1>2. Ordered'
  <2>1. /\ \A i \in Places : Begun(i) => incoming[i].session <= sessions
        /\ \A i, j \in Places : i < j /\ Begun(i) /\ Begun(j) => incoming[i].session < incoming[j].session
    BY DEF IInv, Ordered
  <2>2. CASE Live' /\ Setup'
    BY <2>2 DEF IInv, Ordered, Begun, Ended, Places
  <2>3. CASE ~(Live' /\ Setup')
    BY <2>1, <2>3 DEF Ordered, Begun, Places
  <2> QED BY <2>2, <2>3
<1>3. TypeQueue'
  BY TypeParts DEF IInv, TypeQueue
<1> QED BY <1>1, <1>2, <1>3

\* The invariant of the next state, part by part.
LEMMA Joined ==
  ASSUME WizardTypeOK', TypeFlags', TypeSave', TypeLoop', TypePlayer', TypeWindow', TypeTold', TypeQueue',
         Typed', InStep', Awaiting', Told', Held', Ordered', Chooser', PendingAnswerable'
  PROVE  IInv'
BY DEF IInv, TypeOK, TypeFlags, TypeSave, TypeLoop, TypePlayer, TypeWindow, TypeTold, TypeQueue

-----------------------------------------------------------------------------
(* What reaches the form. *)

\* The answers to the question that is asked, when there is one.
Answerable == \/ pending \in asks
              \/ pending = pickerID /\ session # 0
              \/ \E c \in checks : c.id = pending

\* A step of the form, whoever made it: it stays a form, keeps its chooser, and asks
\* nothing that cannot be answered before it is complete; while the window is awaited it
\* can only be given up.
FormMoves ==
  /\ WizardTypeOK' /\ form' # "none" /\ native' = native
  /\ form = "completed" => form' = "completed"
  /\ pending' # 0 => native
  /\ pending' # 0 /\ form' \in Fields => Answerable'
  /\ awaitGUI => form' \in {"icons", "aborted"} /\ ~ending' /\ pending' = 0 /\ checks' = {}

LEMMA FormStep ==
  ASSUME IInv, Live, FormRest,
         \/ Setup /\ FormMoves
         \/ ~Setup /\ WizardTypeOK' /\ form' = "none",
         UNCHANGED toldVars \/ Publish(FALSE, phase),
         loop' \in {loop, "quitting"},
         TypeSave', saving' \in BOOLEAN, saveError' \in BOOLEAN,
         UNCHANGED saveVars \/ form' = "completed"
  PROVE  IInv'
<1>0. /\ WizardTypeOK /\ TypeFlags /\ TypeSave /\ TypeLoop /\ TypePlayer /\ TypeWindow
      /\ TypeTold /\ TypeQueue
  BY TypeParts DEF IInv
<1>1. /\ closed' = closed /\ timer' = timer /\ phase' = phase
      /\ session' = session /\ guiNative' = guiNative /\ awaitGUI' = awaitGUI /\ pickerID' = pickerID
      /\ path' = path /\ deferred' = deferred /\ player' = player /\ open' = open
      /\ generation' = generation /\ loading' = loading /\ results' = results
      /\ mc' = mc /\ server' = server /\ incoming' = incoming
      /\ hint' = hint /\ sessions' = sessions /\ requests' = requests /\ drops' = drops
  BY DEF FormRest, windowVars, playerVars, serverVars, boundVars
<1>2. Typed' /\ Ordered' /\ TypeQueue'
  <2>1. player \in Nat /\ drops \in 0 .. MaxDrop /\ generation \in Nat
    BY <1>0, StartupAssumption DEF IInv, Typed, TypePlayer, Generation
  <2>2. generation + drops <= generation + drops
    BY <2>1, StartupAssumption
  <2>3. Live' /\ Setup' => Live /\ Setup /\ server' = server
    BY <1>1 DEF Setup
  <2> QED BY <1>1, <2>1, <2>2, <2>3, QueueFrame
<1>3. lastPhase' = told' /\ TypeTold' /\ (Reached' => told' = [phase |-> phase', session |-> session'])
  <2>1. CASE UNCHANGED toldVars
    BY <1>0, <1>1, <2>1 DEF toldVars, Reached, IInv, Told, TypeTold
  <2>2. CASE Publish(FALSE, phase)
    BY <1>0, <1>1, <2>2, PublishTells DEF Reached, IInv, TypeWindow
  <2> QED BY <2>1, <2>2
<1>4. TypeFlags' /\ TypeLoop' /\ TypePlayer' /\ TypeWindow'
  <2>1. TypeFlags'
    BY <1>0, <1>1 DEF TypeFlags
  <2>2. TypeLoop' /\ TypePlayer' /\ TypeWindow'
    BY <1>0, <1>1 DEF TypeLoop, TypePlayer, TypeWindow
  <2> QED BY <2>1, <2>2
<1>5. InStep' /\ Awaiting' /\ Told'
  <2>1. InStep'
    BY <1>1 DEF IInv, InStep, Setup, FormMoves
  <2>2. Awaiting'
    <3>1. CASE Setup /\ FormMoves
      <4>1. CASE form' = "completed"
        BY <1>1, <3>1, <4>1 DEF IInv, Awaiting, InStep, FormMoves
      <4>2. CASE form' # "completed"
        <5>1. UNCHANGED saveVars /\ form # "completed" /\ Unsaved
          BY <3>1, <4>2 DEF IInv, Awaiting, FormMoves
        <5>2. Unsaved'
          BY <5>1 DEF Unsaved, saveVars
        <5> QED BY <1>1, <3>1, <5>2 DEF IInv, Awaiting, InStep, FormMoves
      <4> QED BY <4>1, <4>2
    <3>2. CASE ~Setup /\ form' = "none"
      BY <1>1, <3>2 DEF IInv, Awaiting, InStep, Setup
    <3> QED BY <3>1, <3>2
  <2> QED BY <1>3, <2>1, <2>2 DEF Told
<1>6. Held' /\ Chooser' /\ PendingAnswerable'
  <2>1. Held'
    BY <1>1 DEF IInv, Held, Live, Handles
  <2>2. Chooser'
    BY <1>1 DEF IInv, Chooser, FormMoves, Setup
  <2>3. PendingAnswerable'
    BY DEF PendingAnswerable, FormMoves, Answerable, Fields
  <2> QED BY <2>1, <2>2, <2>3
<1> QED BY <1>2, <1>3, <1>4, <1>5, <1>6, Joined DEF FormMoves

\* A form that is left as it is.
LEMMA StillMoves ==
  ASSUME IInv, Live, Setup, UNCHANGED wizardVars, UNCHANGED <<pickerID, session>>
  PROVE  FormMoves
<1>1. UNCHANGED <<form, ending, pending, sequence, native, asks, checks, probe>>
  BY DEF wizardVars, formVars
<1>2. WizardTypeOK'
  BY <1>1 DEF IInv, TypeOK, WizardTypeOK
<1>3. (pending' # 0 => native) /\ (pending' # 0 /\ form' \in Fields => Answerable')
  BY <1>1 DEF IInv, Chooser, PendingAnswerable, Answerable
<1> QED BY <1>1, <1>2, <1>3 DEF FormMoves, IInv, Awaiting, Setup

\* What a message that reached the form leads to: the form moves, and is saved when that
\* completed it, or the program ends when that cancelled it. While a save is under way
\* nothing reaches it.
FormOutcome ==
  \/ saving /\ UNCHANGED <<wizardVars, saveVars, toldVars, loop>>
  \/ ~saving /\ form' = "completed" /\ StartSave /\ UNCHANGED <<saveError, toldVars, loop>>
  \/ ~saving /\ form' # "completed" /\ Publish(FALSE, phase) /\ UNCHANGED saveVars
     /\ IF form' = "aborted" THEN Quitting ELSE UNCHANGED loop

LEMMA ToFormStep ==
  ASSUME IInv, Live, Setup, FormRest, FormOutcome, FormMoves \/ saving PROVE IInv'
<1>0. TypeSave /\ TypeFlags /\ UNCHANGED <<pickerID, session>>
  BY TypeParts DEF IInv, FormRest, windowVars
<1>1. CASE saving /\ UNCHANGED <<wizardVars, saveVars, toldVars, loop>>
  <2>1. FormMoves
    BY <1>0, <1>1, StillMoves
  <2>2. saving' = saving /\ saveError' = saveError /\ save' = save
    BY <1>1 DEF saveVars
  <2>3. TypeSave' /\ saving' \in BOOLEAN /\ saveError' \in BOOLEAN
    BY <1>0, <2>2 DEF TypeSave, TypeFlags
  <2> QED BY <1>1, <2>1, <2>3, FormStep
<1>2. CASE ~saving /\ form' = "completed" /\ StartSave /\ UNCHANGED <<saveError, toldVars, loop>>
  <2>1. FormMoves
    BY <1>2
  <2>2. saving' = TRUE /\ saveError' = saveError
        /\ \E j \in Saves : save' = [save EXCEPT ![j] = "running"]
    BY <1>2 DEF StartSave
  <2>3. TypeSave'
    BY <1>0, <2>2 DEF TypeSave
  <2>4. saving' \in BOOLEAN
    BY <2>2
  <2>5. saveError' \in BOOLEAN
    BY <1>0, <2>2 DEF TypeFlags
  <2> QED BY <1>2, <2>1, <2>3, <2>4, <2>5, FormStep
<1>3. CASE /\ ~saving /\ form' # "completed" /\ Publish(FALSE, phase) /\ UNCHANGED saveVars
           /\ IF form' = "aborted" THEN Quitting ELSE UNCHANGED loop
  <2>1. saving' = saving /\ saveError' = saveError /\ save' = save
    BY <1>3 DEF saveVars
  <2>2. TypeSave' /\ saving' \in BOOLEAN /\ saveError' \in BOOLEAN
    BY <1>0, <2>1 DEF TypeSave, TypeFlags
  <2>4. loop' \in {loop, "quitting"}
    BY <1>3 DEF Quitting
  <2> QED BY <1>3, <2>2, <2>4, FormStep
<1> QED BY <1>1, <1>2, <1>3 DEF FormOutcome

\* A key, in either picker.
LEMMA PressKeyStep ==
  ASSUME IInv, NEW key \in Keys, PressKey(key) PROVE IInv'
<1>1. /\ Live /\ Setup /\ FormRest /\ FormOutcome /\ (awaitGUI => key = "ctrl+c")
      /\ saving \/ FormKey(key)
  BY DEF PressKey, ToForm, FormOutcome
<1>2. UNCHANGED <<pickerID, session>> /\ WizardTypeOK
  BY <1>1 DEF FormRest, windowVars, IInv, TypeOK
<1>3. ASSUME FormKey(key) PROVE FormMoves
  <2>1. CASE UNCHANGED formVars
    <3>1. probe' \in BOOLEAN
      <4>1. CASE probe' = FALSE
        BY <4>1
      <4>2. CASE probe' = probe
        BY <1>2, <4>2 DEF WizardTypeOK
      <4> QED BY <1>3, <4>1, <4>2 DEF FormKey
    <3>2. UNCHANGED <<form, ending, pending, sequence, native, asks, checks>>
      BY <2>1 DEF formVars
    <3>3. (pending' # 0 => native) /\ (pending' # 0 /\ form' \in Fields => Answerable')
      BY <1>1, <1>2, <3>2 DEF IInv, Chooser, PendingAnswerable, Answerable
    <3> QED BY <1>1, <1>2, <3>1, <3>2, <3>3 DEF FormMoves, WizardTypeOK, IInv, Awaiting, Setup
  <2>2. CASE UNCHANGED probe /\ native /\ form = "picker" /\ key = "enter" /\ AskWindow
    <3>1. /\ sequence \in Nat /\ sequence < MaxPick /\ sequence' = sequence + 1
          /\ pending' = sequence + 1 /\ asks' = asks \cup {sequence + 1}
          /\ UNCHANGED <<form, ending, native, checks>>
      BY <1>2, <2>2, MaxPickAssumption DEF AskWindow, WizardTypeOK
    <3>2. sequence + 1 \in Question /\ sequence' \in 0 .. MaxPick
      BY <3>1, MaxPickAssumption DEF Question
    <3>3. WizardTypeOK'
      BY <1>2, <2>2, <3>1, <3>2, MaxPickAssumption DEF WizardTypeOK, Question
    <3>4. ~awaitGUI
      BY <1>1, <2>2
    <3> QED BY <2>2, <3>1, <3>3, <3>4 DEF FormMoves, Answerable
  <2>3. CASE /\ UNCHANGED probe /\ form' \in Moves(key) /\ UNCHANGED ending
             /\ UNCHANGED <<pending, sequence, native, asks, checks>>
    <3>1. form' \in Steps
      BY <1>1, <1>2, <2>3 DEF Moves, Steps, Fields, WizardTypeOK, Setup
    <3>2. form' # "none" /\ WizardTypeOK'
      BY <1>2, <2>3, <3>1 DEF Steps, Fields, WizardTypeOK
    <3>5. (form' \in Fields => form \in Fields) /\ (form = "completed" => form' = "completed")
      BY <2>3 DEF Moves, Fields
    <3>3. (pending' # 0 => native) /\ (pending' # 0 /\ form' \in Fields => Answerable')
      BY <1>1, <1>2, <2>3, <3>5 DEF IInv, Chooser, PendingAnswerable, Answerable
    <3>4. awaitGUI => form' \in {"icons", "aborted"} /\ ~ending' /\ pending' = 0 /\ checks' = {}
      BY <1>1, <2>3 DEF IInv, Awaiting, Moves, Fields
    <3> QED BY <2>3, <3>2, <3>3, <3>4, <3>5 DEF FormMoves
  <2>4. CASE /\ UNCHANGED probe /\ form = "picker" /\ ending' = TRUE /\ UNCHANGED form
             /\ UNCHANGED <<pending, sequence, native, asks, checks>>
    <3>1. WizardTypeOK' /\ ~awaitGUI
      BY <1>2, <2>4 DEF WizardTypeOK, IInv, Awaiting
    <3>2. (pending' # 0 => native) /\ (pending' # 0 /\ form' \in Fields => Answerable')
      BY <1>1, <1>2, <2>4 DEF IInv, Chooser, PendingAnswerable, Answerable
    <3> QED BY <2>4, <3>1, <3>2 DEF FormMoves
  <2> QED BY <1>3, <2>1, <2>2, <2>3, <2>4 DEF FormKey, NextField
<1> QED BY <1>1, <1>3, ToFormStep

\* Any other message, which changes no answer.
LEMMA OtherMessageStep ==
  ASSUME IInv, OtherMessage PROVE IInv'
<1>1. Live /\ Setup /\ FormRest /\ FormOutcome /\ UNCHANGED wizardVars
  BY DEF OtherMessage, ToForm, FormOutcome
<1>2. UNCHANGED <<pickerID, session>>
  BY <1>1 DEF FormRest, windowVars
<1> QED BY <1>1, <1>2, StillMoves, ToFormStep

\* The form's own message that it is complete.
LEMMA CompleteFormStep ==
  ASSUME IInv, CompleteForm PROVE IInv'
<1>1. Live /\ Setup /\ FormRest /\ FormOutcome /\ (saving \/ FormEnds)
  BY DEF CompleteForm, ToForm, FormOutcome
<1>2. UNCHANGED <<pickerID, session>> /\ WizardTypeOK
  BY <1>1 DEF FormRest, windowVars, IInv, TypeOK
<1>3. ASSUME FormEnds PROVE FormMoves
  <2>1. /\ ending /\ ending' = FALSE /\ form' = IF form \in Fields THEN "completed" ELSE form
        /\ UNCHANGED <<pending, sequence, native, asks, checks, probe>>
    BY <1>3 DEF FormEnds
  <2>2. ~awaitGUI
    BY <2>1 DEF IInv, Awaiting
  <2>3. form' \notin Fields /\ form' # "none" /\ (form = "completed" => form' = "completed")
    BY <1>1, <2>1 DEF Fields, Setup
  <2>4. WizardTypeOK'
    BY <1>2, <2>1 DEF WizardTypeOK, Steps
  <2>5. pending' # 0 => native
    BY <1>1, <2>1 DEF IInv, Chooser
  <2> QED BY <2>1, <2>2, <2>3, <2>4, <2>5 DEF FormMoves
<1> QED BY <1>1, <1>3, ToFormStep

\* After the settings could not be saved: another try, or the end.
LEMMA PressRetryStep ==
  ASSUME IInv, PressRetry PROVE IInv'
<1>1. /\ Live /\ Setup /\ saveError /\ FormRest /\ UNCHANGED wizardVars /\ UNCHANGED toldVars
      /\ loop' = loop /\ saveError' = FALSE /\ saving' = TRUE
      /\ \E j \in Saves : save' = [save EXCEPT ![j] = "running"]
  BY DEF PressRetry, StartSave
<1>2. UNCHANGED <<pickerID, session>> /\ TypeSave
  BY <1>1, TypeParts DEF FormRest, windowVars, IInv
<1>3. FormMoves
  BY <1>1, <1>2, StillMoves
<1>4. TypeSave'
  BY <1>1, <1>2 DEF TypeSave
<1>5. saving' \in BOOLEAN
  BY <1>1
<1>6. saveError' \in BOOLEAN
  BY <1>1
<1>7. form' = "completed"
  BY <1>1 DEF IInv, Awaiting, Unsaved, wizardVars, formVars
<1> QED BY <1>1, <1>3, <1>4, <1>5, <1>6, <1>7, FormStep

LEMMA PressGiveUpStep ==
  ASSUME IInv, PressGiveUp PROVE IInv'
<1>1. /\ Live /\ Setup /\ saveError /\ FormRest /\ UNCHANGED wizardVars /\ UNCHANGED toldVars
      /\ loop' \in {loop, "quitting"} /\ saveError' = saveError /\ saving' = saving /\ save' = save
      /\ UNCHANGED saveVars
  BY DEF PressGiveUp, Quitting, saveVars
<1>2. UNCHANGED <<pickerID, session>> /\ TypeSave /\ TypeFlags
  BY <1>1, TypeParts DEF FormRest, windowVars, IInv
<1>3. FormMoves
  BY <1>1, <1>2, StillMoves
<1>4. TypeSave' /\ saving' \in BOOLEAN /\ saveError' \in BOOLEAN
  BY <1>1, <1>2 DEF TypeSave, TypeFlags
<1> QED BY <1>1, <1>3, <1>4, FormStep

\* The file that was chosen has been looked at, for this question or for one before.
LEMMA SelectionCheckedStep ==
  ASSUME IInv, NEW c \in checks, SelectionChecked(c) PROVE IInv'
<1>0. WizardTypeOK /\ TypeSave /\ TypeFlags
  BY TypeParts DEF IInv
<1>1. Live /\ FormRest /\ UNCHANGED <<pickerID, session>>
  BY DEF SelectionChecked, FormRest, windowVars
<1>2. CASE Setup /\ ~saving
  <2>1. FormOutcome /\ Checked(c)
    BY <1>2 DEF SelectionChecked, ToForm, FormOutcome
  <2>2. checks' = checks \ {c} /\ UNCHANGED <<form, sequence, native, asks, probe>> /\ ~awaitGUI
    BY <2>1 DEF Checked, IInv, Awaiting
  <2>3. CASE c.id # pending /\ UNCHANGED <<ending, pending>>
    <3>1. WizardTypeOK'
      BY <1>0, <2>2, <2>3 DEF WizardTypeOK
    <3>2. (pending' # 0 => native) /\ (pending' # 0 /\ form' \in Fields => Answerable')
      BY <1>1, <1>2, <2>2, <2>3 DEF IInv, Chooser, PendingAnswerable, Answerable
    <3>3. FormMoves
      BY <1>2, <2>2, <2>3, <3>1, <3>2 DEF FormMoves, Setup
    <3> QED BY <1>1, <1>2, <2>1, <3>3, ToFormStep
  <2>5. ending' \in BOOLEAN
    <3>1. CASE ending' = TRUE
      BY <3>1
    <3>2. CASE ending' = ending
      BY <1>0, <3>2 DEF WizardTypeOK
    <3> QED BY <2>1, <3>1, <3>2 DEF Checked, NextField
  <2>4. CASE pending' = 0
    <3>1. WizardTypeOK'
      BY <1>0, <2>2, <2>4, <2>5, MaxPickAssumption DEF WizardTypeOK
    <3>2. FormMoves
      BY <1>2, <2>2, <2>4, <3>1 DEF FormMoves, Setup
    <3> QED BY <1>1, <1>2, <2>1, <3>2, ToFormStep
  <2> QED BY <2>1, <2>3, <2>4 DEF Checked
<1>3. CASE ~(Setup /\ ~saving)
  <2>1. /\ checks' = checks \ {c} /\ (UNCHANGED toldVars \/ Publish(FALSE, phase))
        /\ UNCHANGED <<form, ending, pending, sequence, native, asks, probe>>
        /\ UNCHANGED saveVars /\ loop' = loop
    BY <1>3 DEF SelectionChecked
  <2>2. WizardTypeOK'
    BY <1>0, <2>1 DEF WizardTypeOK
  <2>3. CASE Setup
    <3>1. form = "completed" /\ saving
      BY <1>3, <2>3 DEF IInv, Awaiting, Unsaved
    <3>2. FormMoves
      BY <2>1, <2>2, <2>3, <3>1 DEF FormMoves, Fields, IInv, Chooser, Awaiting
    <3>3. TypeSave' /\ saving' \in BOOLEAN /\ saveError' \in BOOLEAN
      BY <1>0, <2>1 DEF TypeSave, TypeFlags, saveVars
    <3> QED BY <1>1, <2>1, <2>3, <3>2, <3>3, FormStep
  <2>4. CASE ~Setup
    <3>1. form' = "none"
      BY <2>1, <2>4 DEF Setup
    <3>2. TypeSave' /\ saving' \in BOOLEAN /\ saveError' \in BOOLEAN
      BY <1>0, <2>1 DEF TypeSave, TypeFlags, saveVars
    <3> QED BY <1>1, <2>1, <2>2, <2>4, <3>1, <3>2, FormStep
  <2> QED BY <2>3, <2>4
<1> QED BY <1>2, <1>3

-----------------------------------------------------------------------------
(* What happens beside the form. *)

\* The question is put to the window, or answered here when it cannot be.
LEMMA PickFileStep ==
  ASSUME IInv, NEW id \in asks, PickFileMsg(id) PROVE IInv'
<1>0. /\ WizardTypeOK /\ TypeFlags /\ TypeSave /\ TypeLoop /\ TypePlayer /\ TypeWindow
      /\ TypeTold /\ TypeQueue
  BY TypeParts DEF IInv
<1>1. /\ Live /\ asks' = asks \ {id}
      /\ form' = form /\ ending' = ending /\ sequence' = sequence /\ native' = native
      /\ checks' = checks /\ probe' = probe /\ session' = session /\ guiNative' = guiNative /\ awaitGUI' = awaitGUI
      /\ loop' = loop /\ closed' = closed /\ timer' = timer /\ phase' = phase
      /\ UNCHANGED toldVars /\ saving' = saving /\ saveError' = saveError /\ save' = save
      /\ path' = path /\ deferred' = deferred /\ player' = player /\ open' = open
      /\ generation' = generation /\ loading' = loading /\ results' = results
      /\ mc' = mc /\ server' = server /\ incoming' = incoming
      /\ hint' = hint /\ sessions' = sessions /\ requests' = requests /\ drops' = drops
  BY DEF PickFileMsg, PickFile, loopVars, saveVars, playerVars, serverVars, boundVars
<1>2. /\ pickerID' \in {pickerID, id, 0} /\ pending' \in {pending, 0}
      /\ pickerID' = pickerID \/ pickerID' = id \/ pending' = 0
  BY DEF PickFileMsg, PickFile
<1>3. Typed' /\ Ordered' /\ TypeQueue'
  <2>1. player \in Nat /\ drops \in 0 .. MaxDrop /\ generation \in Nat
    BY <1>0, StartupAssumption DEF IInv, Typed, TypePlayer, Generation
  <2>2. generation + drops <= generation + drops
    BY <2>1, StartupAssumption
  <2>3. Live' /\ Setup' => Live /\ Setup /\ server' = server
    BY <1>1 DEF Setup
  <2> QED BY <1>1, <2>1, <2>2, <2>3, QueueFrame
<1>4. TypeFlags' /\ TypeSave' /\ TypeLoop' /\ TypePlayer' /\ TypeTold'
  <2>1. TypeFlags'
    BY <1>0, <1>1 DEF TypeFlags
  <2>2. TypeSave' /\ TypeLoop' /\ TypePlayer' /\ TypeTold'
    BY <1>0, <1>1 DEF TypeSave, TypeLoop, TypePlayer, TypeTold, toldVars
  <2> QED BY <2>1, <2>2
<1>5. WizardTypeOK' /\ TypeWindow'
  <2>1. id \in Question /\ id \in 0 .. MaxPick /\ 0 \in 0 .. MaxPick
    BY <1>0, MaxPickAssumption DEF WizardTypeOK, Question
  <2> QED BY <1>0, <1>1, <1>2, <2>1 DEF WizardTypeOK, TypeWindow
<1>6. InStep' /\ Awaiting' /\ Told' /\ Held'
  <2>1. InStep' /\ Held'
    BY <1>1 DEF IInv, InStep, Held, Setup, Live, Handles
  <2>2. Awaiting'
    BY <1>1, <1>2 DEF IInv, Awaiting, Unsaved, Setup
  <2>3. Told'
    BY <1>1 DEF IInv, Told, Live, Handles, Reached, toldVars
  <2> QED BY <2>1, <2>2, <2>3
<1>7. Chooser'
  BY <1>1, <1>2 DEF IInv, Chooser, Setup
<1>8. PendingAnswerable'
  <2> SUFFICES ASSUME Setup, form \in Fields, pending' # 0 PROVE Answerable'
    BY <1>1 DEF PendingAnswerable, Answerable, Setup, Fields
  <2>1. pending' = pending /\ native /\ guiNative /\ session # 0 /\ Answerable
    BY <1>1, <1>2 DEF IInv, Chooser, PendingAnswerable, Answerable
  <2>2. CASE id = pending
    BY <1>1, <2>1, <2>2 DEF PickFileMsg, PickFile, PendingPicker, Answerable
  <2>3. CASE id # pending
    <3>1. pickerID' = pickerID
      BY <2>3 DEF PickFileMsg, PickFile, PendingPicker
    <3> QED BY <1>1, <2>1, <2>3, <3>1 DEF Answerable
  <2> QED BY <2>2, <2>3
<1> QED BY <1>3, <1>4, <1>5, <1>6, <1>7, <1>8, Joined

\* A step that leaves window, queue and form alone, but that it may put the form away.
LEMMA HostStep ==
  ASSUME IInv, UNCHANGED <<form, ending, pending, sequence, native, asks, checks, probe>> \/ Discard,
         UNCHANGED <<session, guiNative, pickerID, incoming, sessions, requests>>,
         server' \in {server, 0}, Live' => Live, Live' /\ Setup' => server' = server,
         player' \in Nat, drops' \in 0 .. MaxDrop, generation' \in Nat,
         generation' + drops <= generation + drops',
         TypeFlags', TypeSave', TypeLoop', TypePlayer', TypeTold', phase' \in Phases,
         InStep', Awaiting', Told', Held'
  PROVE  IInv'
<1>0. WizardTypeOK /\ TypeWindow
  BY TypeParts DEF IInv
<1>1. Typed' /\ Ordered' /\ TypeQueue'
  BY QueueFrame DEF Setup, Discard
<1>2. WizardTypeOK' /\ TypeWindow'
  <2>1. TypeWindow'
    BY <1>0, StartupAssumption DEF TypeWindow
  <2>2. CASE UNCHANGED <<form, ending, pending, sequence, native, asks, checks, probe>>
    <3>1. WizardTypeOK'
      BY <1>0, <2>2 DEF WizardTypeOK
    <3> QED BY <2>1, <3>1
  <2>3. CASE Discard
    <3>1. /\ form' = "none" /\ pending' = 0 /\ sequence' = 0 /\ 0 \in 0 .. MaxPick
          /\ asks' = asks /\ checks' = checks /\ probe' = probe
      BY <2>3, MaxPickAssumption DEF Discard
    <3>2. ending' \in BOOLEAN
      BY <2>3 DEF Discard
    <3>3. native' \in BOOLEAN /\ probe' \in BOOLEAN
      BY <1>0, <2>3 DEF Discard, WizardTypeOK
    <3>4. WizardTypeOK'
      BY <1>0, <3>1, <3>2, <3>3 DEF WizardTypeOK
    <3> QED BY <2>1, <3>4


  <2> QED BY <2>1, <2>2, <2>3
<1>3. Chooser'
  BY DEF IInv, Chooser, Setup, Discard
<1>4. PendingAnswerable'
  BY DEF IInv, PendingAnswerable, Fields, Discard
<1> QED BY <1>1, <1>2, <1>3, <1>4, Joined

\* The numbers of a state, which most steps leave as they are.
LEMMA Numbers ==
  ASSUME IInv
  PROVE  /\ player \in Nat /\ drops \in 0 .. MaxDrop /\ generation \in Nat
         /\ generation + drops <= generation + drops
<1>1. player \in Nat /\ drops \in 0 .. MaxDrop /\ generation \in Nat
  BY TypeParts, StartupAssumption DEF IInv, Typed, TypePlayer, Generation
<1>2. drops \in Nat
  BY <1>1, StartupAssumption
<1> QED BY <1>1, <1>2

\* The window did not come in time.
LEMMA WaitExpiresStep ==
  ASSUME IInv, WaitExpires PROVE IInv'
<1>0. /\ TypeFlags /\ TypeSave /\ TypeLoop /\ TypePlayer /\ TypeWindow /\ TypeTold
  BY TypeParts DEF IInv
<1>1. /\ Live /\ timer' = FALSE /\ UNCHANGED <<form, ending, pending, sequence, native, asks, checks, probe>>
      /\ loop' = loop /\ closed' = closed
      /\ session' = session /\ guiNative' = guiNative /\ pickerID' = pickerID
      /\ path' = path /\ deferred' = deferred /\ player' = player /\ open' = open
      /\ generation' = generation /\ loading' = loading /\ results' = results
      /\ mc' = mc /\ server' = server /\ incoming' = incoming
      /\ hint' = hint /\ sessions' = sessions /\ requests' = requests /\ drops' = drops
  BY DEF WaitExpires, wizardVars, formVars, loopVars, playerVars, serverVars, boundVars
<1>2. /\ awaitGUI' = FALSE
      /\ \/ phase' = phase
         \/ awaitGUI /\ phase' = "wizard"
  <2>1. CASE awaitGUI
    BY <2>1 DEF WaitExpires, GiveUpWaiting
  <2>2. CASE awaitGUI = FALSE
    <3>1. awaitGUI' = awaitGUI /\ phase' = phase
      BY <2>2 DEF WaitExpires, GiveUpWaiting
    <3>2. awaitGUI' = FALSE
      BY <2>2, <3>1
    <3> QED BY <3>1, <3>2
  <2> QED BY <1>0, <2>1, <2>2 DEF TypeFlags
<1>3. phase' \in Phases
  BY <1>0, <1>2 DEF TypeWindow, Phases
<1>4. /\ saving' \in BOOLEAN /\ saveError' \in BOOLEAN /\ TypeSave'
  <2>1. CASE UNCHANGED saveVars
    BY <1>0, <2>1 DEF saveVars, TypeSave, TypeFlags
  <2>2. CASE StartSave /\ saveError' = saveError
    <3>1. saving' = TRUE /\ \E j \in Saves : save' = [save EXCEPT ![j] = "running"]
      BY <2>2 DEF StartSave
    <3>2. saving' \in BOOLEAN
      BY <3>1
    <3> QED BY <1>0, <2>2, <3>1, <3>2 DEF TypeSave, TypeFlags
  <2> QED BY <2>1, <2>2 DEF WaitExpires
<1>5. lastPhase' = told' /\ TypeTold' /\ (Reached => told' = [phase |-> phase', session |-> session])
  <2>1. CASE Publish(FALSE, phase')
    BY <1>0, <1>3, <2>1, PublishTells DEF IInv
  <2>2. CASE ~Publish(FALSE, phase')
    <3>1. UNCHANGED toldVars /\ (saving \/ form = "completed")
      BY <2>2 DEF WaitExpires
    <3>2. phase' = phase
      BY <1>2, <3>1 DEF IInv, Awaiting, Unsaved, Setup
    <3> QED BY <1>0, <1>1, <3>1, <3>2 DEF IInv, Told, toldVars, TypeTold
  <2> QED BY <2>1, <2>2
<1>6. TypeFlags' /\ TypeLoop' /\ TypePlayer'
  <2>1. timer' \in BOOLEAN /\ awaitGUI' \in BOOLEAN
    BY <1>1, <1>2
  <2>2. TypeFlags'
    BY <1>0, <1>1, <1>4, <2>1 DEF TypeFlags
  <2>3. TypeLoop' /\ TypePlayer'
    BY <1>0, <1>1 DEF TypeLoop, TypePlayer
  <2> QED BY <2>2, <2>3
<1>7. InStep' /\ Awaiting' /\ Told' /\ Held'
  <2>1. InStep' /\ Held'
    BY <1>1, <1>2 DEF IInv, InStep, Held, Setup, Awaiting
  <2>2. Awaiting'
    <3>1. Setup' /\ form' # "completed" => Unsaved /\ UNCHANGED saveVars
      BY <1>1 DEF IInv, Awaiting, Unsaved, Setup, WaitExpires, StartSave
    <3> QED BY <1>2, <3>1 DEF Awaiting, Unsaved, saveVars
  <2>3. Told'
    BY <1>1, <1>5 DEF Told, Reached
  <2> QED BY <2>1, <2>2, <2>3
<1>8. (Live' => Live) /\ form' \in {form, "none"} /\ server' \in {server, 0}
      /\ (Live' /\ Setup' => server' = server)
  BY <1>1
<1>9. /\ player' \in Nat /\ drops' \in 0 .. MaxDrop /\ generation' \in Nat
      /\ generation' + drops <= generation + drops'
  BY <1>1, Numbers
<1> QED BY <1>1, <1>3, <1>4, <1>5, <1>6, <1>7, <1>8, <1>9, HostStep

\* The settings are written, or could not be.
LEMMA SaveEndsStep ==
  ASSUME IInv, NEW j \in Saves, SaveEnds(j) PROVE IInv'
<1>0. /\ TypeFlags /\ TypeSave /\ TypeLoop /\ TypePlayer /\ TypeWindow /\ TypeTold
  BY TypeParts DEF IInv
<1>1. /\ timer' = timer /\ UNCHANGED <<form, ending, pending, sequence, native, asks, checks, probe>>
      /\ loop' = loop /\ closed' = closed /\ phase' = phase /\ awaitGUI' = awaitGUI
      /\ session' = session /\ guiNative' = guiNative /\ pickerID' = pickerID
      /\ saving' = saving /\ saveError' = saveError
      /\ path' = path /\ deferred' = deferred /\ player' = player /\ open' = open
      /\ generation' = generation /\ loading' = loading /\ results' = results
      /\ lastPhase' = lastPhase /\ told' = told
      /\ mc' = mc /\ server' = server /\ incoming' = incoming
      /\ hint' = hint /\ sessions' = sessions /\ requests' = requests /\ drops' = drops
  BY DEF SaveEnds, wizardVars, formVars, loopVars, windowVars, toldVars, playerVars, serverVars,
         boundVars
<1>2. save[j] = "running" /\ \E v \in {"ok", "failed"} : save' = [save EXCEPT ![j] = v]
  BY DEF SaveEnds
<1>3. TypeFlags' /\ TypeSave' /\ TypeLoop' /\ TypePlayer' /\ TypeTold' /\ phase' \in Phases
  <2>1. TypeFlags' /\ TypeLoop'
    BY <1>0, <1>1 DEF TypeFlags, TypeLoop
  <2>2. TypeSave'
    BY <1>0, <1>2 DEF TypeSave
  <2>3. TypePlayer' /\ TypeTold' /\ phase' \in Phases
    BY <1>0, <1>1 DEF TypePlayer, TypeTold, TypeWindow
  <2> QED BY <2>1, <2>2, <2>3
<1>4. InStep' /\ Awaiting' /\ Told' /\ Held'
  <2>1. InStep' /\ Held' /\ Told'
    BY <1>1 DEF IInv, InStep, Held, Told, Setup, Live, Handles, Reached
  <2>2. ~awaitGUI
    BY <1>2 DEF IInv, Awaiting, Unsaved, Setup
  <2>3. ~(Setup' /\ form' # "completed")
    BY <1>1, <1>2 DEF IInv, Awaiting, Unsaved, Setup
  <2>4. ~awaitGUI'
    BY <1>1, <2>2
  <2> QED BY <2>1, <2>3, <2>4 DEF Awaiting
<1>5. (Live' => Live)
 /\ form' \in {form, "none"} /\ server' \in {server, 0}
      /\ (Live' /\ Setup' => server' = server)
  BY <1>1 DEF Live, Handles
<1>6. /\ player' \in Nat /\ drops' \in 0 .. MaxDrop /\ generation' \in Nat
      /\ generation' + drops <= generation + drops'
  BY <1>1, Numbers
<1> QED BY <1>1, <1>3, <1>4, <1>5, <1>6, HostStep

\* On to the player, with the track and the controller the host has; or another try.
LEMMA SettingsSavedStep ==
  ASSUME IInv, NEW j \in Saves, SettingsSaved(j) PROVE IInv'
<1>0. /\ TypeFlags /\ TypeSave /\ TypeLoop /\ TypePlayer /\ TypeWindow /\ TypeTold
  BY TypeParts DEF IInv
<1>1. /\ Live /\ timer' = timer
      /\ loop' = loop /\ closed' = closed /\ awaitGUI' = awaitGUI
      /\ session' = session /\ guiNative' = guiNative /\ pickerID' = pickerID
      /\ saving' = FALSE /\ save' = [save EXCEPT ![j] = "idle"]
      /\ server' = server /\ incoming' = incoming
      /\ hint' = hint /\ sessions' = sessions /\ requests' = requests /\ drops' = drops
  BY DEF SettingsSaved, loopVars, windowVars, serverVars, boundVars
<1>2. TypeSave' /\ ~awaitGUI
  BY <1>0, <1>1 DEF SettingsSaved, TypeSave, IInv, Awaiting, Unsaved
<1>3. CASE save[j] = "ok"
  <2>1. /\ Discard /\ path' = (path \/ deferred) /\ player' = player + 1
        /\ open' = open \cup {player + 1} /\ generation' = 0 /\ loading' = (path \/ deferred)
        /\ results' = IF path \/ deferred THEN results \cup {0} ELSE results
        /\ mc' = HandedOn
        /\ phase' = IF path \/ deferred THEN "initial_loading" ELSE "ready"
        /\ Publish(FALSE, phase') /\ saveError' = saveError /\ deferred' = deferred
    BY <1>3 DEF SettingsSaved, Activate
  <2>2. phase' \in Phases /\ phase' \notin {"starting", "wizard"}
    BY <2>1 DEF Phases
  <2>3. player \in Nat /\ player' \in Nat /\ open' \in SUBSET (1 .. player') /\ player' \in open'
        /\ player' # 0
    <3>1. player \in Nat /\ player' = player + 1 /\ open' = open \cup {player + 1}
      BY <2>1, Numbers
    <3>2. 1 .. player \subseteq 1 .. (player + 1) /\ player + 1 \in 1 .. (player + 1)
      BY <3>1
    <3> QED BY <1>0, <3>1, <3>2 DEF TypePlayer
  <2>4. 0 \in Generation
    BY StartupAssumption DEF Generation
  <2>5. TypePlayer' /\ TypeLoop'
    <3>1. mc' \in {"used", "dropped", mc}
      BY <2>1 DEF HandedOn
    <3> QED BY <1>0, <1>1, <2>1, <2>3, <2>4, <3>1 DEF TypePlayer, TypeLoop
  <2>6. lastPhase' = told' /\ TypeTold' /\ (Reached => told' = [phase |-> phase', session |-> session])
    BY <1>0, <2>1, <2>2, PublishTells DEF IInv
  <2>7. TypeFlags'
    <3>1. saving' \in BOOLEAN
      BY <1>1
    <3>2. (path \/ deferred) \in BOOLEAN
      OBVIOUS
    <3> QED BY <1>0, <1>1, <2>1, <3>1, <3>2 DEF TypeFlags
  <2>8. InStep' /\ Awaiting' /\ Told' /\ Held'
    <3>1. InStep'
      BY <2>1, <2>2, <2>3 DEF InStep, Setup, Discard
    <3>2. Awaiting' /\ Told'
      BY <1>1, <1>2, <2>1, <2>6 DEF Awaiting, Told, Reached, Setup, Discard
    <3>3. mc' # "held"
      BY <2>1 DEF HandedOn
    <3>4. Held'
      <4>1. open \subseteq open' /\ ~closed' /\ loop' # "exited"
        BY <1>1, <2>1 DEF Live, Handles
      <4>2. mc' = "used" => player' \in open'
        BY <2>3
      <4> QED BY <3>3, <4>1, <4>2 DEF Held
    <3> QED BY <3>1, <3>2, <3>4
  <2>9. (Live' => Live) /\ server' \in {server, 0} /\ (Live' /\ Setup' => server' = server)
    BY <1>1
  <2>10. /\ player' \in Nat /\ drops' \in 0 .. MaxDrop /\ generation' \in Nat
         /\ generation' + drops <= generation + drops'
    <3>1. drops \in Nat
      BY Numbers, StartupAssumption
    <3> QED BY <1>1, <2>1, <2>3, <3>1, Numbers
  <2> QED BY <1>1, <1>2, <2>1, <2>2, <2>5, <2>6, <2>7, <2>8, <2>9, <2>10, HostStep
<1>4. CASE save[j] # "ok"
  <2>1. /\ UNCHANGED <<form, ending, pending, sequence, native, asks, checks, probe>> /\ saveError' = TRUE /\ phase' = phase
        /\ path' = path /\ deferred' = deferred /\ player' = player /\ open' = open
        /\ generation' = generation /\ loading' = loading /\ results' = results
        /\ mc' = mc /\ lastPhase' = lastPhase /\ told' = told
    BY <1>4 DEF SettingsSaved, playerVars, toldVars, wizardVars, formVars
  <2>2. TypeFlags'
    <3>1. saving' \in BOOLEAN /\ saveError' \in BOOLEAN
      BY <1>1, <2>1
    <3> QED BY <1>0, <1>1, <2>1, <3>1 DEF TypeFlags
  <2>3. TypePlayer' /\ TypeLoop' /\ TypeTold' /\ phase' \in Phases
    BY <1>0, <1>1, <2>1 DEF TypePlayer, TypeLoop, TypeTold, TypeWindow
  <2>4. InStep' /\ Awaiting' /\ Told' /\ Held'
    <3>1. InStep' /\ Held'
      BY <1>1, <2>1 DEF IInv, InStep, Held, Setup
    <3>2. Setup => form = "completed"
      BY DEF SettingsSaved, IInv, Awaiting, Unsaved
    <3>3. Awaiting' /\ Told'
      BY <1>1, <1>2, <2>1, <3>2 DEF IInv, Awaiting, Told, Reached, Live, Handles, Setup
    <3> QED BY <3>1, <3>3
  <2>5. (Live' => Live) /\ server' \in {server, 0} /\ (Live' /\ Setup' => server' = server)
    BY <1>1
  <2>6. /\ player' \in Nat /\ drops' \in 0 .. MaxDrop /\ generation' \in Nat
        /\ generation' + drops <= generation + drops'
    BY <1>1, <2>1, Numbers
  <2> QED BY <1>1, <1>2, <2>1, <2>2, <2>3, <2>4, <2>5, <2>6, HostStep
<1> QED BY <1>3, <1>4

\* A step of the player or its loads, beside form and window.
PlayerRest ==
  /\ UNCHANGED <<form, ending, pending, sequence, native, asks, checks, probe>>
  /\ session' = session /\ guiNative' = guiNative /\ pickerID' = pickerID /\ awaitGUI' = awaitGUI
  /\ incoming' = incoming /\ hint' = hint /\ sessions' = sessions /\ requests' = requests
  /\ timer' = timer /\ saving' = saving /\ saveError' = saveError /\ save' = save
  /\ path' = path /\ player' = player

\* A track is dropped on the program.
LEMMA LoadTrackStep ==
  ASSUME IInv, LoadTrack PROVE IInv'
<1>0. /\ TypeFlags /\ TypeSave /\ TypeLoop /\ TypePlayer /\ TypeWindow /\ TypeTold
  BY TypeParts DEF IInv
<1>1. /\ Live /\ PlayerRest /\ loop' = loop /\ closed' = closed /\ phase' = phase
      /\ drops < MaxDrop /\ drops' = drops + 1 /\ open' = open /\ mc' = mc /\ server' = server
  BY DEF LoadTrack, PlayerRest, wizardVars, formVars, loopVars, windowVars, saveVars, serverVars
<1>2. drops \in Nat /\ drops' \in 0 .. MaxDrop /\ generation \in Nat /\ player \in Nat
  BY <1>1, Numbers, StartupAssumption
<1>3. \/ generation' = generation /\ loading' = loading /\ results' = results
      \/ generation' = generation + 1 /\ loading' = TRUE /\ results' = results \cup {generation + 1}
  BY DEF LoadTrack
<1>4. generation' \in Nat /\ generation' + drops <= generation + drops' /\ generation' \in Generation
  <2>1. generation' \in {generation, generation + 1}
    BY <1>3
  <2>2. generation + 1 \in Generation
    <3> DEFINE n == Cardinality(Waiting(incoming))
    <3>1. n \in Nat
      <4>1. incoming \in Seq(Events)
        BY DEF IInv, Typed
      <4> QED BY <4>1, WaitingFinite, FS_CardinalityType
    <3>2. generation + n <= drops + requests /\ requests \in 0 .. MaxRequest
      BY DEF IInv, Typed
    <3> HIDE DEF n
    <3> QED BY <1>1, <1>2, <3>1, <3>2, StartupAssumption DEF Generation
  <2>3. generation' \in Generation
    BY <1>0, <2>1, <2>2 DEF TypePlayer
  <2>4. generation' \in Nat /\ generation' + drops <= generation + (drops + 1)
    <3>1. \A h, d \in Nat : h + 1 \in Nat /\ h + d <= h + (d + 1) /\ (h + 1) + d <= h + (d + 1)
      OBVIOUS
    <3> QED BY <1>2, <2>1, <3>1
  <2> QED BY <1>1, <2>3, <2>4
<1>5. TypePlayer'
  <2>1. CASE generation' = generation /\ loading' = loading /\ results' = results
    BY <1>0, <1>1, <2>1 DEF TypePlayer, PlayerRest
  <2>2. CASE generation' = generation + 1 /\ loading' = TRUE /\ results' = results \cup {generation + 1}
    BY <1>0, <1>1, <1>4, <2>2 DEF TypePlayer, PlayerRest
  <2> QED BY <1>3, <2>1, <2>2
<1>6. loading' \in BOOLEAN /\ deferred' \in BOOLEAN
  <2>1. loading' = loading \/ loading' = TRUE
    BY <1>3
  <2>2. deferred' = deferred \/ deferred' = TRUE
    BY DEF LoadTrack
  <2> QED BY <1>0, <2>1, <2>2 DEF TypeFlags
<1>7. lastPhase' = told' /\ TypeTold' /\ (Reached => told' = [phase |-> phase, session |-> session])
  <2>1. CASE UNCHANGED toldVars
    BY <1>0, <1>1, <2>1 DEF toldVars, IInv, Told, TypeTold
  <2>2. CASE Publish(FALSE, phase)
    BY <1>0, <2>2, PublishTells DEF IInv, TypeWindow
  <2> QED BY <2>1, <2>2 DEF LoadTrack
<1>8. TypeFlags' /\ TypeSave' /\ TypeLoop' /\ phase' \in Phases
  <2>1. TypeFlags'
    BY <1>0, <1>1, <1>6 DEF TypeFlags, PlayerRest
  <2>2. TypeSave' /\ TypeLoop' /\ phase' \in Phases
    BY <1>0, <1>1 DEF TypeSave, TypeLoop, TypeWindow, PlayerRest
  <2> QED BY <2>1, <2>2
<1>9. InStep' /\ Awaiting' /\ Told' /\ Held'
  <2>1. InStep'
    BY <1>1, <1>3 DEF IInv, InStep, Setup, PlayerRest
  <2>2. Held'
    BY <1>1 DEF IInv, Held, PlayerRest
  <2>3. Awaiting' /\ Told'
    BY <1>1, <1>7 DEF IInv, Awaiting, Told, Reached, PlayerRest, Unsaved, Setup
  <2> QED BY <2>1, <2>2, <2>3
<1>10. (Live' => Live) /\ form' \in {form, "none"} /\ server' \in {server, 0}
       /\ (Live' /\ Setup' => server' = server) /\ player' \in Nat
  BY <1>1, <1>2 DEF PlayerRest
<1> QED BY <1>1, <1>2, <1>4, <1>5, <1>7, <1>8, <1>9, <1>10, HostStep DEF PlayerRest

\* A load reports: the newest one's end, or nothing.
LEMMA LoadReportsStep ==
  ASSUME IInv, NEW g \in results, LoadReports(g) PROVE IInv'
<1>0. /\ TypeFlags /\ TypeSave /\ TypeLoop /\ TypePlayer /\ TypeWindow /\ TypeTold
  BY TypeParts DEF IInv
<1>1. /\ Handles /\ PlayerRest /\ loop' = loop /\ closed' = closed /\ deferred' = deferred
      /\ open' = open /\ mc' = mc /\ server' = server /\ drops' = drops /\ generation' = generation
      /\ results' = results \ {g} /\ loading' = (loading /\ (player \in open => g # generation))
  BY DEF LoadReports, PlayerRest, wizardVars, formVars, loopVars, windowVars, saveVars, serverVars,
         boundVars
<1>2. /\ phase' \in {phase, "ready"}
      /\ phase' = "ready" => phase \in {"initial_loading", "ready"}
      /\ phase' = "initial_loading" => phase = "initial_loading" /\ (closed \/ loading')
  <2>1. CASE closed
    BY <2>1 DEF LoadReports
  <2>2. CASE ~closed
    <3>1. phase' = IF phase = "initial_loading" /\ ~loading' THEN "ready" ELSE phase
      BY <2>2 DEF LoadReports, PhaseAfter
    <3> QED BY <3>1
  <2> QED BY <2>1, <2>2
<1>3. phase' \in Phases
  BY <1>0, <1>2 DEF TypeWindow, Phases
<1>4. /\ lastPhase' = told' /\ TypeTold'
      /\ ~closed /\ Reached => told' = [phase |-> phase', session |-> session]
  <2>1. CASE closed
    BY <1>0, <2>1 DEF LoadReports, toldVars, IInv, Told, TypeTold
  <2>2. CASE ~closed
    <3>1. Publish(FALSE, phase')
      BY <2>2 DEF LoadReports
    <3> QED BY <1>0, <1>3, <2>2, <3>1, PublishTells DEF IInv
  <2> QED BY <2>1, <2>2
<1>5. TypeFlags' /\ TypeSave' /\ TypeLoop' /\ TypePlayer'
  <2>1. loading' \in BOOLEAN
    BY <1>1
  <2>2. TypeFlags'
    BY <1>0, <1>1, <2>1 DEF TypeFlags, PlayerRest
  <2>3. TypeSave' /\ TypeLoop' /\ TypePlayer'
    BY <1>0, <1>1 DEF TypeSave, TypeLoop, TypePlayer, PlayerRest
  <2> QED BY <2>2, <2>3
<1>6. InStep' /\ Awaiting' /\ Told' /\ Held'
  <2>1. Setup' <=> phase' \in {"starting", "wizard"}
    BY <1>1, <1>2 DEF IInv, InStep, Setup, PlayerRest
  <2>2. phase' = "initial_loading" /\ player' \in open' => loading' /\ generation' \in results'
    <3> SUFFICES ASSUME phase' = "initial_loading", player' \in open'
                 PROVE  loading' /\ generation' \in results'
      OBVIOUS
    <3>1. ~closed /\ phase = "initial_loading" /\ loading'
      BY <1>1, <1>2 DEF IInv, Held, PlayerRest
    <3>2. generation \in results /\ g # generation
      BY <1>1, <3>1 DEF IInv, InStep, PlayerRest
    <3> QED BY <1>1, <3>1, <3>2
  <2>3. InStep'
    BY <1>1, <2>1, <2>2 DEF IInv, InStep, Setup, PlayerRest
  <2>4. Awaiting'
    BY <1>1, <1>2 DEF IInv, Awaiting, PlayerRest, Unsaved, Setup
  <2>5. Told' /\ Held'
    BY <1>1, <1>4 DEF IInv, Told, Held, Live, Reached, PlayerRest
  <2> QED BY <2>3, <2>4, <2>5
<1>7. (Live' => Live) /\ form' \in {form, "none"} /\ server' \in {server, 0}
      /\ (Live' /\ Setup' => server' = server)
  BY <1>1 DEF PlayerRest, Live
<1>8. /\ player' \in Nat /\ drops' \in 0 .. MaxDrop /\ generation' \in Nat
      /\ generation' + drops <= generation + drops'
  BY <1>1, Numbers DEF PlayerRest
<1> QED BY <1>1, <1>3, <1>4, <1>5, <1>6, <1>7, <1>8, HostStep DEF PlayerRest

\* The controller comes, or does not; the player ends; the loop ends; the program does.
\* None of them touches phase, loads or what was told.
LEMMA EndStep ==
  ASSUME IInv, PlayerRest, phase' = phase, UNCHANGED toldVars, deferred' = deferred,
         generation' = generation, loading' = loading, results' = results, drops' = drops,
         closed' \in BOOLEAN, open' \in {open, open \ {player}}, server' \in {server, 0}, TypeLoop',
         Live' => Live, Live' /\ player = 0 => server' = server, Held'
  PROVE  IInv'
<1>0. /\ TypeFlags /\ TypeSave /\ TypeLoop /\ TypePlayer /\ TypeWindow /\ TypeTold
  BY TypeParts DEF IInv
<1>1. TypeFlags' /\ TypeSave' /\ TypePlayer' /\ TypeTold' /\ phase' \in Phases
  <2>1. TypeFlags' /\ TypeSave'
    BY <1>0 DEF TypeFlags, TypeSave, PlayerRest
  <2>2. TypePlayer' /\ TypeTold' /\ phase' \in Phases
    BY <1>0 DEF TypePlayer, TypeTold, TypeWindow, PlayerRest, toldVars
  <2> QED BY <2>1, <2>2
<1>2. InStep' /\ Awaiting'
  BY DEF IInv, InStep, Awaiting, Setup, PlayerRest, Unsaved
<1>3. Told'
  BY DEF IInv, Told, Reached, PlayerRest, toldVars
<1>4. (Live' /\ Setup' => server' = server) /\ form' \in {form, "none"}
  BY DEF PlayerRest, Setup, IInv, InStep
<1>5. /\ player' \in Nat /\ drops' \in 0 .. MaxDrop /\ generation' \in Nat
      /\ generation' + drops <= generation + drops'
  BY Numbers DEF PlayerRest
<1> QED BY <1>1, <1>2, <1>3, <1>4, <1>5, HostStep DEF PlayerRest

\* The controller is handed to whoever there is.
LEMMA MediaCtlReadyStep ==
  ASSUME IInv, MediaCtlReady PROVE IInv'
<1>0. TypeFlags /\ TypeLoop
  BY TypeParts DEF IInv
<1>1. /\ PlayerRest /\ phase' = phase /\ UNCHANGED toldVars /\ deferred' = deferred
      /\ generation' = generation /\ loading' = loading /\ results' = results /\ drops' = drops
      /\ closed' = closed /\ open' = open /\ server' = server /\ loop' = loop
  BY DEF MediaCtlReady, PlayerRest, wizardVars, formVars, loopVars, windowVars, saveVars, playerVars,
         serverVars, boundVars
<1>2. ~Gone /\ \/ mc' = "lost"
               \/ mc' = CASE ~Handles -> "lost"
                          [] Handles /\ closed -> "closed"
                          [] Live /\ player = 0 -> "held"
                          [] Live /\ player \in open -> "used"
                          [] OTHER -> "late"
  BY DEF MediaCtlReady
<1>3. /\ mc' \in {"held", "used", "dropped", "late", "closed", "lost"}
      /\ mc' = "held" => player = 0 /\ ~closed
      /\ mc' = "used" => player \in open /\ ~closed
  <2>1. CASE mc' = "lost"
    BY <2>1
  <2>2. CASE mc' # "lost"
    <3>1. mc' = CASE ~Handles -> "lost"
                  [] Handles /\ closed -> "closed"
                  [] Live /\ player = 0 -> "held"
                  [] Live /\ player \in open -> "used"
                  [] OTHER -> "late"
      BY <1>2, <2>2
    <3>2. player = 0 => player \notin open
      BY TypeParts DEF IInv, TypePlayer
    <3> QED BY <3>1, <3>2 DEF Live
  <2> QED BY <2>1, <2>2
<1>4. TypeLoop' /\ Held'
  BY <1>0, <1>1, <1>3 DEF TypeLoop, IInv, Held, PlayerRest
<1>5. /\ closed' \in BOOLEAN /\ open' \in {open, open \ {player}} /\ server' \in {server, 0}
      /\ (Live' => Live) /\ (Live' /\ player = 0 => server' = server)
  BY <1>0, <1>1 DEF TypeFlags, Live, Handles
<1> QED BY <1>1, <1>4, <1>5, EndStep

\* The player closes itself, and its controller.
LEMMA PlayerQuitsStep ==
  ASSUME IInv, PlayerQuits PROVE IInv'
<1>0. TypeFlags /\ TypeLoop
  BY TypeParts DEF IInv
<1>1. /\ PlayerRest /\ phase' = phase /\ UNCHANGED toldVars /\ deferred' = deferred
      /\ generation' = generation /\ loading' = loading /\ results' = results /\ drops' = drops
      /\ closed' = closed /\ open' = open \ {player} /\ server' = 0 /\ Live /\ player \in open
      /\ mc' = IF mc = "used" /\ player \in open THEN "closed" ELSE mc
      /\ loop' = IF loop = "forced" THEN loop ELSE "quitting"
  BY DEF PlayerQuits, ClosePlayer, Quitting, PlayerRest, wizardVars, formVars, windowVars, saveVars,
         boundVars
<1>2. loop' \in {loop, "quitting"} /\ mc' \in {mc, "closed"} /\ mc' # "used"
  BY <1>1
<1>3. player # 0
  BY <1>1, TypeParts DEF IInv, TypePlayer
<1>4. TypeLoop' /\ Held'
  BY <1>0, <1>1, <1>2, <1>3 DEF TypeLoop, IInv, Held, PlayerRest, Live, Handles
<1>5. /\ closed' \in BOOLEAN /\ open' \in {open, open \ {player}} /\ server' \in {server, 0}
      /\ (Live' => Live) /\ (Live' /\ player = 0 => server' = server)
  BY <1>0, <1>1, <1>3 DEF TypeFlags
<1> QED BY <1>1, <1>4, <1>5, EndStep

\* The program is made to end, and its loop does.
LEMMA LoopStep ==
  ASSUME IInv, ForceQuit \/ LoopEnds PROVE IInv'
<1>0. TypeFlags /\ TypeLoop
  BY TypeParts DEF IInv
<1>1. /\ PlayerRest /\ phase' = phase /\ UNCHANGED toldVars /\ deferred' = deferred
      /\ generation' = generation /\ loading' = loading /\ results' = results /\ drops' = drops
      /\ closed' = closed /\ open' = open /\ server' = server /\ mc' = mc
      /\ loop' \in {"forced", "failed", "ended"}
  BY DEF ForceQuit, LoopEnds, PlayerRest, wizardVars, formVars, windowVars, saveVars,
         boundVars, playerVars, serverVars
<1>2. TypeLoop' /\ Held'
  BY <1>0, <1>1 DEF TypeLoop, IInv, Held, PlayerRest
<1>3. /\ closed' \in BOOLEAN /\ open' \in {open, open \ {player}} /\ server' \in {server, 0}
      /\ (Live' => Live) /\ (Live' /\ player = 0 => server' = server)
  BY <1>0, <1>1 DEF TypeFlags, ForceQuit, LoopEnds, Live, Handles
<1> QED BY <1>1, <1>2, <1>3, EndStep

\* The program is over: what is left is closed, unless the exit code is there.
LEMMA ExitStep ==
  ASSUME IInv, Exit PROVE IInv'
<1>0. TypeFlags /\ TypeLoop
  BY TypeParts DEF IInv
<1>1. /\ PlayerRest /\ phase' = phase /\ UNCHANGED toldVars /\ deferred' = deferred
      /\ generation' = generation /\ loading' = loading /\ results' = results /\ drops' = drops
      /\ loop' \in {"killed", "exited"}
      /\ \/ UNCHANGED <<closed, open, mc, server>> /\ (loop' = "exited" => closed)
         \/ CloseAll
  BY DEF Exit, PlayerRest, wizardVars, formVars, windowVars, saveVars, boundVars, playerVars
<1>2. /\ closed' \in BOOLEAN /\ open' \in {open, open \ {player}} /\ server' \in {server, 0}
      /\ mc' \in {mc, "closed"}
  <2>1. CASE UNCHANGED <<closed, open, mc, server>>
    BY <1>0, <2>1 DEF TypeFlags
  <2>2. CASE CloseAll
    <3>1. closed' = TRUE /\ open' = open \ {player} /\ server' = 0
      BY <2>2 DEF CloseAll
    <3>2. closed' \in BOOLEAN
      BY <3>1
    <3>3. mc' \in {mc, "closed"}
      BY <2>2 DEF CloseAll
    <3> QED BY <3>1, <3>2, <3>3
  <2> QED BY <1>1, <2>1, <2>2
<1>3. TypeLoop'
  BY <1>0, <1>1, <1>2 DEF TypeLoop
<1>4. Held'
  <2>1. CASE UNCHANGED <<closed, open, mc, server>> /\ (loop' = "exited" => closed)
    BY <1>1, <2>1 DEF IInv, Held, PlayerRest
  <2>2. CASE CloseAll
    <3>1. closed' = TRUE /\ open' = open \ {player}
          /\ mc' = IF mc = "held" \/ (mc = "used" /\ player \in open) THEN "closed" ELSE mc
      BY <2>2 DEF CloseAll
    <3>2. mc' # "held" /\ mc' # "used"
      BY <3>1 DEF IInv, Held
    <3> QED BY <1>1, <3>1, <3>2 DEF Held, PlayerRest
  <2> QED BY <1>1, <2>1, <2>2
<1>5. ~Live'
  BY <1>1 DEF Live, Handles
<1> QED BY <1>1, <1>2, <1>3, <1>4, <1>5, EndStep

-----------------------------------------------------------------------------
(* The queue of the window's events. *)

\* What waits in the rest of a queue: what did in all of it, less the head.
LEMMA WaitingTail ==
  ASSUME NEW q \in Seq(Events), q # <<>>
  PROVE  /\ Tail(q) \in Seq(Events)
         /\ Cardinality(Waiting(Tail(q))) \in Nat /\ Cardinality(Waiting(q)) \in Nat
         /\ Cardinality(Waiting(Tail(q))) <= Cardinality(Waiting(q))
         /\ Head(q).kind = "request" =>
              Cardinality(Waiting(Tail(q))) + 1 = Cardinality(Waiting(q))
<1>1. /\ Tail(q) \in Seq(Events) /\ Len(Tail(q)) = Len(q) - 1 /\ Len(q) \in Nat /\ Len(q) > 0
      /\ \A i \in 1 .. Len(q) - 1 : Tail(q)[i] = q[i + 1]
      /\ Head(q) = q[1]
  OBVIOUS
<1> DEFINE W == Waiting(q) \ {1}
           T == Waiting(Tail(q))
           f == [i \in T |-> i + 1]
<1>2. IsFiniteSet(W) /\ IsFiniteSet(T) /\ IsFiniteSet(Waiting(q))
  BY <1>1, WaitingFinite, FS_Subset
<1>3. \A i \in T : i + 1 \in W
  BY <1>1 DEF Waiting
<1>4. \A k \in W : \E i \in T : i + 1 = k
  <2> TAKE k \in W
  <2>1. k \in Nat /\ k > 1 /\ k <= Len(q) /\ q[k].kind = "request"
    BY <1>1 DEF Waiting
  <2>2. k - 1 \in 1 .. Len(q) - 1 /\ (k - 1) + 1 = k
    BY <1>1, <2>1
  <2>3. k - 1 \in T
    BY <1>1, <2>1, <2>2 DEF Waiting
  <2> QED BY <2>2, <2>3
<1>5. T \subseteq Nat
  BY <1>1 DEF Waiting
<1> HIDE DEF W, T
<1>6. f \in Bijection(T, W)
  <2>1. f \in [T -> W]
    BY <1>3
  <2>2. \A a, b \in T : f[a] = f[b] => a = b
    BY <1>5
  <2>3. \A k \in W : \E i \in T : f[i] = k
    BY <1>4
  <2> HIDE DEF f
  <2> QED BY <2>1, <2>2, <2>3 DEF Bijection, Injection, IsInjective, Surjection
<1>7. Cardinality(T) = Cardinality(W) /\ Cardinality(W) \in Nat
  <2>1. ExistsBijection(T, W)
    BY <1>6 DEF ExistsBijection
  <2> QED BY <1>2, <2>1, FS_Bijection, FS_CardinalityType
<1>8. Cardinality(Waiting(q)) = IF 1 \in Waiting(q) THEN Cardinality(W) + 1 ELSE Cardinality(W)
  <2>1. CASE 1 \in Waiting(q)
    <3>1. Cardinality(W) = Cardinality(Waiting(q)) - 1 /\ Cardinality(Waiting(q)) \in Nat
      BY <1>2, <2>1, FS_RemoveElement, FS_CardinalityType DEF W
    <3> QED BY <2>1, <3>1
  <2>2. CASE 1 \notin Waiting(q)
    BY <2>2 DEF W
  <2> QED BY <2>1, <2>2
<1>9. Head(q).kind = "request" => 1 \in Waiting(q)
  BY <1>1 DEF Waiting
<1> QED BY <1>1, <1>7, <1>8, <1>9 DEF T

\* What waits in a queue that has grown by an event.
LEMMA WaitingAppend ==
  ASSUME NEW q \in Seq(Events), NEW e \in Events
  PROVE  /\ Append(q, e) \in Seq(Events)
         /\ Cardinality(Waiting(Append(q, e))) \in Nat /\ Cardinality(Waiting(q)) \in Nat
         /\ Cardinality(Waiting(Append(q, e))) <= Cardinality(Waiting(q)) + 1
         /\ e.kind # "request" => Waiting(Append(q, e)) = Waiting(q)
<1> DEFINE n == Len(q)
           r == Append(q, e)
<1>1. /\ n \in Nat /\ r \in Seq(Events) /\ Len(r) = n + 1 /\ r[n + 1] = e
      /\ \A i \in 1 .. n : r[i] = q[i]
  OBVIOUS
<1>2. Waiting(q) = {i \in 1 .. n : q[i].kind = "request"}
      /\ Waiting(r) = {i \in 1 .. n + 1 : r[i].kind = "request"}
  BY <1>1 DEF Waiting
<1>3. IsFiniteSet(Waiting(q)) /\ IsFiniteSet(Waiting(r))
  BY <1>1, WaitingFinite
<1> HIDE DEF n, r
<1>4. 1 .. n + 1 = (1 .. n) \cup {n + 1} /\ n + 1 \notin 1 .. n
  BY <1>1
<1>5. Waiting(r) = IF e.kind = "request" THEN Waiting(q) \cup {n + 1} ELSE Waiting(q)
  BY <1>1, <1>2, <1>4
<1>6. Cardinality(Waiting(q)) \in Nat /\ Cardinality(Waiting(r)) \in Nat
  BY <1>3, FS_CardinalityType
<1>7. Cardinality(Waiting(r)) <= Cardinality(Waiting(q)) + 1
  <2>1. CASE e.kind = "request"
    <3>1. Cardinality(Waiting(r)) \in {Cardinality(Waiting(q)), Cardinality(Waiting(q)) + 1}
      BY <1>3, <1>5, <2>1, FS_AddElement
    <3> QED BY <1>6, <3>1
  <2>2. CASE e.kind # "request"
    BY <1>5, <1>6, <2>2
  <2> QED BY <2>1, <2>2
<1> QED BY <1>1, <1>5, <1>6, <1>7 DEF r

\* A load that an event asked for is paid with the event.
LoadPaid ==
  \/ generation' = generation /\ loading' = loading /\ results' = results
  \/ /\ Head(incoming).kind = "request"
     /\ generation' = generation + 1 /\ loading' = TRUE /\ results' = results \cup {generation + 1}

\* The session the host knows after an event: the same, with its end still to come; the
\* one that begins, which the server serves; or none.
SessionMoves ==
  \/ session' = session /\ Head(incoming) # [kind |-> "disconnected", session |-> session]
  \/ session' = 0
  \/ Head(incoming).kind = "connected" /\ session' = Head(incoming).session /\ session' = server

\* What is said of the queue and of the sessions, when the loop takes an event.
LEMMA TailFrame ==
  ASSUME IInv, incoming # <<>>, incoming' = Tail(incoming),
         UNCHANGED <<sessions, requests, drops, player>>,
         server' \in {server, 0}, session' \in {session, server, 0}, LoadPaid,
         Live' /\ Setup' => Live /\ Setup /\ server' = server /\ SessionMoves
  PROVE  Typed' /\ Ordered' /\ TypeQueue' /\ generation' \in Generation
<1> DEFINE q == incoming
           n == Len(q)
           r == Tail(q)
<1>1. /\ q \in Seq(Events) /\ n \in Nat /\ n > 0 /\ r \in Seq(Events) /\ Len(r) = n - 1
      /\ \A i \in 1 .. n - 1 : r[i] = q[i + 1]
      /\ Head(q) = q[1]
  BY DEF IInv, Typed
<1>2. /\ generation \in Nat /\ drops \in 0 .. MaxDrop /\ player \in Nat /\ requests \in 0 .. MaxRequest
      /\ sessions \in 0 .. MaxSession /\ server \in {0, sessions} /\ session <= sessions
      /\ session \in Nat /\ sessions \in Nat
  BY Numbers, TypeParts, StartupAssumption DEF IInv, Typed, TypeWindow
<1>3. TypeQueue'
  <2>1. n <= MaxQueue
    BY TypeParts DEF IInv, TypeQueue
  <2>2. Len(incoming') = n - 1
    BY <1>1
  <2> HIDE DEF n
  <2> QED BY <1>1, <2>1, <2>2, StartupAssumption DEF TypeQueue
<1>4. /\ generation' \in Nat
      /\ generation' + Cardinality(Waiting(r)) <= drops + requests
  <2> DEFINE a == Cardinality(Waiting(q))
             b == Cardinality(Waiting(r))
  <2>1. /\ a \in Nat /\ b \in Nat /\ b <= a
        /\ Head(q).kind = "request" => b + 1 = a
    BY <1>1, WaitingTail
  <2>2. generation + a <= drops + requests
    BY DEF IInv, Typed
  <2>3. drops \in Nat /\ requests \in Nat
    BY <1>2, StartupAssumption
  <2> HIDE DEF a, b
  <2>4. CASE generation' = generation
    <3>1. \A g, d, m, x, y \in Nat : g + x <= d + m /\ y <= x => g + y <= d + m
      OBVIOUS
    <3>2. generation + b <= drops + requests
      BY <1>2, <2>1, <2>2, <2>3, <3>1
    <3> QED BY <1>2, <2>4, <3>2 DEF b
  <2>5. CASE Head(q).kind = "request" /\ generation' = generation + 1
    <3>1. \A g, d, m, x, y \in Nat : g + x <= d + m /\ y + 1 = x => (g + 1) + y <= d + m
      OBVIOUS
    <3>2. (generation + 1) + b <= drops + requests
      BY <1>2, <2>1, <2>2, <2>3, <2>5, <3>1
    <3> QED BY <1>2, <2>5, <3>2 DEF b
  <2> QED BY <2>4, <2>5 DEF LoadPaid
<1>5. generation' \in Generation
  <2> DEFINE b == Cardinality(Waiting(r))
  <2>1. b \in Nat
    BY <1>1, WaitingTail
  <2>2. generation' + b <= drops + requests
    BY <1>4
  <2> HIDE DEF b
  <2>3. drops \in Nat /\ requests \in Nat /\ drops <= MaxDrop /\ requests <= MaxRequest
        /\ MaxDrop \in Nat /\ MaxRequest \in Nat
    BY <1>2, StartupAssumption
  <2>4. \A g, y, d, m, D, R \in Nat : g + y <= d + m /\ d <= D /\ m <= R => g \in 0 .. D + R
    OBVIOUS
  <2> QED BY <1>4, <2>1, <2>2, <2>3, <2>4 DEF Generation
<1>6. Typed'
  <2>1. incoming' \in Seq(Events) /\ player' \in Nat /\ sessions' \in 0 .. MaxSession
        /\ requests' \in 0 .. MaxRequest /\ drops' \in 0 .. MaxDrop
    BY <1>1, <1>2
  <2>2. server' \in {0, sessions'} /\ session' <= sessions'
    BY <1>2
  <2>3. generation' + Cardinality(Waiting(incoming')) <= drops' + requests'
    BY <1>4
  <2> QED BY <2>1, <2>2, <2>3 DEF Typed
<1>7. Ordered'
  <2>1. /\ \A i \in 1 .. n : q[i].kind = "connected" => q[i].session <= sessions
        /\ \A i, j \in 1 .. n : i < j /\ q[i].kind = "connected" /\ q[j].kind = "connected" =>
             q[i].session < q[j].session
    BY DEF IInv, Ordered, Places, Begun
  <2>2. \A i \in 1 .. n - 1 : i + 1 \in 1 .. n /\ r[i] = q[i + 1]
    BY <1>1
  <2>3. /\ \A i \in 1 .. n - 1 : r[i].kind = "connected" => r[i].session <= sessions
        /\ \A i, j \in 1 .. n - 1 : i < j /\ r[i].kind = "connected" /\ r[j].kind = "connected" =>
             r[i].session < r[j].session
    BY <1>1, <2>1, <2>2
  <2>4. ASSUME Live', Setup', session' # 0
        PROVE  /\ session' # server' =>
                    \E i \in 1 .. n - 1 : r[i] = [kind |-> "disconnected", session |-> session']
               /\ \A i \in 1 .. n - 1 : r[i].kind = "connected" =>
                    \E j \in 1 .. n - 1 : j < i /\ r[j] = [kind |-> "disconnected", session |-> session']
    <3>1. Live /\ Setup /\ server' = server /\ SessionMoves
      BY <2>4
    <3>2. CASE session' = session /\ Head(q) # [kind |-> "disconnected", session |-> session]
      <4> DEFINE x == [kind |-> "disconnected", session |-> session]
      <4>1. /\ session # server => \E i \in 1 .. n : q[i] = x
            /\ \A i \in 1 .. n : q[i].kind = "connected" => \E j \in 1 .. n : j < i /\ q[j] = x
        BY <2>4, <3>1, <3>2 DEF IInv, Ordered, Places, Begun, Ended
      <4>2. q[1] # x
        BY <1>1, <3>2
      <4> HIDE DEF x
      <4>3. \A j \in 1 .. n : q[j] = x => j - 1 \in 1 .. n - 1 /\ r[j - 1] = x
        <5> TAKE j \in 1 .. n
        <5> HAVE q[j] = x
        <5>1. j # 1 /\ j \in Nat
          BY <4>2
        <5>2. j - 1 \in 1 .. n - 1 /\ (j - 1) + 1 = j
          BY <1>1, <5>1
        <5> QED BY <1>1, <5>2
      <4>4. session # server => \E i \in 1 .. n - 1 : r[i] = x
        BY <4>1, <4>3
      <4>5. \A i \in 1 .. n - 1 : r[i].kind = "connected" => \E j \in 1 .. n - 1 : j < i /\ r[j] = x
        <5> TAKE i \in 1 .. n - 1
        <5> HAVE r[i].kind = "connected"
        <5>1. PICK j \in 1 .. n : j < i + 1 /\ q[j] = x
          BY <1>1, <2>2, <4>1
        <5>2. j - 1 \in 1 .. n - 1 /\ r[j - 1] = x /\ j - 1 < i
          BY <1>1, <4>3, <5>1
        <5> QED BY <5>2
      <4> QED BY <3>1, <3>2, <4>4, <4>5 DEF x
    <3>3. CASE Head(q).kind = "connected" /\ session' = Head(q).session /\ session' = server
      <4>1. q[1].kind = "connected" /\ q[1].session = sessions
        BY <1>1, <1>2, <2>4, <3>3
      <4>2. \A i \in 1 .. n - 1 : r[i].kind # "connected"
        <5> TAKE i \in 1 .. n - 1
        <5>1. i + 1 \in 1 .. n /\ 1 \in 1 .. n /\ 1 < i + 1 /\ r[i] = q[i + 1]
          BY <1>1, <2>2
        <5>2. q[i + 1].session \in Int
          BY <1>1, <5>1 DEF Events
        <5> QED BY <1>2, <2>1, <4>1, <5>1, <5>2
      <4> QED BY <3>1, <3>3, <4>2
    <3> QED BY <2>4, <3>1, <3>2, <3>3 DEF SessionMoves
  <2>5. Len(incoming') = n - 1 /\ incoming' = r
    BY <1>1
  <2> HIDE DEF n, r
  <2> QED BY <2>3, <2>4, <2>5 DEF Ordered, Places, Begun, Ended
<1> QED BY <1>3, <1>5, <1>6, <1>7

\* What an event leaves alone: the saves, the bounds, what is loaded first.
EventRest ==
  /\ timer' = timer /\ saving' = saving /\ saveError' = saveError /\ save' = save
  /\ hint' = hint /\ sessions' = sessions /\ requests' = requests /\ drops' = drops
  /\ path' = path /\ deferred' = deferred /\ player' = player
  /\ form' = form /\ ending' = ending /\ sequence' = sequence /\ asks' = asks /\ probe' = probe

\* The loop takes an event.
Takes == Live /\ incoming # <<>> /\ incoming' = Tail(incoming) /\ EventRest

LEMMA EventStep ==
  ASSUME IInv, Takes, LoadPaid,
         pending' \in {pending, 0}, native' \in BOOLEAN, checks' \in SUBSET [id : Question, valid : BOOLEAN],
         phase' \in Phases, session' \in {session, server, 0}, server' \in {server, 0},
         pickerID' \in {pickerID, 0}, open' \in {open, open \ {player}},
         closed' \in BOOLEAN, guiNative' \in BOOLEAN, awaitGUI' \in BOOLEAN,
         TypeLoop', TypeTold',
         Live' /\ Setup => server' = server /\ SessionMoves,
         InStep', Awaiting', Told', Held', Chooser', PendingAnswerable'
  PROVE  IInv'
<1>0. /\ WizardTypeOK /\ TypeFlags /\ TypeSave /\ TypeLoop /\ TypePlayer /\ TypeWindow /\ TypeTold
  BY TypeParts DEF IInv
<1>1. Typed' /\ Ordered' /\ TypeQueue' /\ generation' \in Generation
  <2>1. Live' /\ Setup' => Live /\ Setup /\ server' = server /\ SessionMoves
    BY DEF Setup, Takes, EventRest
  <2> QED BY <2>1, TailFrame DEF Takes, EventRest
<1>2. WizardTypeOK'
  <2>1. pending' \in 0 .. MaxPick
    BY <1>0, MaxPickAssumption DEF WizardTypeOK
  <2> QED BY <1>0, <2>1 DEF WizardTypeOK, Takes, EventRest
<1>3. TypePlayer'
  <2>1. results' \in SUBSET Generation
    BY <1>0, <1>1 DEF LoadPaid, TypePlayer
  <2> QED BY <1>0, <1>1, <2>1 DEF TypePlayer, Takes, EventRest
<1>4. TypeWindow'
  <2>1. 0 \in 0 .. MaxSession /\ 0 \in 0 .. MaxPick
    BY StartupAssumption, MaxPickAssumption
  <2> QED BY <1>0, <2>1 DEF TypeWindow, Takes, EventRest
<1>5. TypeFlags' /\ TypeSave'
  <2>1. loading' \in BOOLEAN
    <3>1. loading' = loading \/ loading' = TRUE
      BY DEF LoadPaid
    <3> QED BY <1>0, <3>1 DEF TypeFlags
  <2>2. TypeFlags'
    BY <1>0, <2>1 DEF TypeFlags, Takes, EventRest
  <2> QED BY <1>0, <2>2 DEF TypeSave, Takes, EventRest
<1> QED BY <1>1, <1>2, <1>3, <1>4, <1>5, Joined

\* What was told stays true of a phase and a session that stay.
LEMMA PublishStep ==
  ASSUME IInv, NEW force \in BOOLEAN, Publish(force, phase'), phase' \in Phases,
         session' = session, server' = server
  PROVE  Told' /\ TypeTold'
<1>1. TypeTold
  BY TypeParts DEF IInv
<1>2. lastPhase' = told' /\ TypeTold' /\ (Reached => told' = [phase |-> phase', session |-> session])
  BY <1>1, PublishTells DEF IInv
<1> QED BY <1>2 DEF Told, Reached

\* A window connected.
LEMMA ConnectedStep ==
  ASSUME IInv, Takes, NEW s \in 1 .. MaxSession, Head(incoming) = [kind |-> "connected", session |-> s],
         Connected(s), UNCHANGED <<phase, mc, server, loopVars, playerVars>>
  PROVE  IInv'
<1>0. /\ WizardTypeOK /\ TypeFlags /\ TypeLoop /\ TypeWindow /\ TypeTold
  BY TypeParts DEF IInv
<1>1. /\ phase' = phase /\ mc' = mc /\ server' = server /\ loop' = loop /\ closed' = closed
      /\ open' = open /\ generation' = generation /\ loading' = loading /\ results' = results
      /\ path' = path /\ deferred' = deferred /\ player' = player
  BY DEF loopVars, playerVars
<1>2. /\ UNCHANGED wizardVars /\ pending' = pending /\ native' = native /\ checks' = checks
      /\ form' = form /\ asks' = asks
      /\ awaitGUI' = awaitGUI /\ pickerID' = pickerID
      /\ \/ s # server /\ session' = session /\ guiNative' = guiNative /\ Publish(FALSE, phase)
         \/ /\ s = server /\ session' = s /\ guiNative' = FALSE
            /\ lastPhase' = [phase |-> phase, session |-> s] /\ told' = lastPhase'
  BY DEF Connected, wizardVars, formVars, windowVars
<1>3. Setup => session = 0 /\ native = FALSE /\ pending = 0
  <2> DEFINE h == Head(incoming)
  <2> SUFFICES ASSUME Setup PROVE session = 0 /\ native = FALSE /\ pending = 0
    OBVIOUS
  <2>1. 1 \in Places /\ incoming[1] = h
    BY DEF Takes, IInv, Typed, Places
  <2>2. Begun(1)
    BY <2>1 DEF Begun
  <2>3. session # 0 => \E j \in Places : j < 1 /\ Ended(j)
    BY <2>1, <2>2 DEF IInv, Ordered, Takes
  <2>4. session = 0
    BY <2>3 DEF Places
  <2> QED BY <1>0, <2>4 DEF IInv, Chooser, WizardTypeOK
<1>4. Told' /\ TypeTold'
  <2>1. CASE s # server
    <3>1. Publish(FALSE, phase') /\ phase' \in Phases /\ session' = session
      BY <1>0, <1>1, <1>2, <2>1 DEF TypeWindow
    <3> QED BY <1>1, <3>1, PublishStep
  <2>2. CASE s = server
    <3>1. told' = [phase |-> phase', session |-> session'] /\ lastPhase' = told'
      BY <1>1, <1>2, <2>2
    <3>2. told'.phase = phase' /\ lastPhase'.phase = phase'
      BY <3>1
    <3> QED BY <1>0, <1>1, <3>1, <3>2 DEF Told, TypeTold, TypeWindow
  <2> QED BY <2>1, <2>2
<1>5. InStep' /\ Awaiting' /\ Held'
  BY <1>1, <1>2 DEF IInv, InStep, Awaiting, Held, Setup, Takes, EventRest, Unsaved
<1>6. Chooser' /\ PendingAnswerable'
  BY <1>1, <1>2, <1>3 DEF IInv, Chooser, PendingAnswerable, Setup, Fields
<1>7. LoadPaid /\ TypeLoop'
  BY <1>0, <1>1 DEF LoadPaid, TypeLoop
<1>8. Live' /\ Setup => server' = server /\ SessionMoves
  <2>1. CASE s = server
    <3>1. Head(incoming).kind = "connected" /\ Head(incoming).session = s
      OBVIOUS
    <3> QED BY <1>1, <1>2, <2>1, <3>1 DEF SessionMoves
  <2>2. CASE s # server
    BY <1>1, <1>2, <1>3, <2>2 DEF SessionMoves
  <2> QED BY <2>1, <2>2
<1>9. /\ pending' \in {pending, 0} /\ native' \in BOOLEAN /\ checks' \in SUBSET [id : Question, valid : BOOLEAN]
      /\ phase' \in Phases /\ session' \in {session, server, 0} /\ server' \in {server, 0}
      /\ pickerID' \in {pickerID, 0} /\ open' \in {open, open \ {player}}
  BY <1>0, <1>1, <1>2 DEF WizardTypeOK, TypeWindow
<1>10. closed' \in BOOLEAN /\ guiNative' \in BOOLEAN /\ awaitGUI' \in BOOLEAN
  <2>1. guiNative' = guiNative \/ guiNative' = FALSE
    BY <1>2
  <2> QED BY <1>0, <1>1, <1>2, <2>1 DEF TypeFlags
<1> QED BY <1>4, <1>5, <1>6, <1>7, <1>8, <1>9, <1>10, EventStep

\* A window's session is over.
LEMMA DisconnectedStep ==
  ASSUME IInv, Takes, NEW s \in 1 .. MaxSession, Head(incoming) = [kind |-> "disconnected", session |-> s],
         Disconnected(s), UNCHANGED <<phase, mc, server, loopVars, playerVars>>
  PROVE  IInv'
<1>0. /\ WizardTypeOK /\ TypeFlags /\ TypeLoop /\ TypeWindow /\ TypeTold
  BY TypeParts DEF IInv
<1>1. /\ phase' = phase /\ mc' = mc /\ server' = server /\ loop' = loop /\ closed' = closed
      /\ open' = open /\ generation' = generation /\ loading' = loading /\ results' = results
      /\ path' = path /\ deferred' = deferred /\ player' = player
  BY DEF loopVars, playerVars
<1>2. awaitGUI' = awaitGUI /\ checks' = checks /\ form' = form /\ asks' = asks
  BY DEF Disconnected, wizardVars, formVars, windowVars, SetGUI
<1>3. InStep' /\ Held' /\ LoadPaid /\ TypeLoop'
  BY <1>0, <1>1, <1>2 DEF IInv, InStep, Held, Setup, Takes, EventRest, LoadPaid, TypeLoop
<1>4. CASE s # session
  <2>1. /\ UNCHANGED wizardVars /\ pending' = pending /\ native' = native
        /\ session' = session /\ guiNative' = guiNative /\ pickerID' = pickerID /\ Publish(FALSE, phase)
    BY <1>4 DEF Disconnected, wizardVars, formVars, windowVars
  <2>2. Told' /\ TypeTold'
    <3>1. Publish(FALSE, phase') /\ phase' \in Phases
      BY <1>0, <1>1, <2>1 DEF TypeWindow
    <3> QED BY <1>1, <2>1, <3>1, PublishStep
  <2>3. Awaiting' /\ Chooser' /\ PendingAnswerable'
    BY <1>1, <1>2, <2>1 DEF IInv, Awaiting, Chooser, PendingAnswerable, Setup, Takes, EventRest, Live, Unsaved, Fields
  <2>4. SessionMoves
    <3>1. [kind |-> "disconnected", session |-> s] # [kind |-> "disconnected", session |-> session]
      BY <1>4
    <3> QED BY <2>1, <3>1 DEF SessionMoves
  <2>5. /\ pending' \in {pending, 0} /\ native' \in BOOLEAN /\ checks' \in SUBSET [id : Question, valid : BOOLEAN]
        /\ phase' \in Phases /\ session' \in {session, server, 0} /\ server' \in {server, 0}
        /\ pickerID' \in {pickerID, 0} /\ open' \in {open, open \ {player}}
    BY <1>0, <1>1, <1>2, <2>1 DEF WizardTypeOK, TypeWindow
  <2>6. closed' \in BOOLEAN /\ guiNative' \in BOOLEAN /\ awaitGUI' \in BOOLEAN
    BY <1>0, <1>1, <1>2, <2>1 DEF TypeFlags
  <2> QED BY <1>1, <1>3, <2>2, <2>3, <2>4, <2>5, <2>6, EventStep
<1>5. CASE s = session
  <2>1. /\ session' = 0 /\ guiNative' = FALSE /\ pickerID' = 0 /\ lastPhase' = lastPhase /\ told' = told
        /\ Setup => native' = FALSE /\ pending' = 0
        /\ ~Setup => native' = native /\ pending' = pending
    BY <1>5 DEF Disconnected, SetGUI, toldVars, wizardVars, formVars
  <2>2. Told' /\ TypeTold'
    BY <1>0, <2>1 DEF IInv, Told, TypeTold, Reached
  <2>3. Awaiting' /\ Chooser' /\ PendingAnswerable'
    <3>1. Awaiting'
      BY <1>1, <1>2, <2>1 DEF IInv, Awaiting, Takes, EventRest, Unsaved, Setup
    <3> QED BY <1>2, <2>1, <3>1 DEF Chooser, PendingAnswerable, Setup, Fields
  <2>4. /\ pending' \in {pending, 0} /\ native' \in BOOLEAN /\ checks' \in SUBSET [id : Question, valid : BOOLEAN]
        /\ phase' \in Phases /\ session' \in {session, server, 0} /\ server' \in {server, 0}
        /\ pickerID' \in {pickerID, 0} /\ open' \in {open, open \ {player}}
    <3>1. native' \in BOOLEAN
      <4>1. native' = native \/ native' = FALSE
        BY <2>1
      <4> QED BY <1>0, <4>1 DEF WizardTypeOK
    <3> QED BY <1>0, <1>1, <1>2, <2>1, <3>1 DEF WizardTypeOK, TypeWindow
  <2>5. closed' \in BOOLEAN /\ guiNative' \in BOOLEAN /\ awaitGUI' \in BOOLEAN
    <3>1. guiNative' \in BOOLEAN
      BY <2>1
    <3> QED BY <1>0, <1>1, <1>2, <3>1 DEF TypeFlags
  <2>6. SessionMoves
    BY <2>1 DEF SessionMoves
  <2> QED BY <1>1, <1>3, <2>2, <2>3, <2>4, <2>5, <2>6, EventStep
<1> QED BY <1>4, <1>5

\* A request, but for what ends the program and what opens a track: Publish follows.
LEMMA HelloStep ==
  ASSUME IInv, Takes, NEW can \in BOOLEAN, session # 0, Head(incoming).kind = "request",
         Hello(can), Publish(FALSE, phase'),
         UNCHANGED <<loopVars, open, mc, server, generation, loading, results>>
  PROVE  IInv'
<1>0. /\ WizardTypeOK /\ TypeFlags /\ TypeLoop /\ TypeWindow /\ TypeTold
  BY TypeParts DEF IInv
<1>1. /\ mc' = mc /\ server' = server /\ loop' = loop /\ closed' = closed /\ open' = open
      /\ generation' = generation /\ loading' = loading /\ results' = results /\ player' = player
      /\ guiNative' = can /\ session' = session /\ pickerID' = pickerID
      /\ checks' = checks /\ form' = form /\ asks' = asks
  BY DEF Hello, SetGUI, loopVars, wizardVars, formVars, Takes, EventRest
<1>2. /\ Setup => /\ awaitGUI' = FALSE /\ phase' = "wizard" /\ native' = can
                  /\ pending' = IF can THEN pending ELSE 0
      /\ ~Setup => awaitGUI' = awaitGUI /\ phase' = phase /\ native' = native /\ pending' = pending
  BY DEF Hello, SetGUI, wizardVars, formVars
<1>3. phase' \in Phases /\ awaitGUI' \in BOOLEAN /\ native' \in BOOLEAN /\ pending' \in {pending, 0}
  <2>1. CASE Setup
    <3>1. phase' = "wizard" /\ awaitGUI' = FALSE
      BY <1>2, <2>1
    <3>2. awaitGUI' \in BOOLEAN
      BY <3>1
    <3> QED BY <1>2, <2>1, <3>1, <3>2 DEF Phases
  <2>2. CASE ~Setup
    BY <1>0, <1>2, <2>2 DEF TypeWindow, TypeFlags, WizardTypeOK
  <2> QED BY <2>1, <2>2
<1>4. Told' /\ TypeTold'
  BY <1>1, <1>3, PublishStep
<1>5. InStep' /\ Held' /\ LoadPaid /\ TypeLoop'
  <2>1. InStep'
    <3>1. CASE Setup
      BY <1>1, <1>2, <3>1 DEF IInv, InStep, Setup
    <3>2. CASE ~Setup
      BY <1>1, <1>2, <3>2 DEF IInv, InStep, Setup
    <3> QED BY <3>1, <3>2
  <2> QED BY <1>0, <1>1, <2>1 DEF IInv, Held, LoadPaid, TypeLoop
<1>6. Awaiting' /\ Chooser' /\ PendingAnswerable'
  <2>1. CASE Setup
    <3>1. Chooser'
      <4>1. native' = guiNative' /\ (native' => session' # 0)
        BY <1>1, <1>2, <2>1
      <4>2. pending' # 0 => can
        BY <1>2, <2>1
      <4> QED BY <1>2, <2>1, <4>1, <4>2 DEF Chooser
    <3>2. PendingAnswerable'
      BY <1>1, <1>2, <2>1 DEF IInv, PendingAnswerable, Setup, Takes, EventRest
    <3> QED BY <1>1, <1>2, <2>1, <3>1, <3>2 DEF IInv, Awaiting, Unsaved, Setup, Takes, EventRest
  <2>2. CASE ~Setup
    <3>1. ~awaitGUI
      BY <2>2 DEF IInv, Awaiting, InStep
    <3> QED BY <1>1, <1>2, <2>2, <3>1
            DEF Awaiting, Chooser, PendingAnswerable, Setup, Unsaved, Fields, Takes, EventRest
  <2> QED BY <2>1, <2>2
<1>7. SessionMoves
  BY <1>1 DEF SessionMoves
<1>8. /\ checks' \in SUBSET [id : Question, valid : BOOLEAN]
      /\ session' \in {session, server, 0} /\ server' \in {server, 0}
      /\ pickerID' \in {pickerID, 0} /\ open' \in {open, open \ {player}}
      /\ closed' \in BOOLEAN /\ guiNative' \in BOOLEAN
  BY <1>0, <1>1 DEF WizardTypeOK, TypeFlags
<1> QED BY <1>1, <1>3, <1>4, <1>5, <1>6, <1>7, <1>8, EventStep

\* The window's answer to the question it was asked.
LEMMA FilePickedStep ==
  ASSUME IInv, Takes, NEW msg, msg.id \in Question, Head(incoming).kind = "request",
         FilePicked(msg), Publish(FALSE, phase'),
         UNCHANGED <<loopVars, open, mc, server, generation, loading, results>>
  PROVE  IInv'
<1>0. /\ WizardTypeOK /\ TypeFlags /\ TypeLoop /\ TypeWindow /\ TypeTold
  BY TypeParts DEF IInv
<1>1. /\ mc' = mc /\ server' = server /\ loop' = loop /\ closed' = closed /\ open' = open
      /\ generation' = generation /\ loading' = loading /\ results' = results /\ player' = player
      /\ guiNative' = guiNative /\ session' = session /\ awaitGUI' = awaitGUI /\ phase' = phase
      /\ form' = form
  BY DEF FilePicked, loopVars, Takes, EventRest
<1>2. \/ pickerID' = pickerID /\ UNCHANGED wizardVars
      \/ Setup /\ pickerID # 0 /\ msg.id = pickerID /\ pickerID' = 0 /\ Answer(msg.id, msg.status)
  BY DEF FilePicked
<1>3. /\ native' = native /\ asks' = asks
      /\ \/ pickerID' \in {pickerID, 0} /\ (pickerID' = pickerID \/ pending # pickerID)
            /\ pending' = pending /\ checks' = checks
         \/ pickerID' = 0 /\ pending # 0 /\ pending = msg.id /\ pending' = pending
            /\ \E valid \in BOOLEAN : checks' = checks \cup {[id |-> pending, valid |-> valid]}
         \/ pickerID' = 0 /\ pending # 0 /\ pending' = 0 /\ checks' = checks
  <2>1. CASE pickerID' = pickerID /\ UNCHANGED wizardVars
    BY <2>1 DEF wizardVars, formVars
  <2>2. CASE Setup /\ pickerID # 0 /\ msg.id = pickerID /\ pickerID' = 0 /\ Answer(msg.id, msg.status)
    <3>1. CASE msg.id # pending
      BY <2>2, <3>1 DEF Answer, wizardVars, formVars
    <3>2. CASE msg.id = pending
      BY <2>2, <3>2 DEF Answer
    <3> QED BY <3>1, <3>2
  <2> QED BY <1>2, <2>1, <2>2
<1>4. checks' \in SUBSET [id : Question, valid : BOOLEAN]
  BY <1>0, <1>3 DEF WizardTypeOK
<1>5. Told' /\ TypeTold'
  <2>1. phase' \in Phases
    BY <1>0, <1>1 DEF TypeWindow
  <2> QED BY <1>1, <2>1, PublishStep
<1>6. InStep' /\ Held' /\ LoadPaid /\ TypeLoop'
  BY <1>0, <1>1 DEF IInv, InStep, Held, Setup, LoadPaid, TypeLoop, Takes, EventRest
<1>7. Awaiting' /\ Chooser'
  BY <1>1, <1>3 DEF IInv, Awaiting, Chooser, Setup, Takes, EventRest, Unsaved
<1>8. PendingAnswerable'
  <2> SUFFICES ASSUME Setup, form \in Fields, pending' # 0 PROVE Answerable'
    BY <1>1 DEF PendingAnswerable, Answerable, Setup, Fields, Takes, EventRest
  <2>1. pending' = pending /\ Answerable
    BY <1>1, <1>3 DEF IInv, PendingAnswerable, Answerable, Takes, EventRest
  <2>2. CASE pickerID' = pickerID \/ pending # pickerID
    BY <1>1, <1>3, <2>1, <2>2 DEF Answerable
  <2>3. CASE \E valid \in BOOLEAN : checks' = checks \cup {[id |-> pending, valid |-> valid]}
    <3>1. PICK valid \in BOOLEAN : checks' = checks \cup {[id |-> pending, valid |-> valid]}
      BY <2>3
    <3>2. [id |-> pending, valid |-> valid] \in checks' /\ [id |-> pending, valid |-> valid].id = pending'
      BY <2>1, <3>1
    <3> QED BY <3>2 DEF Answerable
  <2> QED BY <1>3, <2>1, <2>2, <2>3
<1>9. SessionMoves
  BY <1>1 DEF SessionMoves
<1>10. /\ pending' \in {pending, 0} /\ native' \in BOOLEAN
       /\ phase' \in Phases /\ session' \in {session, server, 0} /\ server' \in {server, 0}
       /\ pickerID' \in {pickerID, 0} /\ open' \in {open, open \ {player}}
       /\ closed' \in BOOLEAN /\ guiNative' \in BOOLEAN /\ awaitGUI' \in BOOLEAN
  BY <1>0, <1>1, <1>3 DEF WizardTypeOK, TypeFlags, TypeWindow
<1> QED BY <1>1, <1>4, <1>5, <1>6, <1>7, <1>8, <1>9, <1>10, EventStep

\* A request that changes neither form nor window: it may open a track, and may ask for
\* the phase again.
LEMMA PlainRequestStep ==
  ASSUME IInv, Takes, Head(incoming).kind = "request", LoadPaid,
         NEW force \in BOOLEAN, Publish(force, phase'),
         UNCHANGED <<wizardVars, windowVars, phase, loopVars, open, mc, server>>
  PROVE  IInv'
<1>0. /\ WizardTypeOK /\ TypeFlags /\ TypeLoop /\ TypeWindow /\ TypeTold
  BY TypeParts DEF IInv
<1>1. /\ mc' = mc /\ server' = server /\ loop' = loop /\ closed' = closed /\ open' = open
      /\ guiNative' = guiNative /\ session' = session /\ awaitGUI' = awaitGUI /\ phase' = phase
      /\ pickerID' = pickerID /\ form' = form /\ player' = player
      /\ pending' = pending /\ native' = native /\ checks' = checks /\ asks' = asks
  BY DEF loopVars, Takes, EventRest, wizardVars, formVars, windowVars
<1>2. Told' /\ TypeTold'
  <2>1. phase' \in Phases
    BY <1>0, <1>1 DEF TypeWindow
  <2> QED BY <1>1, <2>1, PublishStep
<1>3. InStep'
  BY <1>1 DEF IInv, InStep, Setup, LoadPaid
<1>4. Held' /\ TypeLoop' /\ Awaiting' /\ Chooser' /\ PendingAnswerable'
  BY <1>0, <1>1 DEF IInv, Held, TypeLoop, Awaiting, Chooser, PendingAnswerable, Setup, Takes, EventRest, Unsaved, Fields
<1>5. SessionMoves
  BY <1>1 DEF SessionMoves
<1>6. /\ pending' \in {pending, 0} /\ native' \in BOOLEAN /\ checks' \in SUBSET [id : Question, valid : BOOLEAN]
      /\ phase' \in Phases /\ session' \in {session, server, 0} /\ server' \in {server, 0}
      /\ pickerID' \in {pickerID, 0} /\ open' \in {open, open \ {player}}
      /\ closed' \in BOOLEAN /\ guiNative' \in BOOLEAN /\ awaitGUI' \in BOOLEAN
  BY <1>0, <1>1 DEF WizardTypeOK, TypeFlags, TypeWindow
<1> QED BY <1>1, <1>2, <1>3, <1>4, <1>5, <1>6, EventStep

\* The window asks for the end.
LEMMA QuitStep ==
  ASSUME IInv, Takes, Head(incoming).kind = "request", session # 0, Quit, LoadPaid,
         UNCHANGED <<wizardVars, windowVars, phase, toldVars>>
  PROVE  IInv'
<1>0. /\ WizardTypeOK /\ TypeFlags /\ TypeLoop /\ TypePlayer /\ TypeWindow /\ TypeTold
  BY TypeParts DEF IInv
<1>1. /\ guiNative' = guiNative /\ session' = session /\ awaitGUI' = awaitGUI /\ phase' = phase
      /\ pickerID' = pickerID /\ form' = form /\ player' = player
      /\ pending' = pending /\ native' = native /\ checks' = checks /\ asks' = asks
      /\ lastPhase' = lastPhase /\ told' = told
  BY DEF toldVars, Takes, EventRest, wizardVars, formVars, windowVars
<1>2. /\ loop' \in {loop, "quitting"} /\ server' = 0 /\ open' = open \ {player}
      /\ closed' = (closed \/ phase # "ready")
      /\ mc' = IF mc = "used" \/ (phase # "ready" /\ mc = "held") THEN "closed" ELSE mc
  <2>1. loop' \in {loop, "quitting"}
    BY DEF Quit, Quitting
  <2>2. CASE phase = "ready"
    BY <1>0, <2>1, <2>2 DEF Quit, ClosePlayer, IInv, Held, TypeFlags, Takes, Live
  <2>3. CASE phase # "ready"
    BY <2>1, <2>3 DEF Quit, CloseAll, IInv, Held
  <2> QED BY <2>2, <2>3
<1>3. Held'
  <2>1. mc' # "used"
    BY <1>2
  <2>2. mc' = "held" => player = 0 /\ phase = "ready"
    BY <1>2 DEF IInv, Held
  <2>3. phase = "ready" => player # 0
    BY DEF IInv, InStep
  <2>4. loop' # "exited"
    BY <1>2 DEF Takes, Live, Handles
  <2> QED BY <1>1, <1>2, <2>1, <2>2, <2>3, <2>4 DEF Held
<1>4. TypeLoop' /\ Told' /\ TypeTold' /\ InStep'
  <2>1. mc' \in {mc, "closed"}
    BY <1>2
  <2>2. TypeLoop'
    BY <1>0, <1>2, <2>1 DEF TypeLoop
  <2>3. Told' /\ TypeTold'
    BY <1>0, <1>1, <1>2 DEF IInv, Told, TypeTold, Reached
  <2>4. InStep'
    BY <1>1, <1>2 DEF IInv, InStep, Setup, LoadPaid
  <2> QED BY <2>2, <2>3, <2>4
<1>5. Live' => ~Setup
  <2>1. closed' => ~Live'
    BY DEF Live
  <2> QED BY <1>2, <2>1 DEF IInv, InStep
<1>6. Awaiting' /\ Chooser' /\ PendingAnswerable'
  BY <1>1, <1>5 DEF IInv, Awaiting, Chooser, PendingAnswerable, Setup, Takes, EventRest, Unsaved, Fields
<1>7. closed' \in BOOLEAN
  BY <1>2
<1>8. /\ pending' \in {pending, 0} /\ native' \in BOOLEAN /\ checks' \in SUBSET [id : Question, valid : BOOLEAN]
      /\ phase' \in Phases /\ session' \in {session, server, 0} /\ server' \in {server, 0}
      /\ pickerID' \in {pickerID, 0} /\ open' \in {open, open \ {player}}
      /\ guiNative' \in BOOLEAN /\ awaitGUI' \in BOOLEAN
  BY <1>0, <1>1, <1>2 DEF WizardTypeOK, TypeFlags, TypeWindow
<1> QED BY <1>3, <1>4, <1>5, <1>6, <1>7, <1>8, EventStep

\* What a session of the window sent.
LEMMA RequestStep ==
  ASSUME IInv, Takes, NEW s \in 1 .. MaxSession, NEW msg \in Requests,
         Head(incoming) = [kind |-> "request", session |-> s, msg |-> msg], Request(s, msg)
  PROVE  IInv'
<1> DEFINE fresh == s = session /\ s = server
<1>1. Head(incoming).kind = "request"
  OBVIOUS
<1>2. s # 0
  OBVIOUS
<1>3. /\ CASE fresh /\ msg.type = "hello" -> Hello(msg.native)
           [] fresh /\ msg.type = "picked" -> FilePicked(msg)
           [] OTHER -> UNCHANGED <<wizardVars, windowVars, phase>>
      /\ IF fresh /\ msg.type = "quit" THEN Quit ELSE UNCHANGED <<loopVars, open, mc, server>>
      /\ IF fresh /\ msg.type = "open" /\ phase = "ready" /\ player \in open
           THEN /\ generation' = generation + 1
                /\ loading' = TRUE
                /\ results' = results \cup {generation + 1}
           ELSE UNCHANGED <<generation, loading, results>>
      /\ IF fresh /\ msg.type = "quit"
           THEN UNCHANGED toldVars
           ELSE Publish(fresh /\ msg.type = "get_state" /\ phase # "ready", phase')
  BY DEF Request
<1>4. LoadPaid
  BY <1>1, <1>3 DEF LoadPaid
<1>5. CASE fresh /\ msg.type = "hello"
  <2>1. msg.native \in BOOLEAN
    BY <1>5 DEF Requests
  <2>2. Hello(msg.native) /\ UNCHANGED <<loopVars, open, mc, server, generation, loading, results>>
    BY <1>3, <1>5
  <2>3. Publish(FALSE, phase')
    BY <1>3, <1>5
  <2> QED BY <1>1, <1>2, <1>5, <2>1, <2>2, <2>3, HelloStep
<1>6. CASE fresh /\ msg.type = "picked"
  <2>1. msg.id \in Question
    BY <1>6 DEF Requests
  <2>2. FilePicked(msg) /\ UNCHANGED <<loopVars, open, mc, server, generation, loading, results>>
    BY <1>3, <1>6
  <2>3. Publish(FALSE, phase')
    BY <1>3, <1>6
  <2> QED BY <1>1, <1>6, <2>1, <2>2, <2>3, FilePickedStep
<1>7. CASE fresh /\ msg.type = "quit"
  <2>1. Quit /\ UNCHANGED <<wizardVars, windowVars, phase, toldVars>>
    BY <1>3, <1>7
  <2> QED BY <1>1, <1>2, <1>4, <1>7, <2>1, QuitStep
<1>8. CASE ~(fresh /\ msg.type \in {"hello", "picked", "quit"})
  <2>1. /\ UNCHANGED <<wizardVars, windowVars, phase, loopVars, open, mc, server>>
        /\ Publish(fresh /\ msg.type = "get_state" /\ phase # "ready", phase')
    BY <1>3, <1>8
  <2>2. (fresh /\ msg.type = "get_state" /\ phase # "ready") \in BOOLEAN
    OBVIOUS
  <2> QED BY <1>1, <1>4, <2>1, <2>2, PlainRequestStep
<1> QED BY <1>5, <1>6, <1>7, <1>8

LEMMA IPCEventStep ==
  ASSUME IInv, IPCEvent PROVE IInv'
<1> DEFINE e == Head(incoming)
<1>1. /\ Live /\ incoming # <<>> /\ incoming' = Tail(incoming)
      /\ IF e.kind = "request"
           THEN Request(e.session, e.msg)
           ELSE /\ IF e.kind = "connected" THEN Connected(e.session) ELSE Disconnected(e.session)
                /\ UNCHANGED <<phase, mc, server, loopVars, playerVars>>
      /\ UNCHANGED <<timer, saveVars, boundVars>>
  BY DEF IPCEvent
<1>2. e \in Events
  <2>1. incoming \in Seq(Events)
    BY DEF IInv, Typed
  <2> QED BY <1>1, <2>1
<1> HIDE DEF e
<1>3. CASE e.kind = "request"
  <2>1. PICK s \in 1 .. MaxSession, msg \in Requests : e = [kind |-> "request", session |-> s, msg |-> msg]
    BY <1>2, <1>3 DEF Events
  <2>2. Request(s, msg)
    BY <1>1, <1>3, <2>1
  <2>3. Takes
    <3>1. path' = path /\ deferred' = deferred /\ player' = player
      BY <2>2 DEF Request
    <3>2. form' = form /\ ending' = ending /\ sequence' = sequence /\ probe' = probe /\ asks' = asks
      BY <2>2 DEF Request, Hello, FilePicked, Answer, SetGUI, wizardVars, formVars
    <3> QED BY <1>1, <3>1, <3>2 DEF Takes, EventRest, saveVars, boundVars
  <2> QED BY <2>1, <2>2, <2>3, RequestStep DEF e
<1>4. CASE e.kind # "request"
  <2>1. PICK k \in {"connected", "disconnected"}, s \in 1 .. MaxSession : e = [kind |-> k, session |-> s]
    BY <1>2, <1>4 DEF Events
  <2>2. /\ IF k = "connected" THEN Connected(s) ELSE Disconnected(s)
        /\ UNCHANGED <<phase, mc, server, loopVars, playerVars>>
    BY <1>1, <1>4, <2>1
  <2>3. Takes
    <3>1. form' = form /\ ending' = ending /\ sequence' = sequence /\ probe' = probe /\ asks' = asks
      BY <2>2 DEF Connected, Disconnected, SetGUI, wizardVars, formVars
    <3> QED BY <1>1, <2>2, <3>1 DEF Takes, EventRest, saveVars, boundVars, playerVars
  <2>4. CASE k = "connected"
    BY <2>1, <2>2, <2>3, <2>4, ConnectedStep DEF e
  <2>5. CASE k = "disconnected"
    BY <2>1, <2>2, <2>3, <2>5, DisconnectedStep DEF e
  <2> QED BY <2>4, <2>5
<1> QED BY <1>3, <1>4

\* The server reports: a session begins when the last one is over, ends, or sends.
LEMMA ReportStep ==
  ASSUME IInv, NEW e \in Events, Report(e),
         sessions' \in 0 .. MaxSession, sessions <= sessions', server' \in {0, sessions'},
         requests' \in 0 .. MaxRequest, requests <= requests',
         Reached' => Reached,
         e.kind = "request" => requests' = requests + 1,
         e.kind = "connected" => e.session = sessions' /\ sessions < sessions' /\ server = 0,
         session # 0 /\ session # server' =>
           session # server \/ e = [kind |-> "disconnected", session |-> session]
  PROVE  IInv'
<1>0. /\ WizardTypeOK /\ TypeFlags /\ TypeSave /\ TypeLoop /\ TypePlayer /\ TypeWindow /\ TypeTold
  BY TypeParts DEF IInv
<1>1. /\ UNCHANGED <<form, ending, pending, sequence, native, asks, checks, probe>>
      /\ loop' = loop /\ closed' = closed /\ timer' = timer /\ phase' = phase
      /\ session' = session /\ guiNative' = guiNative /\ awaitGUI' = awaitGUI /\ pickerID' = pickerID
      /\ lastPhase' = lastPhase /\ told' = told
      /\ saving' = saving /\ saveError' = saveError /\ save' = save
      /\ path' = path /\ deferred' = deferred /\ player' = player /\ open' = open
      /\ generation' = generation /\ loading' = loading /\ results' = results
      /\ mc' = mc /\ hint' = hint /\ drops' = drops
  BY DEF Report, wizardVars, formVars, loopVars, windowVars, toldVars, saveVars, playerVars
<1> DEFINE q == incoming
           n == Len(q)
           r == Append(q, e)
<1>2. /\ q \in Seq(Events) /\ n \in Nat /\ r \in Seq(Events) /\ Len(r) = n + 1 /\ r[n + 1] = e
      /\ \A i \in 1 .. n : r[i] = q[i]
      /\ incoming' = r /\ n < MaxQueue
  BY DEF IInv, Typed, Report
<1>3. /\ generation \in Nat /\ drops \in Nat /\ requests \in Nat /\ requests' \in Nat
      /\ sessions \in Nat /\ sessions' \in Nat /\ session <= sessions /\ session \in Nat
      /\ drops \in 0 .. MaxDrop /\ player \in Nat
  BY <1>0, Numbers, StartupAssumption DEF IInv, Typed, TypeWindow
<1>4. generation + Cardinality(Waiting(r)) <= drops + requests'
  <2> DEFINE a == Cardinality(Waiting(q))
             b == Cardinality(Waiting(r))
  <2>1. /\ a \in Nat /\ b \in Nat /\ b <= a + 1
        /\ e.kind # "request" => Waiting(r) = Waiting(q)
    BY <1>2, WaitingAppend
  <2>2. e.kind # "request" => b = a
    BY <2>1
  <2>3. generation + a <= drops + requests
    BY DEF IInv, Typed
  <2> HIDE DEF a, b, q, n, r
  <2>4. CASE e.kind = "request"
    <3>1. \A g, d, m, x, y \in Nat : g + x <= d + m /\ y <= x + 1 => g + y <= d + (m + 1)
      OBVIOUS
    <3> QED BY <1>3, <2>1, <2>3, <2>4, <3>1 DEF b
  <2>5. CASE e.kind # "request"
    <3>1. \A g, d, m, k, x \in Nat : g + x <= d + m /\ m <= k => g + x <= d + k
      OBVIOUS
    <3>2. generation + b <= drops + requests'
      BY <1>3, <2>1, <2>2, <2>3, <2>5, <3>1
    <3> QED BY <3>2 DEF b
  <2> QED BY <2>4, <2>5
<1>5. Typed'
  <2>1. session' <= sessions'
    BY <1>1, <1>3
  <2> QED BY <1>1, <1>2, <1>3, <1>4, <2>1 DEF Typed
<1>6. TypeQueue'
  <2>1. Len(incoming') = n + 1
    BY <1>2
  <2> HIDE DEF n
  <2> QED BY <1>2, <2>1, StartupAssumption DEF TypeQueue
<1>7. Ordered'
  <2>1. /\ \A i \in 1 .. n : q[i].kind = "connected" => q[i].session <= sessions
        /\ \A i, j \in 1 .. n : i < j /\ q[i].kind = "connected" /\ q[j].kind = "connected" =>
             q[i].session < q[j].session
    BY DEF IInv, Ordered, Places, Begun
  <2>2. \A i \in 1 .. n : q[i].session \in Nat
    BY <1>2 DEF Events
  <2>3. 1 .. n + 1 = (1 .. n) \cup {n + 1} /\ \A i \in 1 .. n : i < n + 1
    BY <1>2
  <2>4. \A i \in 1 .. n + 1 : r[i].kind = "connected" => r[i].session <= sessions'
    BY <1>2, <1>3, <2>1, <2>2, <2>3
  <2>5. \A i, j \in 1 .. n + 1 : i < j /\ r[i].kind = "connected" /\ r[j].kind = "connected" =>
          r[i].session < r[j].session
    <3> TAKE i, j \in 1 .. n + 1
    <3> HAVE i < j /\ r[i].kind = "connected" /\ r[j].kind = "connected"
    <3>1. i \in 1 .. n
      BY <1>2
    <3>2. CASE j \in 1 .. n
      BY <1>2, <2>1, <3>1, <3>2
    <3>3. CASE j = n + 1
      <4>1. r[j].session = sessions' /\ sessions < sessions'
        BY <1>2, <3>3
      <4>2. r[i].session <= sessions /\ r[i].session \in Nat
        BY <1>2, <2>1, <2>2, <3>1
      <4> QED BY <1>3, <4>1, <4>2
    <3> QED BY <2>3, <3>2, <3>3
  <2>6. ASSUME Live, Setup, session # 0
        PROVE  /\ session # server' =>
                    \E i \in 1 .. n + 1 : r[i] = [kind |-> "disconnected", session |-> session]
               /\ \A i \in 1 .. n + 1 : r[i].kind = "connected" =>
                    \E j \in 1 .. n + 1 : j < i /\ r[j] = [kind |-> "disconnected", session |-> session]
    <3> DEFINE x == [kind |-> "disconnected", session |-> session]
    <3>1. /\ session # server => \E i \in 1 .. n : q[i] = x
          /\ \A i \in 1 .. n : q[i].kind = "connected" => \E j \in 1 .. n : j < i /\ q[j] = x
      BY <2>6 DEF IInv, Ordered, Places, Begun, Ended
    <3>2. session # server' => session # server \/ e = x
      BY <2>6
    <3> HIDE DEF x
    <3>3. session # server' => \E i \in 1 .. n + 1 : r[i] = x
      BY <1>2, <2>3, <3>1, <3>2
    <3>4. \A i \in 1 .. n : r[i].kind = "connected" => \E j \in 1 .. n + 1 : j < i /\ r[j] = x
      BY <1>2, <2>3, <3>1
    <3>5. r[n + 1].kind = "connected" => \E j \in 1 .. n + 1 : j < n + 1 /\ r[j] = x
      <4> SUFFICES ASSUME e.kind = "connected" PROVE \E j \in 1 .. n + 1 : j < n + 1 /\ r[j] = x
        BY <1>2
      <4>1. server = 0
        OBVIOUS
      <4>2. PICK j \in 1 .. n : q[j] = x
        BY <2>6, <3>1, <4>1
      <4> QED BY <1>2, <2>3, <4>2
    <3>6. \A i \in 1 .. n + 1 : r[i].kind = "connected" => \E j \in 1 .. n + 1 : j < i /\ r[j] = x
      BY <2>3, <3>4, <3>5
    <3> QED BY <3>3, <3>6 DEF x
  <2>7. Len(incoming') = n + 1 /\ incoming' = r
    BY <1>2
  <2>8. (Live' <=> Live) /\ (Setup' <=> Setup)
    BY <1>1 DEF Live, Handles, Setup
  <2> HIDE DEF n, r
  <2> QED BY <1>1, <2>4, <2>5, <2>6, <2>7, <2>8 DEF Ordered, Places, Begun, Ended
<1>8. /\ WizardTypeOK' /\ TypeFlags' /\ TypeSave' /\ TypeLoop' /\ TypePlayer' /\ TypeWindow' /\ TypeTold'
  <2>1. WizardTypeOK' /\ TypeFlags'
    BY <1>0, <1>1 DEF WizardTypeOK, TypeFlags
  <2>2. TypeSave' /\ TypeLoop' /\ TypePlayer' /\ TypeTold'
    BY <1>0, <1>1 DEF TypeSave, TypeLoop, TypePlayer, TypeTold
  <2>3. server' \in 0 .. MaxSession
    <3>1. 0 \in 0 .. MaxSession
      BY StartupAssumption
    <3> QED BY <3>1
  <2>4. TypeWindow'
    BY <1>0, <1>1, <2>3 DEF TypeWindow
  <2> QED BY <2>1, <2>2, <2>4
<1>9. InStep' /\ Awaiting' /\ Told' /\ Held'
  <2>1. InStep' /\ Awaiting'
    BY <1>1 DEF IInv, InStep, Awaiting, Setup, Unsaved
  <2>2. Told' /\ Held'
    BY <1>1 DEF IInv, Told, Held, Live, Handles
  <2> QED BY <2>1, <2>2
<1>10. Chooser' /\ PendingAnswerable'
  BY <1>1 DEF IInv, Chooser, PendingAnswerable, Setup, Live, Handles
<1> QED BY <1>5, <1>6, <1>7, <1>8, <1>9, <1>10, Joined

\* The window comes, goes and sends.
LEMMA WindowStep ==
  ASSUME IInv, Connects \/ Disconnects \/ WindowSends PROVE IInv'
<1>1. /\ requests \in 0 .. MaxRequest /\ sessions \in 0 .. MaxSession /\ server \in {0, sessions}
      /\ session <= sessions /\ session \in Nat /\ sessions \in Nat /\ requests \in Nat
      /\ MaxSession \in Nat /\ MaxRequest \in Nat
  BY StartupAssumption, TypeParts DEF IInv, Typed, TypeWindow
<1>2. CASE Connects
  <2> DEFINE e == [kind |-> "connected", session |-> sessions + 1]
  <2>1. /\ server = 0 /\ sessions < MaxSession /\ sessions' = sessions + 1 /\ server' = sessions + 1
        /\ Report(e) /\ requests' = requests
    BY <1>2 DEF Connects
  <2>2. e \in Events /\ e.kind = "connected" /\ e.session = sessions'
    BY <1>1, <2>1 DEF Events
  <2>3. session' = session /\ (Reached' => Reached)
    <3>1. session' = session
      BY <2>1 DEF Report, windowVars
    <3> QED BY <1>1, <2>1, <3>1 DEF Reached
  <2>4. sessions' \in 0 .. MaxSession /\ sessions < sessions' /\ sessions <= sessions' /\ server' \in {0, sessions'}
        /\ requests' \in 0 .. MaxRequest /\ requests <= requests'
    BY <1>1, <2>1
  <2> HIDE DEF e
  <2> QED BY <2>1, <2>2, <2>3, <2>4, ReportStep
<1>3. CASE Disconnects
  <2> DEFINE e == [kind |-> "disconnected", session |-> server]
  <2>1. /\ server # 0 /\ server' = 0 /\ Report(e) /\ sessions' = sessions /\ requests' = requests
    BY <1>3 DEF Disconnects
  <2>2. e \in Events /\ e.kind = "disconnected"
    BY <1>1, <2>1 DEF Events
  <2>3. Reached' => Reached
    BY <2>1 DEF Reached
  <2>4. session # 0 /\ session # server' => session # server \/ e = [kind |-> "disconnected", session |-> session]
    OBVIOUS
  <2>5. sessions' \in 0 .. MaxSession /\ sessions <= sessions' /\ server' \in {0, sessions'}
        /\ requests' \in 0 .. MaxRequest /\ requests <= requests'
    BY <1>1, <2>1
  <2> HIDE DEF e
  <2> QED BY <2>1, <2>2, <2>3, <2>4, <2>5, ReportStep
<1>4. CASE WindowSends
  <2>1. PICK msg \in Requests : Report([kind |-> "request", session |-> server, msg |-> msg])
    BY <1>4 DEF WindowSends
  <2> DEFINE e == [kind |-> "request", session |-> server, msg |-> msg]
  <2>2. /\ server # 0 /\ requests < MaxRequest /\ requests' = requests + 1 /\ Report(e)
        /\ server' = server /\ sessions' = sessions
    BY <1>4, <2>1 DEF WindowSends
  <2>3. e \in Events /\ e.kind = "request"
    BY <1>1, <2>2 DEF Events
  <2>4. Reached' => Reached
    BY <2>2 DEF Reached, Report, windowVars
  <2>5. sessions' \in 0 .. MaxSession /\ sessions <= sessions' /\ server' \in {0, sessions'}
        /\ requests' \in 0 .. MaxRequest /\ requests <= requests'
    BY <1>1, <2>2
  <2> HIDE DEF e
  <2> QED BY <2>2, <2>3, <2>4, <2>5, ReportStep
<1> QED BY <1>2, <1>3, <1>4

-----------------------------------------------------------------------------
(* The theorems. *)

LEMMA InitInv == Init => IInv
<1> SUFFICES ASSUME Init PROVE IInv
  OBVIOUS
<1>1. PICK needsWizard \in BOOLEAN :
        /\ hint \in BOOLEAN
        /\ WizardInit(IF needsWizard THEN "icons" ELSE "none", hint)
        /\ loop = "running" /\ closed = FALSE
        /\ path \in BOOLEAN
        /\ awaitGUI = (needsWizard /\ hint) /\ timer = awaitGUI
        /\ phase = IF needsWizard THEN IF hint THEN "starting" ELSE "wizard"
                   ELSE IF path THEN "initial_loading" ELSE "ready"
        /\ session = 0 /\ guiNative = FALSE /\ pickerID = 0
        /\ lastPhase = Nobody /\ told = Nobody
        /\ saving = FALSE /\ saveError = FALSE /\ save = [j \in Saves |-> "idle"]
        /\ deferred = FALSE
        /\ player = IF needsWizard THEN 0 ELSE 1
        /\ open = 1 .. player
        /\ generation = 0 /\ loading = (path /\ ~needsWizard)
        /\ results = IF loading THEN {0} ELSE {}
        /\ mc = "starting"
        /\ server = 0 /\ incoming = <<>>
        /\ sessions = 0 /\ requests = 0 /\ drops = 0
  BY DEF Init
<1>2. /\ form = IF needsWizard THEN "icons" ELSE "none"
      /\ ending = FALSE
      /\ pending = 0 /\ sequence = 0 /\ native = FALSE /\ asks = {} /\ checks = {}
  BY <1>1 DEF WizardInit
<1>3. WizardTypeOK
  <2>1. probe \in BOOLEAN
    <3>1. probe = FALSE \/ probe = ((IF needsWizard THEN "icons" ELSE "none") # "none" /\ ~hint)
      BY <1>1 DEF WizardInit
    <3> QED BY <3>1
  <2>2. native \in BOOLEAN
    BY <1>2
  <2>3. 0 \in 0 .. MaxPick
    BY MaxPickAssumption
  <2> QED BY <1>2, <2>1, <2>2, <2>3 DEF WizardTypeOK, Steps, Fields
<1>4. TypeFlags
  <2>1. closed \in BOOLEAN /\ guiNative \in BOOLEAN /\ saving \in BOOLEAN /\ saveError \in BOOLEAN
        /\ deferred \in BOOLEAN
    BY <1>1
  <2>2. awaitGUI \in BOOLEAN
    BY <1>1
  <2>3. loading \in BOOLEAN
    BY <1>1
  <2> QED BY <1>1, <2>1, <2>2, <2>3 DEF TypeFlags
<1>5. TypeSave /\ TypeLoop /\ TypeTold
  BY <1>1 DEF TypeSave, TypeLoop, TypeTold, Nobody
<1>6. TypePlayer
  <2>1. 0 \in Generation
    BY StartupAssumption DEF Generation
  <2> QED BY <1>1, <2>1 DEF TypePlayer
<1>7. TypeWindow /\ TypeQueue
  <2>1. 0 \in 0 .. MaxSession /\ 0 \in 0 .. MaxPick /\ 0 <= MaxQueue
    BY StartupAssumption, MaxPickAssumption
  <2> QED BY <1>1, <2>1 DEF TypeWindow, TypeQueue, Phases
<1>8. Typed
  <2>1. Waiting(incoming) = {}
    BY <1>1 DEF Waiting
  <2>2. Cardinality(Waiting(incoming)) = 0
    BY <2>1, FS_EmptySet
  <2>3. 0 \in 0 .. MaxSession /\ 0 \in 0 .. MaxRequest /\ 0 \in 0 .. MaxDrop
    BY StartupAssumption
  <2>4. incoming \in Seq(Events)
    BY <1>1
  <2> QED BY <1>1, <2>2, <2>3, <2>4 DEF Typed
<1>9. InStep
  BY <1>1, <1>2 DEF InStep, Setup
<1>10. Awaiting
  BY <1>1, <1>2 DEF Awaiting, Unsaved, Setup
<1>11. Told /\ Held
  BY <1>1 DEF Told, Held, Reached
<1>12. Ordered /\ Chooser /\ PendingAnswerable
  <2>1. Places = {}
    BY <1>1 DEF Places
  <2> QED BY <1>1, <1>2, <2>1 DEF Ordered, Chooser, PendingAnswerable
<1> QED BY <1>3, <1>4, <1>5, <1>6, <1>7, <1>8, <1>9, <1>10, <1>11, <1>12, TypeParts DEF IInv

LEMMA InvStep == IInv /\ [Next]_vars => IInv'
<1> SUFFICES ASSUME IInv, [Next]_vars PROVE IInv'
  OBVIOUS
<1>1. CASE UNCHANGED vars
  <2>1. /\ UNCHANGED <<form, ending, pending, sequence, native, asks, checks, probe>>
        /\ UNCHANGED <<loop, closed, hint, timer, phase, session, guiNative, awaitGUI, pickerID>>
        /\ UNCHANGED <<lastPhase, told, saving, saveError, save, path, deferred, player, open>>
        /\ UNCHANGED <<generation, loading, results, mc, server, incoming, sessions, requests, drops>>
    BY <1>1 DEF vars, wizardVars, formVars, loopVars, windowVars, toldVars, saveVars, playerVars,
         serverVars, boundVars
  <2>2. TypeOK' /\ Typed'
    BY <2>1 DEF IInv, TypeOK, WizardTypeOK, Typed
  <2>3. InStep' /\ Awaiting' /\ Told' /\ Held'
    BY <2>1 DEF IInv, InStep, Setup, Awaiting, Told, Live, Handles, Reached, Held, Unsaved
  <2>4. Ordered' /\ Chooser' /\ PendingAnswerable'
    BY <2>1 DEF IInv, Ordered, Live, Handles, Setup, Begun, Ended, Places, Chooser, PendingAnswerable
  <2> QED BY <2>2, <2>3, <2>4 DEF IInv
<1>2. ASSUME NEW key \in Keys, PressKey(key) PROVE IInv'
  BY <1>2, PressKeyStep
<1>3. CASE PressRetry
  BY <1>3, PressRetryStep
<1>4. CASE PressGiveUp
  BY <1>4, PressGiveUpStep
<1>5. CASE OtherMessage
  BY <1>5, OtherMessageStep
<1>6. ASSUME NEW c \in checks, SelectionChecked(c) PROVE IInv'
  BY <1>6, SelectionCheckedStep
<1>18. CASE CompleteForm
  BY <1>18, CompleteFormStep
<1>7. ASSUME NEW id \in asks, PickFileMsg(id) PROVE IInv'
  BY <1>7, PickFileStep
<1>8. CASE WaitExpires
  BY <1>8, WaitExpiresStep
<1>9. ASSUME NEW j \in Saves, SaveEnds(j) \/ SettingsSaved(j) PROVE IInv'
  BY <1>9, SaveEndsStep, SettingsSavedStep
<1>10. CASE IPCEvent
  BY <1>10, IPCEventStep
<1>11. CASE Connects \/ Disconnects \/ WindowSends
  BY <1>11, WindowStep
<1>12. CASE LoadTrack
  BY <1>12, LoadTrackStep
<1>13. ASSUME NEW g \in results, LoadReports(g) PROVE IInv'
  BY <1>13, LoadReportsStep
<1>14. CASE MediaCtlReady
  BY <1>14, MediaCtlReadyStep
<1>15. CASE PlayerQuits
  BY <1>15, PlayerQuitsStep
<1>16. CASE ForceQuit \/ LoopEnds
  BY <1>16, LoopStep
<1>17. CASE Exit
  BY <1>17, ExitStep
<1> QED BY <1>1, <1>2, <1>3, <1>4, <1>5, <1>6, <1>7, <1>8, <1>9, <1>10, <1>11, <1>12, <1>13, <1>14,
           <1>15, <1>16, <1>17, <1>18 DEF Next

\* The invariant holds in every state of the program.
THEOREM Invariance == Spec => []IInv
BY InitInv, InvStep, PTL DEF Spec

\* The window was sent the phase the host is in, a first load that is shown will report,
\* and a question that stops the keys of the form can be answered (ipc.go,
\* wizard/model.go), whatever order keys, events, saves and loads come in.
THEOREM WindowStaysInStep == Spec => []WindowInStep
<1>1. IInv => WindowInStep
  BY DEF IInv, InStep, Awaiting, Told, WindowInStep, PhaseTold
<1> QED BY <1>1, Invariance, PTL

\* A media controller that the host holds, or that the program's player took while it was
\* open, is closed when the program is over, whoever ended it (startup/model.go,
\* ui/model.go). A player that was replaced, or had closed before, closes none.
THEOREM ControllerIsReleased == Spec => []ControllerReleased
<1>1. IInv => ControllerReleased
  BY DEF IInv, Held, ControllerReleased
<1> QED BY <1>1, Invariance, PTL
=============================================================================
