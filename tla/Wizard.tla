-------------------------------- MODULE Wizard --------------------------------
\* The first-run form (ui/wizard/model.go): the icon theme, then a SoundFont that may
\* be skipped. The form itself is a library's; hosted by the window, the file is asked
\* of the window's own chooser, and no key but Ctrl+C is taken until it answers.
EXTENDS Integers

CONSTANT MaxPick         \* bound on the questions put to the window's chooser

ASSUME MaxPickAssumption == MaxPick \in Nat

\* form       the form's focused field, or how it ended; "none" once it is discarded
\* ending     the form was told to go on from its last field, its message that it is
\*            complete is on the way
\* pending    the question being asked of the window, 0 when there is none
\* sequence   questions asked so far
\* native     the window has a chooser
\* asks       PickFileMsg commands on their way to the host
\* checks     selectionChecked messages on their way back
\* probe      the reader left behind by the question for the terminal's font
VARIABLES form, ending, pending, sequence, native, asks, checks, probe

formVars == <<form, ending, pending, sequence, native, asks, checks>>
wizardVars == <<formVars, probe>>

Fields == {"icons", "picker"}
Steps == Fields \cup {"completed", "aborted"}
Keys == {"enter", "tab", "back", "ctrl+c"}
Question == 1 .. MaxPick

WizardTypeOK ==
  /\ form \in Steps \cup {"none"} /\ ending \in BOOLEAN
  /\ pending \in 0 .. MaxPick
  /\ sequence \in 0 .. MaxPick
  /\ native \in BOOLEAN
  /\ asks \in SUBSET Question /\ probe \in BOOLEAN
  /\ checks \in SUBSET [id : Question, valid : BOOLEAN]

\* New looks for a font with icons: told by the window, or asking programs, and last the
\* terminal, for a tenth of a second. A terminal that does not answer in time leaves a
\* goroutine reading the input.
WizardInit(first, hinted) ==
  /\ probe \in {FALSE, first # "none" /\ ~hinted}
  /\ form = first /\ ending = FALSE
  /\ pending = 0 /\ sequence = 0
  /\ native = FALSE
  /\ asks = {} /\ checks = {}

-------------------------------------------------------------------------------
\* The library's form. Enter on the file field opens the terminal's picker, which may
\* come back without a file.
Moves(key) ==
  CASE form \notin Fields -> {form}
    [] form \in Fields /\ key = "ctrl+c" -> {"aborted"}
    [] form = "icons" /\ key \in {"enter", "tab"} -> {"picker"}
    [] form = "picker" /\ key = "back" -> {"icons"}
    [] form = "picker" /\ key = "tab" -> {}
    [] OTHER -> {form}

\* NextField on the last field: the form is not complete before the message it sends
\* itself has come, and takes keys until then.
NextField == ending' = TRUE

\* The message: whatever field has been gone to meanwhile, the form is complete.
FormEnds ==
  /\ ending /\ ending' = FALSE
  /\ form' = IF form \in Fields THEN "completed" ELSE form
  /\ UNCHANGED <<pending, sequence, native, asks, checks, probe>>

\* Losing the chooser cancels the question; the answers given so far stay.
SetGUI(can) ==
  /\ native' = can
  /\ pending' = IF can THEN pending ELSE 0
  /\ UNCHANGED <<form, ending, sequence, asks, checks, probe>>

\* The player takes the form's place; what was sent to the form is still on its way.
Discard ==
  /\ form' = "none" /\ ending' = FALSE /\ pending' = 0 /\ sequence' = 0 /\ native' = FALSE
  /\ UNCHANGED <<asks, checks, probe>>

\* The window is asked: no key reaches the form until the answer does.
AskWindow ==
  /\ sequence < MaxPick
  /\ sequence' = sequence + 1
  /\ pending' = sequence + 1
  /\ asks' = asks \cup {sequence + 1}
  /\ UNCHANGED <<form, ending, native, checks>>

\* A key that reaches the form; a reader left behind may take it first. Tab or an answer
\* in the last field goes on from there.
FormKey(key) ==
  \/ probe /\ probe' = FALSE /\ UNCHANGED formVars
  \/ /\ UNCHANGED probe
     /\ IF pending # 0 /\ key # "ctrl+c"
          THEN UNCHANGED formVars
          ELSE IF native /\ form = "picker" /\ key = "enter"
            THEN AskWindow
            ELSE /\ \/ form' \in Moves(key) /\ UNCHANGED ending
                    \/ form = "picker" /\ key \in {"tab", "enter"} /\ NextField /\ UNCHANGED form
                 /\ UNCHANGED <<pending, sequence, native, asks, checks>>

\* The window's answer: a chosen file is opened before it is believed, a cancelled or
\* failed question is over.
Answer(id, status) ==
  IF id = 0 \/ id # pending
    THEN UNCHANGED wizardVars
    ELSE /\ IF status = "selected"
              THEN /\ \E valid \in BOOLEAN :
                        checks' = checks \cup {[id |-> id, valid |-> valid]}
                   /\ UNCHANGED pending
              ELSE pending' = 0 /\ UNCHANGED checks
         /\ UNCHANGED <<form, ending, sequence, native, asks, probe>>

\* The file was looked at (validateSoundfont): a good one is taken and ends the form.
Checked(c) ==
  /\ checks' = checks \ {c}
  /\ IF c.id # pending
       THEN UNCHANGED <<ending, pending>>
       ELSE /\ pending' = 0
            /\ IF c.valid /\ form = "picker" THEN NextField ELSE UNCHANGED ending
  /\ UNCHANGED <<form, sequence, native, asks, probe>>

\* The host still has the question to ask: nothing has cancelled it since.
PendingPicker(id) == id = pending /\ native
=============================================================================
