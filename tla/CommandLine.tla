----------------------------- MODULE CommandLine -----------------------------
\* The command line (ui/keyboard_command.go, completion.go, history.go, drop.go): a
\* line of text with a cursor, a list of candidates for the word the cursor is in,
\* and the history, which outlives the program. A text is a sequence of characters,
\* of which one is a space.
EXTENDS Integers, Sequences, SequencesExt

CONSTANTS
  Char,        \* what can be typed
  CharLimit,   \* the input's limit
  Table,       \* the commands, in order: a name and the arguments it completes
  MaxHistory,  \* Config.CommandHistory.Max
  Dropped      \* what a paste carries: sequences of paths

Space == " "

Text == Seq(Char)
CommandType == [name : Text, args : Seq(Text)]

LineConstants ==
  /\ Space \in Char /\ CharLimit \in Nat /\ MaxHistory \in Nat
  /\ Table \in Seq(CommandType) /\ Dropped \subseteq Seq(Text)

ASSUME LineAssumption == LineConstants

VARIABLES
  mode,        \* UI.Mode
  input,       \* CommandInput: value and cursor
  round,       \* completionCandidates, completionSeg and completionIndex, 0 for none
  notice,      \* UI.CommandNotice
  history,     \* CommandHistory
  place,       \* historyIndex
  disk,        \* the history file
  typed        \* history: the input the round was begun with

lineVars == <<mode, input, round, notice, history, place, disk, typed>>

Empty == [value |-> <<>>, cursor |-> 0]
NoRound == [candidates |-> <<>>, first |-> 0, last |-> 0, index |-> 0]
TooLong == "too long"

-------------------------------------------------------------------------------
\* completionContextAt and candidatesFor.

Inside(value, i) == i \in DOMAIN value /\ value[i] # Space

\* Where the word under the cursor starts: at the cursor when that is in a gap.
WordStart(value, cursor) ==
  CHOOSE i \in 0 .. cursor : /\ ~Inside(value, i)
                             /\ \A j \in i + 1 .. cursor : Inside(value, j)

\* The words of a text, as strings.Fields has them.
Fields(value) ==
  LET upto[i \in 0 .. Len(value)] ==
        IF i = 0 THEN <<>>
        ELSE IF value[i] = Space THEN upto[i - 1]
        ELSE LET start == WordStart(value, i)
             IN  Append(upto[start], SubSeq(value, start + 1, i))
  IN  upto[Len(value)]

\* The loops that keep some elements of a slice, and their order.
Picked(seq, places) ==
  LET upto[i \in 0 .. Len(seq)] ==
        IF i = 0 THEN <<>>
        ELSE IF i \in places THEN Append(upto[i - 1], seq[i]) ELSE upto[i - 1]
  IN  upto[Len(seq)]

WithPrefix(words, prefix) == Picked(words, {i \in DOMAIN words : IsPrefix(prefix, words[i])})

Names == [i \in DOMAIN Table |-> Table[i].name]

CandidatesFor(before, prefix) ==
  CASE Len(before) = 0 -> WithPrefix(Names, prefix)
    [] Len(before) = 1 ->
         LET spec == Picked(Table, {i \in DOMAIN Table : Table[i].name = before[1]})
         IN  IF spec = <<>> THEN <<>> ELSE WithPrefix(spec[1].args, prefix)
    [] OTHER -> <<>>

\* syncCompletion in command mode.
Round(in) ==
  LET start == WordStart(in.value, in.cursor)
  IN  [candidates |-> CandidatesFor(Fields(SubSeq(in.value, 1, start)),
                                    SubSeq(in.value, start + 1, in.cursor)),
       first |-> start, last |-> in.cursor, index |-> 0]

\* The line was changed by anything but a completion: its list is made anew.
Edit(in) ==
  /\ input' = in
  /\ round' = Round(in)
  /\ typed' = in

-------------------------------------------------------------------------------
\* The input is the library's; it keeps the cursor in the line and the line in its
\* limit.
Inserted(in, text) ==
  [value |-> SubSeq(in.value, 1, in.cursor) \o text
             \o SubSeq(in.value, in.cursor + 1, Len(in.value)),
   cursor |-> in.cursor + Len(text)]

AtEnd(value) == [value |-> value, cursor |-> Len(value)]

Keystrokes(in) ==
  {Inserted(in, <<c>>) : c \in IF Len(in.value) < CharLimit THEN Char ELSE {}}
  \cup {[value |-> RemoveAt(in.value, i), cursor |-> i - 1] : i \in {in.cursor} \ {0}}
  \cup {[in EXCEPT !.cursor = c] : c \in {0, Len(in.value)}}
  \cup {[in EXCEPT !.cursor = c - 1] : c \in {in.cursor} \ {0}}

-------------------------------------------------------------------------------
InCommand == mode = "command"

OpenLine ==
  /\ mode = "normal"
  /\ mode' = "command"
  /\ Edit(input)
  /\ UNCHANGED <<notice, history, place, disk>>

TypeKey ==
  /\ InCommand
  /\ \E in \in Keystrokes(input) : Edit(in)
  /\ notice' = ""
  /\ place' = Len(history)
  /\ UNCHANGED <<mode, history, disk>>

LeaveLine ==
  /\ InCommand
  /\ mode' = "normal"
  /\ input' = Empty
  /\ round' = NoRound
  /\ typed' = Empty
  /\ notice' = ""
  /\ place' = Len(history)
  /\ UNCHANGED <<history, disk>>

\* cycleCompletion and acceptCompletion: the choice replaces what the one before it
\* wrote; nothing is cut off to make it fit.
Turn(index, delta, total) ==
  IF index = 0 THEN IF delta = 1 THEN 1 ELSE total
               ELSE ((index + delta + total - 1) % total) + 1

Accepted(value, first, last, word) ==
  [value |-> SubSeq(value, 1, first) \o word \o SubSeq(value, last + 1, Len(value)),
   cursor |-> first + Len(word)]

CycleOverTyped(delta) ==
  /\ InCommand
  /\ round.candidates # <<>>
  /\ LET index == Turn(round.index, delta, Len(round.candidates))
         in == Accepted(input.value, round.first, round.last, round.candidates[index])
     IN  /\ Len(in.value) <= CharLimit
         /\ input' = in
         /\ round' = [round EXCEPT !.index = index]
  /\ UNCHANGED <<mode, notice, history, place, disk, typed>>

Cycle(delta) ==
  /\ InCommand
  /\ LET total == Len(round.candidates)
     IN  IF total = 0 THEN notice' = "" /\ UNCHANGED <<input, round>>
         ELSE LET index == Turn(round.index, delta, total)
                  in == Accepted(input.value, round.first, round.last,
                                 round.candidates[index])
              IN  IF Len(in.value) > CharLimit
                    THEN notice' = TooLong /\ UNCHANGED <<input, round>>
                    ELSE /\ notice' = ""
                         /\ input' = in
                         /\ round' = [round EXCEPT !.last = in.cursor, !.index = index]
  /\ UNCHANGED <<mode, history, place, disk, typed>>

PressTab == Cycle(1)
PressBackTab == Cycle(-1)

\* executeCommand: the command goes to the end of the history, which drops its oldest
\* when it is over the limit, and is written to disk. A write that fails leaves an older
\* history there, as a restart before the command would have.
Remembered(text) ==
  LET at == SelectInSeq(history, LAMBDA h : h = text)
      others == IF at = 0 THEN history ELSE RemoveAt(history, at)
      all == Append(others, text)
  IN  IF Len(all) > MaxHistory THEN Tail(all) ELSE all

EnterLine ==
  /\ InCommand
  /\ mode' = "normal"
  /\ input' = Empty
  /\ round' = NoRound
  /\ typed' = Empty
  /\ notice' = ""
  /\ history' = IF input.value = <<>> THEN history ELSE Remembered(input.value)
  /\ disk' = IF input.value = <<>> THEN disk ELSE history'
  /\ place' = Len(history')

PressUp ==
  /\ InCommand
  /\ notice' = ""
  /\ IF history = <<>> THEN UNCHANGED <<input, round, typed, place>>
       ELSE /\ place' = IF place > 0 THEN place - 1 ELSE 0
            /\ Edit(AtEnd(history[place' + 1]))
  /\ UNCHANGED <<mode, history, disk>>

PressDown ==
  /\ InCommand
  /\ notice' = ""
  /\ IF place + 1 >= Len(history)
       THEN place' = Len(history) /\ Edit(Empty)
       ELSE place' = place + 1 /\ Edit(AtEnd(history[place' + 1]))
  /\ UNCHANGED <<mode, history, disk>>

\* handlePaste: each path goes in at the cursor, away from the word before it. One that
\* does not fit is refused whole, and the next one is tried.
Pasted(s, path) ==
  LET apart == IF Inside(s.in.value, s.in.cursor) THEN <<Space>> ELSE <<>>
      text == apart \o path
  IN  IF Len(s.in.value) + Len(text) > CharLimit
        THEN [s EXCEPT !.notice = TooLong]
        ELSE [in |-> Inserted(s.in, text), notice |-> "", changed |-> TRUE]

AllPasted(paths) ==
  LET upto[i \in 0 .. Len(paths)] ==
        IF i = 0 THEN [in |-> input, notice |-> "", changed |-> FALSE]
        ELSE Pasted(upto[i - 1], paths[i])
  IN  upto[Len(paths)]

Paste ==
  /\ InCommand
  /\ \E paths \in Dropped :
       LET end == AllPasted(paths)
       IN  /\ notice' = end.notice
           /\ IF end.changed THEN Edit(end.in) ELSE UNCHANGED <<input, round, typed>>
  /\ UNCHANGED <<mode, history, place, disk>>

\* loadHistory, in a program started anew: blank lines are dropped, the others trimmed,
\* and the newest that fit are kept. A limit of zero keeps them all.
Trimmed(value) ==
  LET kept == {i \in DOMAIN value : value[i] # Space}
  IN  IF kept = {} THEN <<>>
      ELSE SubSeq(value, CHOOSE i \in kept : \A j \in kept : i <= j,
                         CHOOSE i \in kept : \A j \in kept : j <= i)

Loaded(lines) ==
  LET all == Picked([i \in DOMAIN lines |-> Trimmed(lines[i])],
                  {i \in DOMAIN lines : Trimmed(lines[i]) # <<>>})
  IN  IF MaxHistory > 0 /\ Len(all) > MaxHistory
        THEN SubSeq(all, Len(all) - MaxHistory + 1, Len(all))
        ELSE all

Restart ==
  /\ mode' = "normal"
  /\ input' = Empty
  /\ round' = NoRound
  /\ typed' = Empty
  /\ notice' = ""
  /\ history' = Loaded(disk)
  /\ place' = Len(history')
  /\ UNCHANGED disk

-------------------------------------------------------------------------------
LineInit ==
  /\ mode = "normal"
  /\ input = Empty
  /\ round = NoRound
  /\ notice = ""
  /\ history = <<>>
  /\ place = 0
  /\ disk = <<>>
  /\ typed = Empty

LineNext ==
  \/ OpenLine \/ TypeKey \/ LeaveLine \/ PressTab \/ PressBackTab \/ EnterLine
  \/ PressUp \/ PressDown \/ Paste \/ Restart

LineSpec == LineInit /\ [][LineNext]_lineVars

-------------------------------------------------------------------------------
\* A round of completions only ever replaces the word it was begun in: however often
\* and in whichever direction it is turned, before and after that word stands what
\* the user typed, the word is the candidate selected, the list is the one for what
\* was typed, and nothing was cut off. Before the first turn the list is the one for
\* the line as it stands (completion.go: acceptCompletion).
CompletionTrue ==
  LET at == Round(typed)
  IN  /\ InCommand => round.candidates = at.candidates
      /\ input = IF round.index = 0 THEN typed
                 ELSE Accepted(typed.value, at.first, at.last,
                               round.candidates[round.index])
      /\ Len(input.value) <= CharLimit

\* Leaving the command line leaves nothing of it behind, and the history can be
\* walked from wherever it was left: its place is in it or one past its end, through
\* moves, repeated and new commands and restarts, and it has no more
\* entries than its limit (keyboard_command.go, history.go).
HistorySafe ==
  /\ mode = "normal" => input = Empty /\ round = NoRound /\ notice = ""
  /\ place <= Len(history)
  /\ Len(history) <= MaxHistory

\* The line never loses what was typed, nor its way in the history (completion.go,
\* history.go).
LineTrue == CompletionTrue /\ HistorySafe

=============================================================================
