--------------------------------- MODULE Drop ---------------------------------
\* Dropped files (ui/drop.go): a paste payload is split into fields, each field is
\* freed of quotes and of the escapes of whoever packed it, and the file system
\* decides between the forms that are left. A text is a sequence of characters; of
\* those only a letter, a space, a backslash and the quotes are told apart.
EXTENDS Naturals, Sequences, SequencesExt

Letter == "a"
Space == " "
Escape == "\\"
Quote == "'"                       \* stands for the straight quotes, which close
                                   \* themselves
OpenQuote == "<"
CloseQuote == ">"                  \* and these for the curly pairs
Quotes == {Quote, OpenQuote, CloseQuote}
Escapable == Quotes \cup {Space, Escape}

\* dropQuote: what closes a span that the character opens.
Closing == [c \in {Quote, OpenQuote} |-> IF c = Quote THEN Quote ELSE CloseQuote]
NotQuoted == "-"

Unread == [fields |-> <<>>, field |-> <<>>, quote |-> NotQuoted, escaped |-> FALSE]

\* A backslash keeps the character after it from meaning anything.
ReadCharacter(s, c, honorQuotes) ==
  LET put == [s EXCEPT !.field = Append(@, c)]
  IN  IF s.escaped THEN [put EXCEPT !.escaped = FALSE]
      ELSE IF c = Escape THEN [put EXCEPT !.escaped = TRUE]
      ELSE IF s.quote # NotQuoted
        THEN [put EXCEPT !.quote = IF c = s.quote THEN NotQuoted ELSE @]
      ELSE IF honorQuotes /\ c \in DOMAIN Closing
        THEN [put EXCEPT !.quote = Closing[c]]
      ELSE IF c # Space THEN put
      ELSE IF s.field = <<>> THEN s
      ELSE [s EXCEPT !.fields = Append(@, s.field), !.field = <<>>]

ReadPayload(payload, honorQuotes) ==
  LET read[i \in 0 .. Len(payload)] ==
        IF i = 0 THEN Unread ELSE ReadCharacter(read[i - 1], payload[i], honorQuotes)
  IN  read[Len(payload)]

\* splitDropFieldsRaw: one pass over the payload.
Scan(payload, honorQuotes) ==
  LET end == ReadPayload(payload, honorQuotes)
  IN  [fields |-> IF end.field = <<>> THEN end.fields ELSE Append(end.fields, end.field),
       closed |-> end.quote = NotQuoted]

\* splitDropFields: a payload with a quote that never closes is read again, literally.
SplitDropFields(payload) ==
  LET first == Scan(payload, TRUE)
  IN  IF first.closed THEN first.fields ELSE Scan(payload, FALSE).fields

\* strings.Trim with the quotes as its cutset.
TrimQuotes(text) ==
  LET Kept == {i \in DOMAIN text : text[i] \notin Quotes}
      Least == CHOOSE i \in Kept : \A j \in Kept : i <= j
      Greatest == CHOOSE i \in Kept : \A j \in Kept : j <= i
  IN  IF Kept = {} THEN <<>> ELSE SubSeq(text, Least, Greatest)

\* Both passes walk the text and drop a backslash before certain characters; before
\* any other it stays, and the character with it.
Unescape(s, c, freed) ==
  IF ~s.held /\ c = Escape THEN [s EXCEPT !.held = TRUE]
  ELSE [out |-> Append(IF s.held /\ c \notin freed THEN Append(s.out, Escape) ELSE s.out, c),
        held |-> FALSE]

Unescaped(text, freed) ==
  LET walked[i \in 0 .. Len(text)] ==
        IF i = 0 THEN [out |-> <<>>, held |-> FALSE] ELSE Unescape(walked[i - 1], text[i], freed)
  IN  walked[Len(text)]

WithoutEscapes(text, freed) ==
  LET end == Unescaped(text, freed)
  IN  IF end.held THEN Append(end.out, Escape) ELSE end.out

\* A bug: only spaces are freed of their backslashes.
SpacesOnly(text) == WithoutEscapes(text, {Space, Escape})

\* unescapeBackslashes: the backslashes whoever drops may have added.
UnescapeBackslashes(text) == WithoutEscapes(text, Escapable)

\* stripAnyEscape: every backslash but doubled ones, which stay doubled.
StripAnyEscape(text) == WithoutEscapes(text, {Letter} \cup (Escapable \ {Escape}))

\* pickExisting: the first form that is on disk, else the first.
PickExisting(forms, there) ==
  LET found == {i \in DOMAIN forms : forms[i] # <<>> /\ forms[i] \in there}
  IN  IF found = {} THEN forms[1] ELSE forms[CHOOSE i \in found : \A j \in found : i <= j]

\* normalizeDrop, without file:// addresses, which are decoded by the library.
NormalizeDrop(payload, there) ==
  LET fields == SplitDropFields(payload)
      path(i) == TrimQuotes(fields[i])
      form(i) == PickExisting(<<UnescapeBackslashes(path(i)), StripAnyEscape(path(i)), path(i)>>, there)
      upto[i \in 0 .. Len(fields)] ==
        IF i = 0 THEN <<>>
        ELSE IF path(i) = <<>> THEN upto[i - 1] ELSE Append(upto[i - 1], form(i))
  IN  upto[Len(fields)]

\* What the window sends for a file (its escape_for_drop, copied in the tests), of the
\* first n characters.
EscapedUpto(name, n) ==
  LET upto[i \in 0 .. Len(name)] ==
        IF i = 0 THEN <<>>
        ELSE Append(IF name[i] \in Escapable THEN Append(upto[i - 1], Escape) ELSE upto[i - 1], name[i])
  IN  upto[n]

EscapeForDrop(name) == EscapedUpto(name, Len(name))

\* And for the first n of several.
PayloadUpto(names, n) ==
  LET upto[i \in 0 .. Len(names)] ==
        IF i = 0 THEN <<>> ELSE upto[i - 1] \o Append(EscapeForDrop(names[i]), Space)
  IN  upto[n]

Payload(names) == PayloadUpto(names, Len(names))

-------------------------------------------------------------------------------
\* Names the window escaped come out as they went in, each of them whole and in
\* order, with their spaces, quotes and backslashes, whether the files are there or
\* gone by then, as long as no name ends in a quote (drop.go: normalizeDrop).
ArrivesWhole(names) ==
  (\A i \in DOMAIN names : Last(names[i]) \notin Quotes) =>
    \A there \in {{}, ToSet(names)} : NormalizeDrop(Payload(names), there) = names

=============================================================================
