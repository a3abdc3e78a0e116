------------------------- MODULE LyricsFetchProofs -------------------------
(***************************************************************************)
(* Theorems about LyricsFetch, for any tracks, any number of fetches, any  *)
(* records on disk when the program starts, and anything the provider      *)
(* answers; and about Lyrics, for any song in order: the lines sung, those *)
(* the overlay gets, and the rows in the panel.                            *)
(***************************************************************************)
EXTENDS LyricsOnScreen, FiniteSetTheorems, SequenceTheorems, WellFoundedInduction, TLAPS

Fetching == {"load", "discard", "get", "getAgain", "search", "searchAgain", "create",
             "fill", "rename", "remove", "store"}
Outcomes == {None, "found", "negative", "nothing", "failed"}
FetchRecord == [sig : Sigs \cup {None}, step : Steps, outcome : Outcomes, file : {None, "tmp", "disk"}]

-----------------------------------------------------------------------------
(* The inductive invariant. *)

\* A fetch that has not begun is for no track.
Unbegun == \A f \in Fetches : fetch[f].step = "idle" => fetch[f].sig = None

\* A fetch that saves or stores knows what: lyrics, or that there are none.
Saving == {"create", "fill", "rename", "remove", "store"}
Learned == \A f \in Fetches : fetch[f].step \in Saving => fetch[f].outcome \in Whole

\* A fetch that is going to change the marker of its track: by storing what it
\* learned, or by the failure it reports.
Owing(f) == fetch[f].step \in Fetching \/ (fetch[f].step = "report" /\ fetch[f].outcome = "failed")
Owed == \A s \in Sigs : cache[s] = "pending" => \E f \in Fetches : fetch[f].sig = s /\ Owing(f)

\* The files of a track that was fetched for at most once: the record is whole, what is
\* in the temporary file is what this fetch wrote, and nobody writes to the record.
Single(s) == \A f, g \in Fetches : fetch[f].sig = s /\ fetch[g].sig = s => f = g
Orderly(f, s) ==
  /\ fetch[f].file # "disk"
  /\ fetch[f].step = "fill" => fetch[f].file = "tmp" /\ tmp[s] = "empty"
  /\ fetch[f].step = "rename" => tmp[s] \notin Damaged
Intact ==
  \A s \in Sigs : Single(s) =>
    /\ disk[s] \notin Damaged
    /\ \A f \in Fetches : fetch[f].sig = s => Orderly(f, s)

IInv == TypeOK /\ LyricsOfCurrent /\ IndicatorIsReal /\ Unbegun /\ Learned /\ Intact

-----------------------------------------------------------------------------
(* What the steps do to the fetches. *)

FetchType == fetch \in [Fetches -> FetchRecord]

\* A fetch moves on, and keeps its track and its file.
LEMMA GoFetch ==
  ASSUME FetchType, NEW f \in Fetches, NEW step \in Steps, NEW outcome \in Outcomes,
         Go(f, step, outcome)
  PROVE  /\ FetchType'
         /\ fetch'[f].sig = fetch[f].sig /\ fetch'[f].file = fetch[f].file
         /\ fetch'[f].step = step /\ fetch'[f].outcome = outcome
         /\ \A g \in Fetches : g # f => fetch'[g] = fetch[g]
<1>1. fetch' = [fetch EXCEPT ![f] = [fetch[f] EXCEPT !.step = step, !.outcome = outcome]]
  BY DEF Go, FetchType
<1>2. /\ [fetch[f] EXCEPT !.step = step, !.outcome = outcome] \in FetchRecord
      /\ [fetch[f] EXCEPT !.step = step, !.outcome = outcome].sig = fetch[f].sig
      /\ [fetch[f] EXCEPT !.step = step, !.outcome = outcome].file = fetch[f].file
      /\ [fetch[f] EXCEPT !.step = step, !.outcome = outcome].step = step
      /\ [fetch[f] EXCEPT !.step = step, !.outcome = outcome].outcome = outcome
  BY DEF FetchType, FetchRecord
<1> QED BY <1>1, <1>2 DEF FetchType

\* A file that is moved or unlinked changes what its writers hold, and nothing else.
LEMMA MovedFetch ==
  ASSUME FetchType, NEW s, NEW from, NEW to \in {None, "tmp", "disk"}
  PROVE  /\ Moved(s, from, to) \in [Fetches -> FetchRecord]
         /\ \A g \in Fetches :
              /\ Moved(s, from, to)[g].sig = fetch[g].sig
              /\ Moved(s, from, to)[g].step = fetch[g].step
              /\ Moved(s, from, to)[g].outcome = fetch[g].outcome
              /\ Moved(s, from, to)[g].file =
                   IF fetch[g].sig = s /\ fetch[g].file = from THEN to ELSE fetch[g].file
<1> SUFFICES ASSUME NEW g \in Fetches
             PROVE  /\ Moved(s, from, to)[g] \in FetchRecord
                    /\ Moved(s, from, to)[g].sig = fetch[g].sig
                    /\ Moved(s, from, to)[g].step = fetch[g].step
                    /\ Moved(s, from, to)[g].outcome = fetch[g].outcome
                    /\ Moved(s, from, to)[g].file =
                         IF fetch[g].sig = s /\ fetch[g].file = from THEN to ELSE fetch[g].file
  BY DEF Moved
<1>1. fetch[g] \in FetchRecord
  BY DEF FetchType
<1>2. CASE fetch[g].sig = s /\ fetch[g].file = from
  BY <1>1, <1>2 DEF Moved, FetchRecord
<1>3. CASE ~(fetch[g].sig = s /\ fetch[g].file = from)
  BY <1>1, <1>3 DEF Moved, FetchRecord
<1> QED BY <1>2, <1>3

\* A new fetch for s, in a table of fetches that is otherwise t.
Begins(t, s) ==
  \E f \in Fetches :
    /\ At(f, "idle")
    /\ fetch' = [t EXCEPT ![f] = [Idle EXCEPT !.sig = s, !.step = "load"]]

LEMMA BeginsFetch ==
  ASSUME NEW t \in [Fetches -> FetchRecord], NEW s \in Sigs, Begins(t, s)
  PROVE  /\ FetchType'
         /\ \E f \in Fetches :
              /\ At(f, "idle")
              /\ fetch'[f].sig = s /\ fetch'[f].step = "load" /\ fetch'[f].file = None
              /\ \A g \in Fetches : g # f => fetch'[g] = t[g]
<1> DEFINE new == [Idle EXCEPT !.sig = s, !.step = "load"]
<1>1. new \in FetchRecord /\ new.sig = s /\ new.step = "load" /\ new.file = None
  BY DEF Idle, FetchRecord, Steps, Outcomes
<1>2. PICK f \in Fetches : At(f, "idle") /\ fetch' = [t EXCEPT ![f] = new]
  BY DEF Begins
<1> HIDE DEF new
<1> QED BY <1>1, <1>2 DEF FetchType

\* What the provider's answer makes of a fetch; "nothing" comes of a search only when
\* the search itself may be answered by 404.
LEMMA AskFetch ==
  ASSUME FetchType, NEW f \in Fetches, Get(f) \/ Search(f)
  PROVE  /\ UNCHANGED <<ui, cache, record>> /\ (cooling' = cooling \/ cooling' = TRUE)
         /\ fetch[f].step \in Fetching \ {"create", "fill", "rename"}
         /\ \E step \in {"getAgain", "search", "searchAgain", "create", "report"}, outcome \in Outcomes :
              /\ Go(f, step, outcome)
              /\ step = "create" => outcome \in Whole
              /\ step = "report" => outcome = "failed" \/ "missing" \in SearchAnswers
<1> DEFINE Leads == \E step \in {"getAgain", "search", "searchAgain", "create", "report"}, outcome \in Outcomes :
                      /\ Go(f, step, outcome)
                      /\ step = "create" => outcome \in Whole
                      /\ step = "report" => outcome = "failed" \/ "missing" \in SearchAnswers
<1>1. ASSUME NEW answer \in {"hit", "instrumental", "nomatch", "failed"}, Settle(f, answer) PROVE Leads
  <2>1. \/ Go(f, "create", "found") \/ Go(f, "create", "negative") \/ Go(f, "report", "failed")
    BY <1>1 DEF Settle
  <2> QED BY <2>1 DEF Outcomes, Whole
<1>2. ASSUME NEW step, NEW again, NEW answers, NEW lost, NEW outcome \in Outcomes,
             Ask(f, step, again, answers, lost, outcome),
             answers \subseteq {"hit", "instrumental", "nomatch", "missing", "limited", "failed"},
             again \in {"getAgain", "searchAgain"},
             lost \in {"search", "report"}, lost = "report" => answers = SearchAnswers
      PROVE  Leads
  <2>1. PICK answer \in answers :
          \/ answer = "limited" /\ Go(f, again, None)
          \/ answer = "limited" /\ Go(f, "report", "failed")
          \/ answer = "missing" /\ Go(f, lost, outcome)
          \/ answer \notin {"limited", "missing"} /\ Settle(f, answer)
    BY <1>2 DEF Ask
  <2>2. CASE Go(f, again, None) \/ Go(f, "report", "failed")
    BY <1>2, <2>2 DEF Outcomes
  <2>3. CASE answer = "missing" /\ Go(f, lost, outcome)
    BY <1>2, <2>3
  <2>4. CASE answer \notin {"limited", "missing"} /\ Settle(f, answer)
    BY <1>1, <1>2, <2>4
  <2> QED BY <2>1, <2>2, <2>3, <2>4
<1>3. Leads
  <2>1. CASE Get(f)
    BY <1>2, <2>1 DEF Get, Answers, Outcomes
  <2>2. CASE Search(f)
    BY <1>2, <2>2, FetchAssumption DEF Search, Outcomes
  <2> QED BY <2>1, <2>2
<1>4. /\ UNCHANGED <<ui, cache, record>> /\ (cooling' = cooling \/ cooling' = TRUE)
      /\ fetch[f].step \in Fetching \ {"create", "fill", "rename"}
  BY DEF Get, Search, Ask, At, Fetching
<1> QED BY <1>3, <1>4

\* What a step of the goroutine of f leaves alone: the screen, the other fetches but for
\* the files they write to, the files of other tracks, and the session cache until it
\* stores what it learned.
RunType ==
  /\ FetchType' /\ cooling' \in BOOLEAN
  /\ disk' \in [Sigs -> {None, "stale"} \cup Whole \cup Damaged]
  /\ tmp' \in [Sigs -> {None} \cup Whole \cup Damaged]
RunFrame(f) ==
  /\ UNCHANGED ui
  /\ \A g \in Fetches : fetch'[g].sig = fetch[g].sig
  /\ \A g \in Fetches : g # f => fetch'[g].step = fetch[g].step /\ fetch'[g].outcome = fetch[g].outcome
  /\ \A g \in Fetches : g # f /\ fetch[g].sig # fetch[f].sig => fetch'[g] = fetch[g]
  /\ \A s \in Sigs : s # fetch[f].sig => disk'[s] = disk[s] /\ tmp'[s] = tmp[s]
  /\ fetch[f].step \in Fetching /\ fetch'[f].step \in Fetching \cup {"report"}
  /\ fetch'[f].step \in Saving => fetch'[f].outcome \in Whole
RunCache(f) ==
  \/ /\ cache' = cache
     /\ fetch'[f].step = "report" => fetch'[f].outcome = "failed" \/ "missing" \in SearchAnswers
  \/ cache' \in {[cache EXCEPT ![fetch[f].sig] = "found"], [cache EXCEPT ![fetch[f].sig] = "notfound"]}

LEMMA RunFetch ==
  ASSUME TypeOK, Learned, NEW f \in Fetches, Run(f)
  PROVE  RunType /\ RunFrame(f) /\ RunCache(f)
<1>0. FetchType /\ fetch[f] \in FetchRecord
  BY DEF TypeOK, FetchType, FetchRecord, Outcomes
<1>t. /\ cooling \in BOOLEAN
      /\ disk \in [Sigs -> {None, "stale"} \cup Whole \cup Damaged]
      /\ tmp \in [Sigs -> {None} \cup Whole \cup Damaged]
  BY DEF TypeOK
<1>1. CASE LoadRecord(f)
  <2>1. /\ At(f, "load") /\ UNCHANGED <<disk, tmp, cooling, cache, ui>>
        /\ "store" \in Steps /\ "get" \in Steps /\ "discard" \in Steps /\ None \in Outcomes
    BY <1>1 DEF LoadRecord, record, Steps, Outcomes
  <2>2. CASE disk[fetch[f].sig] \in Whole /\ Go(f, "store", disk[fetch[f].sig])
    <3>1. disk[fetch[f].sig] \in Outcomes
      BY <2>2 DEF Whole, Outcomes
    <3> QED BY <1>0, <1>t, <2>1, <2>2, <3>1, GoFetch DEF At, RunType, RunFrame, RunCache, Fetching, Saving, Learned
  <2>3. CASE Go(f, "get", None)
    BY <1>0, <1>t, <2>1, <2>3, GoFetch DEF At, RunType, RunFrame, RunCache, Fetching, Saving
  <2>4. CASE Go(f, "discard", None)
    BY <1>0, <1>t, <2>1, <2>4, GoFetch DEF At, RunType, RunFrame, RunCache, Fetching, Saving
  <2> QED BY <1>1, <2>2, <2>3, <2>4 DEF LoadRecord
<1>8. CASE Discard(f)
  <2>1. CASE Go(f, "get", None) /\ UNCHANGED <<disk, tmp, cooling, cache, ui>>
    <3>1. "get" \in Steps /\ None \in Outcomes /\ At(f, "discard")
      BY <1>8 DEF Discard, Steps, Outcomes
    <3> QED BY <1>0, <1>t, <2>1, <3>1, GoFetch DEF At, RunType, RunFrame, RunCache, Fetching, Saving
  <2>2. CASE /\ disk' = [disk EXCEPT ![fetch[f].sig] = None]
             /\ fetch' = [Moved(fetch[f].sig, "disk", None) EXCEPT ![f].step = "get"]
             /\ UNCHANGED <<ui, cache, cooling, tmp>>
    <3> DEFINE m == Moved(fetch[f].sig, "disk", None)
    <3>1. /\ m \in [Fetches -> FetchRecord]
          /\ \A g \in Fetches : /\ m[g].sig = fetch[g].sig /\ m[g].step = fetch[g].step
                                /\ m[g].outcome = fetch[g].outcome
                                /\ fetch[g].sig # fetch[f].sig => m[g].file = fetch[g].file
      BY <1>0, MovedFetch
    <3>2. \A g \in Fetches : fetch[g].sig # fetch[f].sig => m[g] = fetch[g]
      BY <1>0, <3>1 DEF FetchType, FetchRecord
    <3> HIDE DEF m
    <3>3. fetch' = [m EXCEPT ![f] = [m[f] EXCEPT !.step = "get"]]
      BY <2>2, <3>1 DEF m
    <3>4. /\ [m[f] EXCEPT !.step = "get"] \in FetchRecord
          /\ [m[f] EXCEPT !.step = "get"].sig = fetch[f].sig
          /\ [m[f] EXCEPT !.step = "get"].step = "get"
      BY <3>1 DEF FetchRecord, Steps
    <3>5. /\ FetchType' /\ fetch'[f].step = "get"
          /\ \A g \in Fetches : fetch'[g].sig = fetch[g].sig
          /\ \A g \in Fetches : g # f => fetch'[g] = m[g]
      BY <3>1, <3>3, <3>4 DEF FetchType
    <3>6. RunType
      BY <1>t, <2>2, <3>5 DEF RunType
    <3>7. RunFrame(f)
      <4>1. fetch[f].step = "discard" /\ \A s \in Sigs : s # fetch[f].sig => disk'[s] = disk[s] /\ tmp'[s] = tmp[s]
        BY <1>8, <1>t, <2>2 DEF Discard, At
      <4> QED BY <2>2, <3>1, <3>2, <3>5, <4>1 DEF RunFrame, Fetching, Saving
    <3>8. RunCache(f)
      BY <2>2, <3>5 DEF RunCache
    <3> QED BY <3>6, <3>7, <3>8
  <2> QED BY <1>8, <2>1, <2>2 DEF Discard
<1>2. CASE Get(f) \/ Search(f)
  <2>1. PICK step \in {"getAgain", "search", "searchAgain", "create", "report"}, outcome \in Outcomes :
          /\ Go(f, step, outcome)
          /\ step = "create" => outcome \in Whole
          /\ step = "report" => outcome = "failed" \/ "missing" \in SearchAnswers
    BY <1>0, <1>2, AskFetch
  <2>2. step \in Steps
    BY DEF Steps
  <2>3. /\ UNCHANGED <<ui, cache, record>> /\ (cooling' = cooling \/ cooling' = TRUE)
        /\ fetch[f].step \in Fetching
    BY <1>0, <1>2, AskFetch
  <2>4. cooling' \in BOOLEAN
    BY <1>t, <2>3
  <2> QED BY <1>0, <1>t, <2>1, <2>2, <2>3, <2>4, GoFetch DEF record, RunType, RunFrame, RunCache, Fetching, Saving, Learned
<1>3. CASE SaveCreate(f)
  <2>1. CASE Go(f, "store", fetch[f].outcome) /\ UNCHANGED tmp
    BY <1>0, <1>3, <1>t, <2>1, GoFetch DEF SaveCreate, At, RunType, RunFrame, RunCache, Fetching, Saving, Learned, Steps, FetchRecord
  <2>2. CASE /\ tmp' = [tmp EXCEPT ![fetch[f].sig] = "empty"]
             /\ fetch' = [fetch EXCEPT ![f].step = "fill", ![f].file = "tmp"]
    <3>1. fetch' = [fetch EXCEPT ![f] = [fetch[f] EXCEPT !.step = "fill", !.file = "tmp"]]
      BY <1>0, <2>2 DEF FetchType
    <3>2. FetchType' /\ fetch'[f].sig = fetch[f].sig /\ fetch'[f].step = "fill"
          /\ fetch'[f].outcome = fetch[f].outcome
          /\ \A g \in Fetches : g # f => fetch'[g] = fetch[g]
      BY <1>0, <3>1 DEF FetchType, FetchRecord, Steps

    <3> QED BY <1>3, <1>t, <2>2, <3>2 DEF SaveCreate, At, RunType, RunFrame, RunCache, Fetching, Saving, Learned, Damaged
  <2> QED BY <1>3, <2>1, <2>2 DEF SaveCreate
<1>4. CASE SaveFill(f)
  <2>1. PICK step \in {"rename", "store"}, file \in {None, fetch[f].file} :
          fetch' = [fetch EXCEPT ![f] = [fetch[f] EXCEPT !.step = step, !.file = file]]
    <3>1. \/ fetch' = [fetch EXCEPT ![f].step = "rename", ![f].file = None]
          \/ fetch' = [fetch EXCEPT ![f].step = "store", ![f].file = None]
          \/ fetch' = [fetch EXCEPT ![f].step = "rename"]
      BY <1>4 DEF SaveFill
    <3>2. fetch' = [fetch EXCEPT ![f].step = "rename"]
            => fetch' = [fetch EXCEPT ![f] = [fetch[f] EXCEPT !.step = "rename", !.file = fetch[f].file]]
      BY <1>0 DEF FetchType, FetchRecord
    <3> QED BY <1>0, <3>1, <3>2 DEF FetchType
  <2>2. FetchType' /\ fetch'[f].sig = fetch[f].sig /\ fetch'[f].step = step
        /\ fetch'[f].outcome = fetch[f].outcome
        /\ \A g \in Fetches : g # f => fetch'[g] = fetch[g]
    BY <1>0, <2>1 DEF FetchType, FetchRecord, Steps
  <2>3. fetch[f].outcome \in Whole /\ fetch[f].step = "fill" /\ UNCHANGED <<ui, cache, cooling>>
    BY <1>0, <1>4 DEF SaveFill, At, FetchRecord, Learned, Saving
  <2>4. \A old : Written(old, fetch[f].outcome) \subseteq Whole \cup Damaged
    BY <2>3 DEF Written, Damaged
  <2>5. /\ disk' = disk \/ \E c \in Whole \cup Damaged : disk' = [disk EXCEPT ![fetch[f].sig] = c]
        /\ tmp' = tmp \/ \E c \in Whole \cup Damaged : tmp' = [tmp EXCEPT ![fetch[f].sig] = c]
    <3>1. \/ UNCHANGED record
          \/ \E c \in Written(tmp[fetch[f].sig], fetch[f].outcome) :
               tmp' = [tmp EXCEPT ![fetch[f].sig] = c] /\ UNCHANGED disk
          \/ \E c \in Written(disk[fetch[f].sig], fetch[f].outcome) :
               disk' = [disk EXCEPT ![fetch[f].sig] = c] /\ UNCHANGED tmp
      BY <1>4 DEF SaveFill
    <3> QED BY <2>4, <3>1 DEF record
  <2>6. RunType
    BY <1>t, <2>2, <2>3, <2>5 DEF RunType
  <2>7. \A s \in Sigs : s # fetch[f].sig => disk'[s] = disk[s] /\ tmp'[s] = tmp[s]
    BY <1>t, <2>5
  <2> QED BY <2>2, <2>3, <2>6, <2>7 DEF RunFrame, RunCache, Fetching
<1>5. CASE SaveRename(f)
  <2> DEFINE s == fetch[f].sig
             keep(g) == [g EXCEPT !.file = IF g.sig # s THEN @
                                           ELSE IF @ = "tmp" THEN "disk" ELSE None]
  <2>0. fetch[f].step = "rename" /\ UNCHANGED <<ui, cache, cooling>>
    BY <1>5 DEF SaveRename, At
  <2>1. CASE Go(f, "remove", fetch[f].outcome) /\ UNCHANGED record
    BY <1>0, <1>t, <2>0, <2>1, GoFetch
       DEF record, RunType, RunFrame, RunCache, Fetching, Steps, FetchRecord, Saving, Learned
  <2>2. CASE /\ disk' = [disk EXCEPT ![s] = tmp[s]]
             /\ tmp' = [tmp EXCEPT ![s] = None]
             /\ tmp[s] # None
             /\ fetch' = [g \in Fetches |->
                            IF g = f THEN [fetch[f] EXCEPT !.step = "store"] ELSE keep(fetch[g])]
    <3>1. ASSUME NEW g \in FetchRecord
          PROVE  /\ keep(g) \in FetchRecord /\ keep(g).sig = g.sig /\ keep(g).step = g.step
                 /\ keep(g).outcome = g.outcome /\ (g.sig # s => keep(g) = g)
      <4>1. g.file \in {None, "tmp", "disk"}
        BY DEF FetchRecord
      <4>2. PICK file \in {None, "tmp", "disk"} : keep(g) = [g EXCEPT !.file = file] /\ (g.sig # s => file = g.file)
        <5>1. CASE g.sig # s
          BY <4>1, <5>1
        <5>2. CASE g.sig = s /\ g.file = "tmp"
          BY <5>2
        <5>3. CASE g.sig = s /\ g.file # "tmp"
          BY <5>3
        <5> QED BY <5>1, <5>2, <5>3
      <4> HIDE DEF keep
      <4> QED BY <4>2 DEF FetchRecord
    <3> HIDE DEF keep
    <3>2. fetch'[f] \in FetchRecord /\ fetch'[f].sig = fetch[f].sig /\ fetch'[f].step = "store"
          /\ fetch'[f].outcome = fetch[f].outcome
      BY <1>0, <2>2 DEF FetchRecord, Steps
    <3>3. \A g \in Fetches : g # f => fetch'[g] = keep(fetch[g]) /\ fetch[g] \in FetchRecord
      BY <1>0, <2>2 DEF FetchType
    <3>4. FetchType'
      BY <2>2, <3>1, <3>2, <3>3 DEF FetchType
    <3>5. /\ \A g \in Fetches : fetch'[g].sig = fetch[g].sig
          /\ \A g \in Fetches : g # f => fetch'[g].step = fetch[g].step /\ fetch'[g].outcome = fetch[g].outcome
          /\ \A g \in Fetches : g # f /\ fetch[g].sig # fetch[f].sig => fetch'[g] = fetch[g]
      BY <3>1, <3>2, <3>3
    <3>6. /\ disk' \in [Sigs -> {None, "stale"} \cup Whole \cup Damaged]
          /\ tmp' \in [Sigs -> {None} \cup Whole \cup Damaged]
          /\ \A r \in Sigs : r # s => disk'[r] = disk[r] /\ tmp'[r] = tmp[r]
      BY <1>t, <2>2
    <3>7. fetch[f].outcome \in Whole
      BY <2>0 DEF Learned, Saving
    <3> QED BY <1>t, <2>0, <3>2, <3>4, <3>5, <3>6, <3>7 DEF RunType, RunFrame, RunCache, Fetching
  <2> QED BY <1>5, <2>1, <2>2 DEF SaveRename
<1>6. CASE SaveRemove(f)
  <2> DEFINE m == Moved(fetch[f].sig, "tmp", None)
  <2>0. /\ fetch[f].step = "remove" /\ UNCHANGED <<ui, cache, cooling, disk>>
        /\ tmp' = [tmp EXCEPT ![fetch[f].sig] = None]
        /\ fetch' = [m EXCEPT ![f].step = "store"]
    BY <1>6 DEF SaveRemove, At
  <2>1. /\ m \in [Fetches -> FetchRecord]
        /\ \A g \in Fetches : /\ m[g].sig = fetch[g].sig /\ m[g].step = fetch[g].step
                              /\ m[g].outcome = fetch[g].outcome
                              /\ fetch[g].sig # fetch[f].sig => m[g].file = fetch[g].file
    BY <1>0, MovedFetch
  <2>2. \A g \in Fetches : fetch[g].sig # fetch[f].sig => m[g] = fetch[g]
    BY <1>0, <2>1 DEF FetchType, FetchRecord
  <2> HIDE DEF m
  <2>3. fetch' = [m EXCEPT ![f] = [m[f] EXCEPT !.step = "store"]]
    BY <2>0, <2>1
  <2>4. /\ [m[f] EXCEPT !.step = "store"] \in FetchRecord
        /\ [m[f] EXCEPT !.step = "store"].sig = fetch[f].sig
        /\ [m[f] EXCEPT !.step = "store"].step = "store"
        /\ [m[f] EXCEPT !.step = "store"].outcome = fetch[f].outcome
    BY <2>1 DEF FetchRecord, Steps
  <2>5. /\ FetchType' /\ fetch'[f].step = "store" /\ fetch'[f].outcome = fetch[f].outcome
        /\ \A g \in Fetches : fetch'[g].sig = fetch[g].sig
        /\ \A g \in Fetches : g # f => fetch'[g] = m[g]
    BY <2>1, <2>3, <2>4 DEF FetchType
  <2> QED BY <1>t, <2>0, <2>1, <2>2, <2>5 DEF RunType, RunFrame, RunCache, Fetching, Saving, Learned
<1>7. CASE StoreResult(f)
  <2>1. /\ fetch[f].step = "store" /\ UNCHANGED <<ui, cooling, record>>
        /\ cache' \in {[cache EXCEPT ![fetch[f].sig] = "found"], [cache EXCEPT ![fetch[f].sig] = "notfound"]}
        /\ Go(f, "report", IF fetch[f].outcome = "found" THEN "found" ELSE "nothing")
    BY <1>7 DEF StoreResult, At
  <2>2. (IF fetch[f].outcome = "found" THEN "found" ELSE "nothing") \in Outcomes /\ "report" \in Steps
    BY DEF Outcomes, Steps
  <2> QED BY <1>0, <1>t, <2>1, <2>2, GoFetch DEF record, RunType, RunFrame, RunCache, Fetching, Saving
<1> QED BY <1>1, <1>2, <1>3, <1>4, <1>5, <1>6, <1>7, <1>8 DEF Run

\* A fetch that is the only one of its track, and finds the files of the track in order,
\* leaves them in order.
LEMMA RunAlone ==
  ASSUME TypeOK, Learned, NEW f \in Fetches, Run(f), NEW s \in Sigs, s = fetch[f].sig,
         disk[s] \notin Damaged, Orderly(f, s)
  PROVE  disk'[s] \notin Damaged /\ Orderly(f, s)'
<1>0. FetchType /\ fetch[f] \in FetchRecord
  BY DEF TypeOK, FetchType, FetchRecord, Outcomes
<1>t. /\ disk \in [Sigs -> {None, "stale"} \cup Whole \cup Damaged]
      /\ tmp \in [Sigs -> {None} \cup Whole \cup Damaged]
  BY DEF TypeOK
<1>n. None \notin Damaged /\ \A c \in Whole : c \notin Damaged
  BY DEF Damaged, Whole, None
<1>1. CASE LoadRecord(f)
  <2>1. PICK step \in {"store", "get", "discard"}, outcome \in Outcomes : Go(f, step, outcome)
    BY <1>1 DEF LoadRecord, Whole, Outcomes
  <2>2. step \in Steps /\ step \notin {"fill", "rename"} /\ UNCHANGED disk
    BY <1>1 DEF LoadRecord, record, Steps
  <2> QED BY <1>0, <2>1, <2>2, GoFetch DEF Orderly
<1>8. CASE Discard(f)
  <2>1. CASE Go(f, "get", None) /\ UNCHANGED disk
    <3>1. "get" \in Steps /\ None \in Outcomes
      BY DEF Steps, Outcomes
    <3> QED BY <1>0, <2>1, <3>1, GoFetch DEF Orderly
  <2>2. CASE /\ disk' = [disk EXCEPT ![s] = None]
             /\ fetch' = [Moved(s, "disk", None) EXCEPT ![f].step = "get"]
    <3> DEFINE m == Moved(s, "disk", None)
    <3>1. m \in [Fetches -> FetchRecord] /\ m[f].file = fetch[f].file
      BY <1>0, MovedFetch DEF Orderly
    <3> HIDE DEF m
    <3>2. fetch'[f] = [m[f] EXCEPT !.step = "get"]
      BY <2>2, <3>1 DEF m
    <3>3. fetch'[f].step = "get" /\ fetch'[f].file # "disk"
      BY <3>1, <3>2 DEF FetchRecord, Orderly
    <3>4. disk'[s] = None
      BY <1>t, <2>2
    <3> QED BY <1>n, <3>3, <3>4 DEF Orderly
  <2> QED BY <1>8, <2>1, <2>2 DEF Discard
<1>2. CASE Get(f) \/ Search(f)
  <2>1. PICK step \in {"getAgain", "search", "searchAgain", "create", "report"}, outcome \in Outcomes :
          Go(f, step, outcome)
    BY <1>0, <1>2, AskFetch
  <2>2. step \in Steps /\ step \notin {"fill", "rename"}
    BY DEF Steps
  <2>3. disk' = disk
    BY <1>0, <1>2, AskFetch DEF record
  <2> QED BY <1>0, <2>1, <2>2, <2>3, GoFetch DEF Orderly
<1>3. CASE SaveCreate(f)
  <2>1. CASE Go(f, "store", fetch[f].outcome)
    BY <1>0, <1>3, <2>1, GoFetch DEF SaveCreate, Orderly, Steps, FetchRecord
  <2>2. CASE /\ tmp' = [tmp EXCEPT ![s] = "empty"]
             /\ fetch' = [fetch EXCEPT ![f].step = "fill", ![f].file = "tmp"]
    <3>1. fetch'[f] = [fetch[f] EXCEPT !.step = "fill", !.file = "tmp"]
      BY <1>0, <2>2 DEF FetchType
    <3>2. fetch'[f].step = "fill" /\ fetch'[f].file = "tmp"
      BY <1>0, <3>1 DEF FetchRecord
    <3> QED BY <1>3, <1>t, <2>2, <3>2 DEF SaveCreate, Orderly
  <2> QED BY <1>3, <2>1, <2>2 DEF SaveCreate
<1>4. CASE SaveFill(f)
  <2>1. fetch[f].file = "tmp" /\ tmp[s] = "empty" /\ fetch[f].step = "fill" /\ fetch[f].outcome \in Whole
    BY <1>4 DEF SaveFill, At, Orderly, Learned, Saving
  <2>2. \/ /\ \E c \in Written(tmp[s], fetch[f].outcome) : tmp' = [tmp EXCEPT ![s] = c]
           /\ fetch' = [fetch EXCEPT ![f].step = "rename", ![f].file = None]
           /\ UNCHANGED disk
        \/ /\ fetch' = [fetch EXCEPT ![f].step = "store", ![f].file = None]
           /\ UNCHANGED record
    BY <1>4, <2>1 DEF SaveFill, None
  <2>3. CASE /\ \E c \in Written(tmp[s], fetch[f].outcome) : tmp' = [tmp EXCEPT ![s] = c]
             /\ fetch' = [fetch EXCEPT ![f].step = "rename", ![f].file = None]
             /\ UNCHANGED disk
    <3>1. fetch'[f].step = "rename" /\ fetch'[f].file = None
      <4>1. fetch'[f] = [fetch[f] EXCEPT !.step = "rename", !.file = None]
        BY <1>0, <2>3 DEF FetchType
      <4> QED BY <1>0, <4>1 DEF FetchRecord
    <3>2. tmp'[s] = fetch[f].outcome
      BY <1>t, <2>1, <2>3 DEF Written
    <3> QED BY <1>n, <2>1, <2>3, <3>1, <3>2 DEF Orderly, None
  <2>4. CASE fetch' = [fetch EXCEPT ![f].step = "store", ![f].file = None] /\ UNCHANGED record
    <3>1. fetch'[f].step = "store" /\ fetch'[f].file = None
      <4>1. fetch'[f] = [fetch[f] EXCEPT !.step = "store", !.file = None]
        BY <1>0, <2>4 DEF FetchType
      <4> QED BY <1>0, <4>1 DEF FetchRecord
    <3> QED BY <2>4, <3>1 DEF Orderly, None, record
  <2> QED BY <2>2, <2>3, <2>4
<1>5. CASE SaveRename(f)
  <2>1. tmp[s] \notin Damaged
    BY <1>5 DEF SaveRename, At, Orderly
  <2>2. CASE Go(f, "remove", fetch[f].outcome) /\ UNCHANGED record
    BY <1>0, <2>2, GoFetch DEF record, Orderly, Steps, FetchRecord
  <2>3. CASE disk' = [disk EXCEPT ![s] = tmp[s]] /\ fetch'[f] = [fetch[f] EXCEPT !.step = "store"]
    <3>1. disk'[s] = tmp[s]
      BY <1>t, <2>3
    <3>2. fetch'[f].step = "store" /\ fetch'[f].file = fetch[f].file
      BY <1>0, <2>3 DEF FetchRecord
    <3> QED BY <2>1, <3>1, <3>2 DEF Orderly
  <2> QED BY <1>5, <2>2, <2>3 DEF SaveRename
<1>6. CASE SaveRemove(f)
  <2> DEFINE m == Moved(s, "tmp", None)
  <2>1. m \in [Fetches -> FetchRecord] /\ m[f].file \in {fetch[f].file, None}
    BY <1>0, MovedFetch
  <2>2. fetch' = [m EXCEPT ![f].step = "store"] /\ disk' = disk
    BY <1>6 DEF SaveRemove
  <2> HIDE DEF m
  <2>3. fetch'[f].step = "store" /\ fetch'[f].file = m[f].file
    <3>1. fetch'[f] = [m[f] EXCEPT !.step = "store"]
      BY <2>1, <2>2
    <3> QED BY <2>1, <3>1 DEF FetchRecord
  <2> QED BY <2>1, <2>2, <2>3 DEF Orderly, None
<1>7. CASE StoreResult(f)
  <2>1. /\ UNCHANGED disk
        /\ Go(f, "report", IF fetch[f].outcome = "found" THEN "found" ELSE "nothing")
    BY <1>7 DEF StoreResult, record
  <2>2. (IF fetch[f].outcome = "found" THEN "found" ELSE "nothing") \in Outcomes /\ "report" \in Steps
    BY DEF Outcomes, Steps
  <2> QED BY <1>0, <2>1, <2>2, GoFetch DEF Orderly
<1> QED BY <1>1, <1>2, <1>3, <1>4, <1>5, <1>6, <1>7, <1>8 DEF Run

\* The whole invariant, and the marker, over a step of a goroutine.
LEMMA RunStep ==
  ASSUME IInv, NEW f \in Fetches, Run(f) PROVE IInv'
<1>1. RunType /\ RunFrame(f) /\ RunCache(f) /\ TypeOK
  BY RunFetch DEF IInv
<1>2. TypeOK'
  <2>1. cache' \in [Sigs -> {None, "pending", "found", "notfound"}]
    BY <1>1 DEF TypeOK, RunCache
  <2> QED BY <1>1, <2>1 DEF TypeOK, RunType, RunFrame, FetchType, FetchRecord, Outcomes, ui
<1>3. LyricsOfCurrent'
  BY <1>1 DEF IInv, RunFrame, ui, LyricsOfCurrent
<1>4. \A g \in Fetches : (InFlight(g) => InFlight(g)') /\ fetch'[g].sig = fetch[g].sig
                         /\ (fetch'[g].step = "idle" => fetch[g].step = "idle")
                         /\ (fetch'[g].step \in Saving => fetch'[g].outcome \in Whole)
  BY <1>1 DEF IInv, RunFrame, InFlight, Fetching, Learned
<1>5. IndicatorIsReal'
  BY <1>1, <1>4 DEF IInv, RunFrame, ui, IndicatorIsReal
<1>6. Unbegun' /\ Learned'
  BY <1>4 DEF IInv, Unbegun, Learned
<1>7. Intact'
  <2> SUFFICES ASSUME NEW s \in Sigs, Single(s)'
               PROVE  /\ disk'[s] \notin Damaged
                      /\ \A g \in Fetches : fetch'[g].sig = s => Orderly(g, s)'
    BY DEF Intact
  <2>1. Single(s)
    BY <1>4 DEF Single
  <2>2. disk[s] \notin Damaged /\ \A g \in Fetches : fetch[g].sig = s => Orderly(g, s)
    BY <2>1 DEF IInv, Intact
  <2>3. CASE fetch[f].sig = s
    <3>1. \A g \in Fetches : fetch'[g].sig = s => g = f
      BY <1>4, <2>1, <2>3 DEF Single
    <3>2. disk'[s] \notin Damaged /\ Orderly(f, s)'
      BY <2>2, <2>3, RunAlone DEF IInv
    <3> QED BY <3>1, <3>2
  <2>4. CASE fetch[f].sig # s
    <3>1. disk'[s] = disk[s] /\ tmp'[s] = tmp[s]
      BY <1>1, <2>4 DEF RunFrame
    <3>2. \A g \in Fetches : fetch'[g].sig = s => fetch'[g] = fetch[g] /\ fetch[g].sig = s
      BY <1>1, <1>4, <2>4 DEF RunFrame
    <3> QED BY <2>2, <3>1, <3>2 DEF Orderly
  <2> QED BY <2>3, <2>4
<1> QED BY <1>2, <1>3, <1>5, <1>6, <1>7 DEF IInv

\* A new fetch, whatever files were taken away from the others, keeps what is said of
\* the fetches and of the files.
LEMMA BeginStep ==
  ASSUME IInv, NEW s \in Sigs, NEW t \in [Fetches -> FetchRecord], Begins(t, s),
         \A g \in Fetches : /\ t[g].sig = fetch[g].sig /\ t[g].step = fetch[g].step
                            /\ t[g].outcome = fetch[g].outcome
                            /\ fetch[g].sig # s => t[g] = fetch[g],
         tmp' = tmp, \A r \in Sigs : disk'[r] \in {disk[r], None}
  PROVE  /\ FetchType' /\ Unbegun' /\ Learned' /\ Intact'
         /\ \E f \in Fetches :
              /\ fetch[f].step = "idle" /\ fetch'[f].sig = s /\ fetch'[f].step = "load"
              /\ \A g \in Fetches : g # f => /\ fetch'[g].sig = fetch[g].sig /\ fetch'[g].step = fetch[g].step
                                             /\ fetch'[g].outcome = fetch[g].outcome
<1>1. PICK f \in Fetches :
        /\ fetch[f].step = "idle"
        /\ fetch'[f].sig = s /\ fetch'[f].step = "load" /\ fetch'[f].file = None
        /\ \A g \in Fetches : g # f => fetch'[g] = t[g]
  BY BeginsFetch DEF At
<1>2. FetchType'
  BY BeginsFetch
<1>3. Unbegun' /\ Learned'
  BY <1>1 DEF IInv, Unbegun, Learned, Saving
<1>4. Intact'
  <2> SUFFICES ASSUME NEW r \in Sigs, Single(r)'
               PROVE  /\ disk'[r] \notin Damaged
                      /\ \A g \in Fetches : fetch'[g].sig = r => Orderly(g, r)'
    BY DEF Intact
  <2>1. fetch[f].sig = None /\ None # r
    BY <1>1, FetchAssumption DEF IInv, Unbegun
  <2>2. Single(r)
    <3> SUFFICES ASSUME NEW g \in Fetches, NEW h \in Fetches, fetch[g].sig = r, fetch[h].sig = r
                 PROVE  g = h
      BY DEF Single
    <3>1. g # f /\ h # f
      BY <2>1
    <3>2. fetch'[g].sig = r /\ fetch'[h].sig = r
      BY <1>1, <3>1
    <3> QED BY <3>2 DEF Single
  <2>3. disk[r] \notin Damaged /\ \A g \in Fetches : fetch[g].sig = r => Orderly(g, r)
    BY <2>2 DEF IInv, Intact
  <2>4. disk'[r] \notin Damaged
    BY <2>3 DEF Damaged, None
  <2>5. ASSUME NEW g \in Fetches, fetch'[g].sig = r PROVE Orderly(g, r)'
    <3>1. CASE g = f
      BY <1>1, <3>1 DEF Orderly, None
    <3>2. CASE g # f
      <4>1. r # s
        BY <1>1, <2>5, <3>2 DEF Single
      <4>2. fetch'[g] = fetch[g] /\ fetch[g].sig = r
        BY <1>1, <2>5, <3>2, <4>1
      <4> QED BY <2>3, <4>2 DEF Orderly
    <3> QED BY <3>1, <3>2
  <2> QED BY <2>4, <2>5
<1> QED BY <1>1, <1>2, <1>3, <1>4

\* The update loop starts a fetch for the track that plays.
LEMMA StartStep ==
  ASSUME IInv, NEW s \in Sigs, Start(s), current' = s, UNCHANGED <<cooling, record>>,
         lyrics' \in {None, "local"} \/ (lyrics' = lyrics /\ current = s)
  PROVE  IInv'
<1>0. FetchType
  BY DEF IInv, TypeOK, FetchType, FetchRecord, Outcomes
<1>1. Begins(fetch, s) /\ tmp' = tmp /\ disk' = disk
  BY DEF Start, Begins, record
<1>2. /\ FetchType' /\ Unbegun' /\ Learned' /\ Intact'
      /\ \E f \in Fetches : fetch'[f].sig = s /\ fetch'[f].step = "load"
  BY <1>0, <1>1, BeginStep DEF FetchType
<1>3. cache' = [cache EXCEPT ![s] = "pending"] /\ fetching' = TRUE
  BY DEF Start
<1>4. TypeOK'
  <2>1. cache' \in [Sigs -> {None, "pending", "found", "notfound"}]
    BY <1>3 DEF IInv, TypeOK
  <2>2. lyrics' \in Sigs \cup {None, "local"} /\ fetching' \in BOOLEAN /\ cooling' \in BOOLEAN
    BY <1>3 DEF IInv, TypeOK
  <2> QED BY <1>1, <1>2, <2>1, <2>2 DEF IInv, TypeOK, FetchType, FetchRecord, Outcomes
<1>5. LyricsOfCurrent'
  BY FetchAssumption DEF IInv, LyricsOfCurrent
<1>6. IndicatorIsReal'
  BY <1>2 DEF IndicatorIsReal, InFlight
<1> QED BY <1>2, <1>4, <1>5, <1>6 DEF IInv

\* :lrc refresh, when it fetches.
LEMMA RefreshStep ==
  ASSUME IInv, Refresh PROVE IInv'
<1>0. FetchType /\ current \in Sigs /\ None \in {None, "tmp", "disk"}
  BY DEF IInv, TypeOK, FetchType, FetchRecord, Outcomes, Refresh
<1> DEFINE m == Moved(current, "disk", None)
<1>1. /\ m \in [Fetches -> FetchRecord]
      /\ \A g \in Fetches : /\ m[g].sig = fetch[g].sig /\ m[g].step = fetch[g].step
                            /\ m[g].outcome = fetch[g].outcome
                            /\ m[g].file = IF fetch[g].sig = current /\ fetch[g].file = "disk"
                                           THEN None ELSE fetch[g].file
  BY <1>0, MovedFetch
<1>2. \A g \in Fetches : fetch[g].sig # current => m[g] = fetch[g]
  BY <1>0, <1>1 DEF FetchType, FetchRecord
<1>3. /\ disk' = [disk EXCEPT ![current] = None]
      /\ UNCHANGED <<current, lyrics, cooling, tmp>>
      /\ \/ fetch' = m /\ UNCHANGED <<cache, fetching>>
         \/ Begins(m, current) /\ cache' = [cache EXCEPT ![current] = "pending"] /\ fetching' = TRUE
  BY DEF Refresh, Begins
<1> HIDE DEF m
<1>4. /\ disk' \in [Sigs -> {None, "stale"} \cup Whole \cup Damaged]
      /\ \A r \in Sigs : disk'[r] \in {disk[r], None}
      /\ cache' \in [Sigs -> {None, "pending", "found", "notfound"}]
      /\ fetching' \in BOOLEAN
  BY <1>3 DEF IInv, TypeOK
<1>5. CASE fetch' = m /\ UNCHANGED <<cache, fetching>>
  <2>1. \A g \in Fetches : /\ fetch'[g].sig = fetch[g].sig /\ fetch'[g].step = fetch[g].step
                           /\ fetch'[g].outcome = fetch[g].outcome
    BY <1>1, <1>5
  <2>2. TypeOK'
    BY <1>1, <1>3, <1>4, <1>5 DEF IInv, TypeOK, FetchRecord, Outcomes
  <2>3. LyricsOfCurrent' /\ IndicatorIsReal'
    BY <1>3, <1>5, <2>1 DEF IInv, LyricsOfCurrent, IndicatorIsReal, InFlight
  <2>4. Unbegun' /\ Learned'
    BY <2>1 DEF IInv, Unbegun, Learned
  <2>5. Intact'
    <3> SUFFICES ASSUME NEW r \in Sigs, Single(r)'
                 PROVE  /\ disk'[r] \notin Damaged
                        /\ \A g \in Fetches : fetch'[g].sig = r => Orderly(g, r)'
      BY DEF Intact
    <3>1. Single(r)
      BY <2>1 DEF Single
    <3>2. disk[r] \notin Damaged /\ \A g \in Fetches : fetch[g].sig = r => Orderly(g, r)
      BY <3>1 DEF IInv, Intact
    <3>3. \A g \in Fetches : fetch[g].sig = r => fetch'[g].file = fetch[g].file
      BY <1>1, <1>5, <3>2 DEF Orderly
    <3>4. disk'[r] \notin Damaged
      BY <1>4, <3>2 DEF Damaged, None
    <3> QED BY <1>3, <2>1, <3>2, <3>3, <3>4 DEF Orderly
  <2> QED BY <2>2, <2>3, <2>4, <2>5 DEF IInv
<1>6. CASE Begins(m, current) /\ cache' = [cache EXCEPT ![current] = "pending"] /\ fetching' = TRUE
  <2>1. /\ FetchType' /\ Unbegun' /\ Learned' /\ Intact'
        /\ \E f \in Fetches : fetch'[f].sig = current /\ fetch'[f].step = "load"
    BY <1>0, <1>1, <1>2, <1>3, <1>4, <1>6, BeginStep
  <2>2. TypeOK'
    BY <1>3, <1>4, <2>1 DEF IInv, TypeOK, FetchType, FetchRecord, Outcomes
  <2>3. LyricsOfCurrent' /\ IndicatorIsReal'
    BY <1>3, <2>1 DEF IInv, LyricsOfCurrent, IndicatorIsReal, InFlight
  <2> QED BY <2>1, <2>2, <2>3 DEF IInv
<1> QED BY <1>3, <1>5, <1>6

\* A result is handled, or the program starts again: some fetches are over.
LEMMA OverStep ==
  ASSUME IInv, FetchType',
         \A g \in Fetches : /\ fetch'[g].sig = fetch[g].sig /\ fetch'[g].outcome = fetch[g].outcome
                            /\ fetch'[g].step \in {fetch[g].step, "handled"}
                            /\ fetch'[g].file \in {fetch[g].file, None}
                            /\ fetch'[g].step # "handled" => fetch'[g].file = fetch[g].file,
         UNCHANGED record
  PROVE  Unbegun' /\ Learned' /\ Intact'
<1>1. Unbegun' /\ Learned'
  BY DEF IInv, Unbegun, Learned, Saving
<1>2. Intact'
  <2> SUFFICES ASSUME NEW r \in Sigs, Single(r)'
               PROVE  /\ disk'[r] \notin Damaged
                      /\ \A g \in Fetches : fetch'[g].sig = r => Orderly(g, r)'
    BY DEF Intact
  <2>1. Single(r)
    BY DEF Single
  <2>2. disk[r] \notin Damaged /\ \A g \in Fetches : fetch[g].sig = r => Orderly(g, r)
    BY <2>1 DEF IInv, Intact
  <2> QED BY <2>2 DEF Orderly, record, None
<1> QED BY <1>1, <1>2

\* A result arrives, whatever track plays by then.
LEMMA HandleStep ==
  ASSUME IInv, NEW f \in Fetches, Handle(f) PROVE IInv'
<1>0. FetchType /\ fetch[f] \in FetchRecord
  BY DEF IInv, TypeOK, FetchType, FetchRecord, Outcomes
<1>1. /\ fetch' = [fetch EXCEPT ![f].step = "handled"]
      /\ cache' = IF Failed(f) THEN [cache EXCEPT ![fetch[f].sig] = None] ELSE cache
      /\ fetching' = (fetching /\ ~Mine(f))
      /\ lyrics' = IF Mine(f) /\ Found(f) THEN fetch[f].sig ELSE lyrics
      /\ UNCHANGED <<current, cooling, record>>
  BY DEF Handle, Result
<1>2. /\ FetchType' /\ fetch'[f].step = "handled" /\ fetch'[f].sig = fetch[f].sig
      /\ fetch'[f].outcome = fetch[f].outcome /\ fetch'[f].file = fetch[f].file
      /\ \A g \in Fetches : g # f => fetch'[g] = fetch[g]
  <2>1. fetch' = [fetch EXCEPT ![f] = [fetch[f] EXCEPT !.step = "handled"]]
    BY <1>0, <1>1 DEF FetchType
  <2> QED BY <1>0, <2>1 DEF FetchType, FetchRecord, Steps
<1>3. Unbegun' /\ Learned' /\ Intact'
  BY <1>1, <1>2, OverStep
<1>4. TypeOK'
  <2>1. cache' \in [Sigs -> {None, "pending", "found", "notfound"}]
    BY <1>1 DEF IInv, TypeOK
  <2>2. lyrics' \in Sigs \cup {None, "local"} /\ fetching' \in BOOLEAN
    <3>1. lyrics' \in Sigs \cup {None, "local"}
      BY <1>0, <1>1 DEF IInv, TypeOK, FetchRecord
    <3>2. fetching' \in BOOLEAN
      BY <1>1
    <3> QED BY <3>1, <3>2
  <2> QED BY <1>1, <1>2, <2>1, <2>2 DEF IInv, TypeOK, FetchType, FetchRecord, Outcomes, record
<1>5. LyricsOfCurrent'
  BY <1>1 DEF IInv, LyricsOfCurrent, Mine
<1>6. IndicatorIsReal'
  BY <1>1, <1>2 DEF IInv, IndicatorIsReal, InFlight, Mine
<1> QED BY <1>3, <1>4, <1>5, <1>6 DEF IInv

\* The program starts again, whatever the fetches were doing.
LEMMA RestartStep ==
  ASSUME IInv, Restart PROVE IInv'
<1>0. FetchType
  BY DEF IInv, TypeOK, FetchType, FetchRecord, Outcomes
<1>1. ASSUME NEW g \in Fetches
      PROVE  /\ fetch'[g] \in FetchRecord
             /\ fetch'[g].sig = fetch[g].sig /\ fetch'[g].outcome = fetch[g].outcome
             /\ fetch'[g].step \in {fetch[g].step, "handled"}
             /\ fetch'[g].file \in {fetch[g].file, None}
             /\ fetch'[g].step # "handled" => fetch'[g].file = fetch[g].file
  <2>1. fetch'[g] = IF InFlight(g) THEN [fetch[g] EXCEPT !.step = "handled", !.file = None] ELSE fetch[g]
    BY DEF Restart
  <2>2. fetch[g] \in FetchRecord
    BY <1>0 DEF FetchType
  <2> QED BY <2>1, <2>2 DEF FetchRecord, Steps
<1>2. FetchType'
  BY <1>1 DEF Restart, FetchType
<1>3. Unbegun' /\ Learned' /\ Intact'
  BY <1>1, <1>2, OverStep DEF Restart
<1>4. TypeOK'
  BY <1>2 DEF Restart, record, IInv, TypeOK, FetchType, FetchRecord, Outcomes
<1>5. LyricsOfCurrent' /\ IndicatorIsReal'
  BY FetchAssumption DEF Restart, LyricsOfCurrent, IndicatorIsReal
<1> QED BY <1>3, <1>4, <1>5 DEF IInv

\* A track is adopted or put away, or a sidecar mounted, without a fetch.
LEMMA QuietStep ==
  ASSUME IInv, UNCHANGED <<record, fetch, cache>>, cooling' \in BOOLEAN,
         \/ UNCHANGED ui
         \/ current' \in Sigs \cup {None} /\ lyrics' \in {None, "local"} /\ fetching' = FALSE
         \/ UNCHANGED <<current, fetching>> /\ lyrics' = "local"
  PROVE  IInv'
<1>1. TypeOK'
  BY DEF IInv, TypeOK, record, ui
<1>2. LyricsOfCurrent' /\ IndicatorIsReal'
  BY FetchAssumption DEF IInv, LyricsOfCurrent, IndicatorIsReal, InFlight, ui
<1>3. Unbegun' /\ Learned' /\ Intact'
  BY DEF IInv, Unbegun, Learned, Intact, Single, Orderly, record
<1> QED BY <1>1, <1>2, <1>3 DEF IInv

-----------------------------------------------------------------------------
(* What holds of every run. *)

\* The program starts with whole records and no fetch.
LEMMA InitInv == Init => IInv
<1> SUFFICES ASSUME Init PROVE IInv
  OBVIOUS
<1>1. /\ \A f \in Fetches : fetch[f] = Idle
      /\ \A s \in Sigs : disk[s] \in {None, "stale"} \cup Whole
  BY FetchAssumption DEF Init
<1>2. Idle \in FetchRecord /\ Idle.sig = None /\ Idle.step = "idle" /\ Idle.file = None
  BY DEF Idle, FetchRecord, Steps, Outcomes
<1>3. TypeOK
  BY <1>1, <1>2, FetchAssumption DEF Init, TypeOK, FetchRecord, Outcomes
<1>4. LyricsOfCurrent /\ IndicatorIsReal
  BY FetchAssumption DEF Init, LyricsOfCurrent, IndicatorIsReal
<1>5. Unbegun /\ Learned
  BY <1>1, <1>2 DEF Unbegun, Learned, Saving
<1>6. Intact
  BY <1>1, <1>2 DEF Intact, Orderly, Damaged, Whole, None
<1> QED BY <1>3, <1>4, <1>5, <1>6 DEF IInv

\* Every step keeps the invariant.
LEMMA InvStep ==
  ASSUME IInv, [Next]_vars PROVE IInv'
<1>0. cooling \in BOOLEAN /\ current \in Sigs \cup {None} /\ None \notin Sigs
  BY FetchAssumption DEF IInv, TypeOK
<1>1. ASSUME NEW s \in Sigs, Adopt(s) PROVE IInv'
  <2>1. CASE Start(s) /\ lyrics' = None /\ current' = s /\ UNCHANGED <<cooling, record>>
    BY <2>1, StartStep
  <2>2. CASE current' = s /\ lyrics' \in {None, "local"} /\ fetching' = FALSE
             /\ UNCHANGED <<cache, fetch, cooling, record>>
    BY <1>0, <2>2, QuietStep
  <2> QED BY <1>1, <2>1, <2>2 DEF Adopt, AdoptWith
<1>2. CASE Unload
  BY <1>0, <1>2, QuietStep DEF Unload
<1>3. CASE MountLocal
  BY <1>0, <1>3, QuietStep DEF MountLocal
<1>4. CASE FetchManual
  <2>1. current \in Sigs /\ Start(current) /\ current' = current /\ lyrics' = lyrics
        /\ UNCHANGED <<cooling, record>>
    BY <1>0, <1>4 DEF FetchManual
  <2> SUFFICES ASSUME NEW s, s = current PROVE IInv'
    OBVIOUS
  <2> QED BY <2>1, StartStep
<1>5. CASE Refresh
  BY <1>5, RefreshStep
<1>6. ASSUME NEW f \in Fetches, Run(f) \/ Handle(f) PROVE IInv'
  BY <1>6, RunStep, HandleStep
<1>7. CASE CooldownEnds
  BY <1>7, QuietStep DEF CooldownEnds
<1>8. CASE Restart
  BY <1>8, RestartStep
<1>9. CASE UNCHANGED vars
  BY <1>0, <1>9, QuietStep DEF vars
<1> QED BY <1>1, <1>2, <1>3, <1>4, <1>5, <1>6, <1>7, <1>8, <1>9 DEF Next

\* The invariant holds of every state of every run.
LEMMA Invariance == Spec => []IInv
  BY InitInv, InvStep, PTL DEF Spec

\* Whatever the listener does while answers are under way - changes tracks, asks again by
\* hand, puts the track away, leaves and comes back - the lyrics on screen are those of
\* the track that plays, and the indicator turns for a fetch of that track.
THEOREM ScreenTrue == Spec => []ScreenOfCurrent
<1>1. IInv => ScreenOfCurrent
  BY DEF IInv, ScreenOfCurrent
<1> QED BY <1>1, Invariance, PTL

\* Save may be cut short at any of its calls, may fail at any of them, and leaves its
\* temporary file behind when it likes: no record is damaged by one fetch of its track
\* alone, for all of them share that temporary file.
THEOREM DamageNeedsTwo == Spec => []DamageTakesTwo
<1>1. IInv => DamageTakesTwo
  <2> SUFFICES ASSUME IInv, NEW s \in Sigs, disk[s] \in Damaged
               PROVE  Cardinality({f \in Fetches : fetch[f].sig = s}) > 1
    BY DEF DamageTakesTwo
  <2> DEFINE theirs == {f \in Fetches : fetch[f].sig = s}
  <2>1. PICK f \in Fetches, g \in Fetches : fetch[f].sig = s /\ fetch[g].sig = s /\ f # g
    BY DEF IInv, Intact, Single
  <2>2. f \in theirs /\ g \in theirs
    BY <2>1
  <2>3. IsFiniteSet(theirs)
    BY FetchAssumption, FS_Subset
  <2> HIDE DEF theirs
  <2>4. Cardinality(theirs) \in Nat /\ Cardinality(theirs) # 0 /\ Cardinality(theirs) # 1
    <3>1. Cardinality(theirs) \in Nat
      BY <2>3, FS_CardinalityType
    <3>2. Cardinality(theirs) # 0
      BY <2>2, <2>3, FS_EmptySet
    <3>3. ASSUME NEW x, theirs = {x} PROVE FALSE
      BY <2>1, <2>2, <3>3
    <3>4. Cardinality(theirs) # 1
      BY <2>3, <3>3, FS_Singleton
    <3> QED BY <3>1, <3>2, <3>4
  <2>5. Cardinality(theirs) > 1
    BY <2>4
  <2> QED BY <2>5 DEF theirs
<1> QED BY <1>1, Invariance, PTL

-----------------------------------------------------------------------------
(* The marker of a request in flight. *)

\* A step of a goroutine takes the marker away, or goes on owing to.
LEMMA OwedRun ==
  ASSUME IInv, Owed, "missing" \notin SearchAnswers, NEW f \in Fetches, Run(f)
  PROVE  Owed'
<1>1. RunFrame(f) /\ RunCache(f) /\ cache \in [Sigs -> {None, "pending", "found", "notfound"}]
  BY RunFetch DEF IInv, TypeOK
<1> SUFFICES ASSUME NEW s \in Sigs, cache'[s] = "pending"
             PROVE  \E g \in Fetches : fetch'[g].sig = s /\ Owing(g)'
  BY DEF Owed
<1>2. cache[s] = "pending" /\ (cache' = cache \/ fetch[f].sig # s)
  BY <1>1 DEF RunCache
<1>3. PICK g \in Fetches : fetch[g].sig = s /\ Owing(g)
  BY <1>2 DEF Owed
<1>4. CASE g # f
  BY <1>1, <1>3, <1>4 DEF RunFrame, Owing
<1>5. CASE g = f
  <2>1. cache' = cache
    BY <1>2, <1>3, <1>5
  <2>2. cache'[fetch[f].sig] = "pending"
    BY <1>2, <1>3, <1>5, <2>1
  <2>3. fetch'[f].step = "report" => fetch'[f].outcome = "failed"
    BY <1>1, <1>3, <1>5, <2>2 DEF RunCache
  <2> QED BY <1>1, <1>3, <1>5, <2>3 DEF RunFrame, Owing
<1> QED BY <1>4, <1>5

\* A fetch that begins owes what it marks; those under way go on.
LEMMA OwedBegin ==
  ASSUME IInv, Owed, NEW s \in Sigs,
         cache' = [cache EXCEPT ![s] = "pending"],
         \E f \in Fetches :
           /\ fetch[f].step = "idle" /\ fetch'[f].sig = s /\ fetch'[f].step = "load"
           /\ \A g \in Fetches : g # f => /\ fetch'[g].sig = fetch[g].sig /\ fetch'[g].step = fetch[g].step
                                          /\ fetch'[g].outcome = fetch[g].outcome
  PROVE  Owed'
<1> SUFFICES ASSUME NEW r \in Sigs, cache'[r] = "pending"
             PROVE  \E g \in Fetches : fetch'[g].sig = r /\ Owing(g)'
  BY DEF Owed
<1>1. PICK f \in Fetches :
           /\ fetch[f].step = "idle" /\ fetch'[f].sig = s /\ fetch'[f].step = "load"
           /\ \A g \in Fetches : g # f => /\ fetch'[g].sig = fetch[g].sig /\ fetch'[g].step = fetch[g].step
                                          /\ fetch'[g].outcome = fetch[g].outcome
  OBVIOUS
<1>2. CASE r = s
  BY <1>1, <1>2 DEF Owing, Fetching
<1>3. CASE r # s
  <2>1. cache[r] = "pending"
    BY <1>3 DEF IInv, TypeOK
  <2>2. PICK g \in Fetches : fetch[g].sig = r /\ Owing(g)
    BY <2>1 DEF Owed
  <2>3. g # f
    BY <1>1, <2>2 DEF Owing, Fetching
  <2> QED BY <1>1, <2>2, <2>3 DEF Owing
<1> QED BY <1>2, <1>3

\* What neither moves a fetch nor sets a marker.
LEMMA OwedQuiet ==
  ASSUME Owed, cache' = cache,
         \A g \in Fetches : /\ fetch'[g].sig = fetch[g].sig /\ fetch'[g].step = fetch[g].step
                            /\ fetch'[g].outcome = fetch[g].outcome
  PROVE  Owed'
  BY DEF Owed, Owing

\* Every step leaves each marker with a fetch that is going to change it.
LEMMA OwedStep ==
  ASSUME IInv, Owed, "missing" \notin SearchAnswers, [Next]_vars PROVE Owed'
<1>0. FetchType
  BY DEF IInv, TypeOK, FetchType, FetchRecord, Outcomes
<1>1. ASSUME NEW s \in Sigs, Start(s), UNCHANGED record PROVE Owed'
  <2>1. Begins(fetch, s) /\ tmp' = tmp /\ disk' = disk /\ cache' = [cache EXCEPT ![s] = "pending"]
    BY <1>1 DEF Start, Begins, record
  <2>2. \E f \in Fetches :
           /\ fetch[f].step = "idle" /\ fetch'[f].sig = s /\ fetch'[f].step = "load"
           /\ \A g \in Fetches : g # f => /\ fetch'[g].sig = fetch[g].sig /\ fetch'[g].step = fetch[g].step
                                          /\ fetch'[g].outcome = fetch[g].outcome
    BY <1>0, <2>1, BeginStep DEF FetchType
  <2> QED BY <2>1, <2>2, OwedBegin
<1>2. ASSUME NEW s \in Sigs, Adopt(s) PROVE Owed'
  <2>1. (Start(s) /\ UNCHANGED record) \/ UNCHANGED <<cache, fetch>>
    BY <1>2 DEF Adopt, AdoptWith
  <2> QED BY <1>1, <2>1, OwedQuiet
<1>3. CASE Unload \/ MountLocal \/ CooldownEnds \/ UNCHANGED vars
  BY <1>3, OwedQuiet DEF Unload, MountLocal, CooldownEnds, vars
<1>4. CASE FetchManual
  <2>1. current \in Sigs /\ Start(current) /\ UNCHANGED record
    BY <1>4 DEF FetchManual, IInv, TypeOK
  <2> SUFFICES ASSUME NEW s, s = current PROVE Owed'
    OBVIOUS
  <2> QED BY <1>1, <2>1
<1>5. CASE Refresh
  <2> DEFINE m == Moved(current, "disk", None)
  <2>0. current \in Sigs /\ None \in {None, "tmp", "disk"}
    BY <1>5 DEF Refresh, IInv, TypeOK
  <2>1. /\ m \in [Fetches -> FetchRecord]
        /\ \A g \in Fetches : /\ m[g].sig = fetch[g].sig /\ m[g].step = fetch[g].step
                              /\ m[g].outcome = fetch[g].outcome
                              /\ fetch[g].sig # current => m[g].file = fetch[g].file
    BY <1>0, <2>0, MovedFetch
  <2>2. \A g \in Fetches : fetch[g].sig # current => m[g] = fetch[g]
    BY <1>0, <2>1 DEF FetchType, FetchRecord
  <2>3. /\ tmp' = tmp /\ \A r \in Sigs : disk'[r] \in {disk[r], None}
        /\ \/ fetch' = m /\ cache' = cache
           \/ Begins(m, current) /\ cache' = [cache EXCEPT ![current] = "pending"]
    BY <1>5 DEF Refresh, Begins, IInv, TypeOK
  <2> HIDE DEF m
  <2>4. CASE fetch' = m /\ cache' = cache
    BY <2>1, <2>4, OwedQuiet
  <2>5. CASE Begins(m, current) /\ cache' = [cache EXCEPT ![current] = "pending"]
    <3>1. \E f \in Fetches :
             /\ fetch[f].step = "idle" /\ fetch'[f].sig = current /\ fetch'[f].step = "load"
             /\ \A g \in Fetches : g # f => /\ fetch'[g].sig = fetch[g].sig /\ fetch'[g].step = fetch[g].step
                                            /\ fetch'[g].outcome = fetch[g].outcome
      BY <2>0, <2>1, <2>2, <2>3, <2>5, BeginStep
    <3> QED BY <2>0, <2>5, <3>1, OwedBegin
  <2> QED BY <2>3, <2>4, <2>5
<1>6. ASSUME NEW f \in Fetches, Run(f) PROVE Owed'
  BY <1>6, OwedRun
<1>7. ASSUME NEW f \in Fetches, Handle(f) PROVE Owed'
  <2>1. /\ fetch[f].step = "report"
        /\ fetch' = [fetch EXCEPT ![f].step = "handled"]
        /\ cache' = IF Failed(f) THEN [cache EXCEPT ![fetch[f].sig] = None] ELSE cache
    BY <1>7 DEF Handle, Result, At
  <2>2. \A g \in Fetches : /\ fetch'[g].sig = fetch[g].sig /\ fetch'[g].outcome = fetch[g].outcome
                           /\ g # f => fetch'[g].step = fetch[g].step
    <3>1. fetch' = [fetch EXCEPT ![f] = [fetch[f] EXCEPT !.step = "handled"]]
      BY <1>0, <2>1 DEF FetchType
    <3> QED BY <1>0, <3>1 DEF FetchType, FetchRecord
  <2> SUFFICES ASSUME NEW s \in Sigs, cache'[s] = "pending"
               PROVE  \E g \in Fetches : fetch'[g].sig = s /\ Owing(g)'
    BY DEF Owed
  <2>3. cache[s] = "pending" /\ (Failed(f) => fetch[f].sig # s)
    BY <2>1 DEF IInv, TypeOK, None
  <2>4. PICK g \in Fetches : fetch[g].sig = s /\ Owing(g)
    BY <2>3 DEF Owed
  <2>5. g # f
    BY <2>1, <2>3, <2>4 DEF Owing, Failed, Fetching
  <2> QED BY <2>2, <2>4, <2>5 DEF Owing
<1>8. CASE Restart
  BY <1>8 DEF Restart, Owed, None
<1> QED BY <1>2, <1>3, <1>4, <1>5, <1>6, <1>7, <1>8 DEF Next

\* As long as the provider does not answer a search itself by "not found", the mark of a
\* request in flight is the mark of one: no track stays out of reach of lyrics because of
\* a fetch that is over, whichever way it ended. The run LyricsFetch_stuck shows that the
\* hypothesis is needed.
THEOREM PendingTrue ==
  ASSUME "missing" \notin SearchAnswers
  PROVE  Spec => []PendingIsReal
<1>1. Init => Owed
  BY DEF Init, Owed, None
<1>2. IInv /\ Owed /\ [Next]_vars => Owed'
  BY OwedStep
<1>3. IInv /\ Owed => PendingIsReal
  BY DEF Owed, PendingIsReal, Owing, Fetching, InFlight
<1> QED BY <1>1, <1>2, <1>3, Invariance, PTL DEF Spec

-----------------------------------------------------------------------------
(* The lines of a song. *)

\* Induction over the natural numbers, from the least elements of their sets.
LEMMA NatSets ==
  ASSUME NEW S, 0 \in S, \A n \in Nat : n \in S => n + 1 \in S
  PROVE  Nat \subseteq S
<1> DEFINE T == Nat \ S
<1> SUFFICES ASSUME T # {} PROVE FALSE
  OBVIOUS
<1>1. PICK x \in T : \A y \in T : ~ (<<y, x>> \in OpToRel(<, Nat))
  BY NatLessThanWellFounded, WFMin
<1>2. \A y \in T : ~ (y < x)
  BY <1>1 DEF OpToRel
<1> QED BY <1>2

LEMMA LeastNat ==
  ASSUME NEW S, S \subseteq Nat, S # {}
  PROVE  \E m \in S : \A k \in S : m <= k
<1>1. PICK m \in S : \A k \in S : ~ (<<k, m>> \in OpToRel(<, Nat))
  BY NatLessThanWellFounded, WFMin
<1>2. \A k \in S : ~ (k < m)
  BY <1>1 DEF OpToRel
<1> QED BY <1>2

LEMMA SongHas ==
  ASSUME NEW lines, OrderedSong(lines)
  PROVE  /\ Len(lines) \in Nat /\ DOMAIN lines = 1 .. Len(lines)
         /\ \A i \in DOMAIN lines : lines[i].time \in Nat
<1>1. lines \in Seq(LineType)
  BY DEF OrderedSong
<1>2. Len(lines) \in Nat /\ DOMAIN lines = 1 .. Len(lines)
  BY <1>1
<1>3. ASSUME NEW i \in DOMAIN lines PROVE lines[i].time \in Nat
  <2>1. lines[i] \in LineType
    BY <1>1
  <2> QED BY <2>1 DEF LineType
<1> QED BY <1>2, <1>3

\* What the limit of a line is: the least time that is later, or -1 if none is.
IsLimit(lines, i, limit) ==
  \/ /\ limit = -1
     /\ \A j \in DOMAIN lines : lines[j].time <= lines[i].time
  \/ /\ limit > lines[i].time
     /\ \E j \in DOMAIN lines : lines[j].time = limit
     /\ \A j \in DOMAIN lines : lines[j].time > lines[i].time => lines[j].time >= limit

\* The limit of a line from that of the line after it.
LimitFrom(lines, i, limit) ==
  IF lines[i + 1].time > lines[i].time THEN lines[i + 1].time ELSE limit

LEMMA LimitExists ==
  ASSUME NEW lines, OrderedSong(lines), NEW i \in DOMAIN lines
  PROVE  \E limit \in Int : IsLimit(lines, i, limit)
<1> DEFINE later == {j \in DOMAIN lines : lines[j].time > lines[i].time}
           times == {lines[j].time : j \in later}
<1>1. \A j \in DOMAIN lines : lines[j].time \in Nat
  BY SongHas
<1>2. CASE later = {}
  <2>1. \A j \in DOMAIN lines : lines[j].time <= lines[i].time
    BY <1>1, <1>2
  <2> QED BY <2>1 DEF IsLimit
<1>3. CASE later # {}
  <2>1. times # {} /\ times \subseteq Nat
    BY <1>1, <1>3
  <2>2. PICK m \in times : \A t \in times : m <= t
    <3> HIDE DEF times
    <3> QED BY <2>1, LeastNat
  <2>3. PICK j \in DOMAIN lines : lines[j].time = m /\ m > lines[i].time
    OBVIOUS
  <2>4. \A k \in DOMAIN lines : lines[k].time > lines[i].time => lines[k].time >= m
    <3> SUFFICES ASSUME NEW k \in DOMAIN lines, lines[k].time > lines[i].time
                 PROVE  lines[k].time >= m
      OBVIOUS
    <3>1. lines[k].time \in times /\ lines[k].time \in Nat /\ m \in Nat
      BY <1>1, <2>3
    <3> HIDE DEF times
    <3> QED BY <2>2, <3>1
  <2>5. m \in Int
    BY <1>1, <2>3
  <2> QED BY <2>3, <2>4, <2>5 DEF IsLimit
<1> QED BY <1>2, <1>3

LEMMA LimitUnique ==
  ASSUME NEW lines, OrderedSong(lines), NEW i \in DOMAIN lines,
         NEW a \in Int, NEW b \in Int, IsLimit(lines, i, a), IsLimit(lines, i, b)
  PROVE  a = b
<1>1. \A j \in DOMAIN lines : lines[j].time \in Nat
  BY SongHas
<1> QED BY <1>1 DEF IsLimit

\* The last line has no later one; any other has what the next one leaves it.
LEMMA LastLimit ==
  ASSUME NEW lines, OrderedSong(lines), NEW i \in DOMAIN lines, i = Len(lines)
  PROVE  IsLimit(lines, i, -1)
<1>1. DOMAIN lines = 1 .. Len(lines) /\ Len(lines) \in Nat
  BY SongHas
<1>2. ASSUME NEW j \in DOMAIN lines PROVE lines[j].time <= lines[i].time
  <2>1. CASE j = i
    <3>1. lines[j].time \in Nat
      BY SongHas
    <3> QED BY <2>1, <3>1
  <2>2. CASE j # i
    <3>1. j < i
      BY <1>1, <2>2
    <3> QED BY <3>1 DEF OrderedSong
  <2> QED BY <2>1, <2>2
<1> QED BY <1>2 DEF IsLimit

LEMMA EarlierLimit ==
  ASSUME NEW lines, OrderedSong(lines), NEW i \in DOMAIN lines, i < Len(lines),
         NEW limit \in Int, IsLimit(lines, i + 1, limit)
  PROVE  LimitFrom(lines, i, limit) \in Int /\ IsLimit(lines, i, LimitFrom(lines, i, limit))
<1>1. DOMAIN lines = 1 .. Len(lines) /\ Len(lines) \in Nat /\ i \in Nat /\ i + 1 \in DOMAIN lines
  BY SongHas
<1>2. \A j \in DOMAIN lines : lines[j].time \in Nat
  BY SongHas
<1>3. lines[i].time <= lines[i + 1].time
  BY <1>1 DEF OrderedSong
<1>4. CASE lines[i + 1].time > lines[i].time
  <2>1. ASSUME NEW j \in DOMAIN lines, lines[j].time > lines[i].time
        PROVE  lines[j].time >= lines[i + 1].time
    <3>1. ~(j <= i)
      <4>1. CASE j = i
        BY <1>2, <2>1, <4>1
      <4>2. CASE j < i
        <5>1. lines[j].time <= lines[i].time
          BY <4>2 DEF OrderedSong
        <5> QED BY <1>2, <2>1, <5>1
      <4> QED BY <1>1, <4>1, <4>2
    <3>2. CASE j = i + 1
      BY <1>2, <3>2
    <3>3. CASE j # i + 1
      <4>1. i + 1 < j
        BY <1>1, <3>1, <3>3
      <4>2. lines[i + 1].time <= lines[j].time
        BY <1>1, <4>1 DEF OrderedSong
      <4> QED BY <1>1, <1>2, <4>2
    <3> QED BY <3>2, <3>3
  <2> QED BY <1>1, <1>2, <1>4, <2>1 DEF IsLimit, LimitFrom
<1>5. CASE ~(lines[i + 1].time > lines[i].time)
  <2>1. lines[i + 1].time = lines[i].time
    BY <1>1, <1>2, <1>3, <1>5
  <2> QED BY <1>5, <2>1 DEF IsLimit, LimitFrom
<1> QED BY <1>4, <1>5

\* The backward pass leaves each line its limit.
LEMMA LimitsRight ==
  ASSUME NEW lines, OrderedSong(lines)
  PROVE  \A i \in DOMAIN lines : IsLimit(lines, i, ActiveLimits(lines)[i])
<1> DEFINE n == Len(lines)
           next(i, f) == IF i = n THEN -1 ELSE LimitFrom(lines, i, f[i + 1])
           f == [i \in 1 .. n |-> CHOOSE limit \in Int : IsLimit(lines, i, limit)]
           u == CHOOSE g : g = [i \in 1 .. n |-> IF i = n THEN -1
                                  ELSE IF lines[i + 1].time > lines[i].time THEN lines[i + 1].time
                                  ELSE g[i + 1]]
<1>1. n \in Nat /\ DOMAIN lines = 1 .. n
  BY SongHas
<1>2. \A i \in 1 .. n : f[i] \in Int /\ IsLimit(lines, i, f[i])
  BY <1>1, LimitExists
<1>3. f = [i \in 1 .. n |-> next(i, f)]
  <2>1. ASSUME NEW i \in 1 .. n PROVE f[i] = next(i, f)
    <3>1. CASE i = n
      <4>1. IsLimit(lines, i, -1)
        BY <1>1, <3>1, LastLimit
      <4> HIDE DEF f
      <4>2. f[i] \in Int /\ IsLimit(lines, i, f[i]) /\ -1 \in Int
        BY <1>2
      <4>3. f[i] = -1
        BY <1>1, <4>1, <4>2, LimitUnique
      <4> QED BY <3>1, <4>3
    <3>2. CASE i # n
      <4>1. i + 1 \in 1 .. n /\ i < n
        <5> HIDE DEF n
        <5> QED BY <1>1, <3>2
      <4> HIDE DEF f
      <4>2. f[i + 1] \in Int /\ IsLimit(lines, i + 1, f[i + 1])
        BY <1>2, <4>1
      <4>3. /\ LimitFrom(lines, i, f[i + 1]) \in Int
            /\ IsLimit(lines, i, LimitFrom(lines, i, f[i + 1]))
        BY <1>1, <4>1, <4>2, EarlierLimit
      <4>4. f[i] = LimitFrom(lines, i, f[i + 1])
        BY <1>1, <1>2, <4>3, LimitUnique
      <4> QED BY <3>2, <4>4
    <3> QED BY <3>1, <3>2
  <2>2. f = [i \in 1 .. n |-> f[i]]
    OBVIOUS
  <2> HIDE DEF f, next
  <2> QED BY <2>1, <2>2
<1>4. u = [i \in 1 .. n |-> next(i, u)]
  <2> HIDE DEF f
  <2> QED BY <1>3 DEF LimitFrom
<1>5. ActiveLimits(lines) = u
  BY Zenon DEF ActiveLimits
<1> HIDE DEF u, f
<1>6. ASSUME n > 0 PROVE u[n] = -1
  <2> HIDE DEF n
  <2>1. n \in 1 .. n
    BY <1>1, <1>6
  <2>2. u[n] = next(n, u)
    <3> HIDE DEF next
    <3> QED BY <1>4, <2>1
  <2> QED BY <2>2
<1>7. ASSUME NEW i \in 1 .. n, i < n PROVE u[i] = LimitFrom(lines, i, u[i + 1])
  <2> HIDE DEF n
  <2>1. u[i] = next(i, u)
    <3> HIDE DEF next
    <3> QED BY <1>4
  <2>2. i # n
    BY <1>1, <1>7
  <2> QED BY <2>1, <2>2
<1> DEFINE S == {k \in Nat : k < n => u[n - k] \in Int /\ IsLimit(lines, n - k, u[n - k])}
<1>8. 0 \in S
  <2>1. ASSUME 0 < n PROVE u[n] \in Int /\ IsLimit(lines, n, u[n])
    <3>1. n \in DOMAIN lines
      BY <1>1, <2>1
    <3> QED BY <1>6, <2>1, <3>1, LastLimit
  <2>2. n - 0 = n
    BY <1>1
  <2> QED BY <2>1, <2>2
<1>9. ASSUME NEW k \in Nat, k \in S PROVE k + 1 \in S
  <2> SUFFICES ASSUME k + 1 < n
               PROVE  u[n - (k + 1)] \in Int /\ IsLimit(lines, n - (k + 1), u[n - (k + 1)])
    OBVIOUS
  <2> DEFINE i == n - (k + 1)
  <2>1. i \in 1 .. n /\ i < n /\ i + 1 = n - k
    <3> HIDE DEF n
    <3> QED BY <1>1
  <2>2. u[i + 1] \in Int /\ IsLimit(lines, i + 1, u[i + 1])
    BY <1>1, <1>9, <2>1
  <2> HIDE DEF i
  <2>3. u[i] = LimitFrom(lines, i, u[i + 1])
    BY <1>7, <2>1
  <2>4. u[i] \in Int /\ IsLimit(lines, i, u[i])
    BY <1>1, <2>1, <2>2, <2>3, EarlierLimit
  <2> QED BY <2>4 DEF i<1>10. Nat \subseteq S
  <2> HIDE DEF S
  <2> QED BY <1>8, <1>9, NatSets
<1>11. ASSUME NEW i \in 1 .. n PROVE IsLimit(lines, i, u[i])
  <2>1. n - i \in Nat /\ n - i < n /\ n - (n - i) = i
    BY <1>1
  <2>2. n - i \in S
    BY <1>10, <2>1
  <2> QED BY <2>1, <2>2
<1> QED BY <1>1, <1>5, <1>11

\* At every moment of a song in the order of its times, none before 0, whatever its lines
\* overlap and however many start together, the lines sung are those whose time has come and whose end has not: the end
\* the file gave, or the next later time (types.go: activeLimits, ActiveLines).
THEOREM OrderedSongSungRight ==
  ASSUME NEW lines, OrderedSong(lines), NEW filter, NEW e \in Int
  PROVE  SungRight(lines, filter, e)
<1> DEFINE limits == ActiveLimits(lines)
<1>1. \A i \in DOMAIN lines : lines[i].time \in Nat
  BY SongHas
<1>2. ASSUME NEW i \in DOMAIN lines
      PROVE  limits[i] < 0 \/ e < limits[i]
               <=> \A j \in DOMAIN lines : lines[j].time > lines[i].time => lines[j].time > e
  <2>1. IsLimit(lines, i, limits[i])
    BY LimitsRight
  <2> HIDE DEF limits
  <2> QED BY <1>1, <2>1 DEF IsLimit
<1> HIDE DEF limits
<1> QED BY <1>2 DEF SungRight, ActiveLines, limits

-----------------------------------------------------------------------------
(* The lines the overlay is sent. *)

AllTimes(lines) == {lines[i].time : i \in DOMAIN lines}
SungTimes(lines, e) == {lines[i].time : i \in ActiveLines(lines, NoAgent, e)}

LEMMA GreatestNat ==
  ASSUME NEW n \in Nat, NEW S, S \subseteq 0 .. n, S # {}
  PROVE  \E m \in S : \A k \in S : k <= m
<1> DEFINE T == {k \in 0 .. n : n - k \in S}
<1>1. T \subseteq Nat /\ T # {}
  <2>1. PICK k \in S : TRUE
    OBVIOUS
  <2>2. n - k \in T
    BY <2>1
  <2>3. T \subseteq Nat
    OBVIOUS
  <2> HIDE DEF T
  <2> QED BY <2>2, <2>3
<1>2. PICK m \in T : \A k \in T : m <= k
  <2> HIDE DEF T
  <2> QED BY <1>1, LeastNat
<1>3. ASSUME NEW k \in S PROVE k <= n - m
  <2>1. n - k \in T /\ k \in Int /\ n - k \in Int
    OBVIOUS
  <2>2. m \in Int
    OBVIOUS
  <2> HIDE DEF T
  <2>3. m <= n - k
    BY <1>2, <2>1
  <2> QED BY <2>1, <2>2, <2>3
<1>4. n - m \in S
  OBVIOUS
<1> QED BY <1>3, <1>4

LEMMA TimesBounded ==
  ASSUME NEW lines, OrderedSong(lines)
  PROVE  \E n \in Nat : AllTimes(lines) \subseteq 0 .. n
<1>1. Len(lines) \in Nat /\ DOMAIN lines = 1 .. Len(lines)
  BY SongHas
<1>2. CASE Len(lines) = 0
  <2>1. AllTimes(lines) = {}
    BY <1>1, <1>2 DEF AllTimes
  <2> QED BY <2>1
<1>3. CASE Len(lines) # 0
  <2>1. Len(lines) \in DOMAIN lines
    BY <1>1, <1>3
  <2>2. lines[Len(lines)].time \in Nat
    BY <2>1, SongHas
  <2>3. ASSUME NEW i \in DOMAIN lines PROVE lines[i].time \in 0 .. lines[Len(lines)].time
    <3>1. lines[i].time \in Nat
      BY SongHas
    <3>2. CASE i = Len(lines)
      BY <2>2, <3>2
    <3>3. CASE i # Len(lines)
      <4>1. i < Len(lines)
        BY <1>1, <3>3
      <4>2. lines[i].time <= lines[Len(lines)].time
        BY <2>1, <4>1 DEF OrderedSong
      <4> QED BY <2>2, <3>1, <4>2
    <3> QED BY <3>2, <3>3
  <2>4. AllTimes(lines) \subseteq 0 .. lines[Len(lines)].time
    BY <2>3 DEF AllTimes
  <2> QED BY <2>2, <2>4
<1> QED BY <1>2, <1>3

\* Of some of the times there is a first and a last, and they can be counted.
LEMMA SomeTimes ==
  ASSUME NEW lines, OrderedSong(lines), NEW T \in SUBSET AllTimes(lines)
  PROVE  /\ T \subseteq Nat /\ IsFiniteSet(T)
         /\ T # {} => /\ Min(T) \in T /\ \A t \in T : Min(T) <= t
                      /\ Max(T) \in T /\ \A t \in T : t <= Max(T)
<1>1. PICK n \in Nat : T \subseteq 0 .. n
  BY TimesBounded
<1>2. IsFiniteSet(T)
  <2>1. IsFiniteSet(0 .. n)
    BY FS_Interval
  <2> QED BY <1>1, <2>1, FS_Subset
<1>3. T \subseteq Nat
  BY <1>1
<1>4. ASSUME T # {} PROVE Min(T) \in T /\ \A t \in T : Min(T) <= t
  BY <1>3, <1>4, LeastNat DEF Min
<1>5. ASSUME T # {} PROVE Max(T) \in T /\ \A t \in T : t <= Max(T)
  <2>1. \E m \in T : \A k \in T : m >= k
    <3>1. PICK m \in T : \A k \in T : k <= m
      BY <1>1, <1>5, GreatestNat
    <3> QED BY <1>3, <3>1
  <2>2. Max(T) \in T /\ \A k \in T : Max(T) >= k
    BY <2>1 DEF Max
  <2> QED BY <1>3, <2>2
<1> QED BY <1>2, <1>3, <1>4, <1>5

Rank(T, t) == Cardinality({u \in T : u < t})

\* From one rank to another one counts what is between them.
LEMMA RankSteps ==
  ASSUME NEW T \in SUBSET Nat, IsFiniteSet(T), NEW a \in Int, NEW b \in Int, a <= b
  PROVE  /\ Rank(T, a) \in Nat /\ Rank(T, b) \in Nat
         /\ IsFiniteSet({u \in T : a <= u /\ u < b})
         /\ Cardinality({u \in T : a <= u /\ u < b}) = Rank(T, b) - Rank(T, a)
<1> DEFINE low == {u \in T : u < a}
           mid == {u \in T : a <= u /\ u < b}
           all == {u \in T : u < b}
<1>1. IsFiniteSet(low) /\ IsFiniteSet(mid) /\ IsFiniteSet(all)
  BY FS_Subset
<1>2. all = low \cup mid /\ low \cap mid = {}
  <2>1. \A u \in T : /\ u < b <=> u < a \/ (a <= u /\ u < b)
                     /\ ~(u < a /\ a <= u)
    OBVIOUS
  <2> QED BY <2>1
<1>3. Cardinality(low) \in Nat /\ Cardinality(mid) \in Nat /\ Cardinality(all) \in Nat
  BY <1>1, FS_CardinalityType
<1>4. Rank(T, a) = Cardinality(low) /\ Rank(T, b) = Cardinality(all)
  BY DEF Rank
<1> HIDE DEF low, mid, all
<1>5. Cardinality(all) = Cardinality(low) + Cardinality(mid)
  <2>1. Cardinality(low \cup mid) = Cardinality(low) + Cardinality(mid) - Cardinality(low \cap mid)
    BY <1>1, FS_Union
  <2>2. Cardinality(low \cap mid) = 0
    BY <1>2, FS_EmptySet
  <2> QED BY <1>2, <1>3, <2>1, <2>2
<1>6. Cardinality(mid) = Rank(T, b) - Rank(T, a)
  BY <1>3, <1>4, <1>5
<1> QED BY <1>1, <1>3, <1>4, <1>6 DEF mid

\* One of them set aside, the others are as many less one.
LEMMA ButOne ==
  ASSUME NEW S, IsFiniteSet(S), NEW x, NEW T, IsFiniteSet(T), S \ {x} \subseteq T,
         NEW n \in Nat, Cardinality(S) >= n + 1
  PROVE  Cardinality(T) >= n
<1>1. Cardinality(S) \in Nat /\ Cardinality(T) \in Nat
  BY FS_CardinalityType
<1>2. IsFiniteSet(S \ {x}) /\ Cardinality(S \ {x}) \in {Cardinality(S), Cardinality(S) - 1}
  BY FS_RemoveElement
<1>3. Cardinality(S \ {x}) <= Cardinality(T)
  BY FS_Subset
<1> QED BY <1>1, <1>2, <1>3

\* The times the overlay counts: all of them, but for those between the first and the last
\* line sung that are not sung, when nothing comes before.
Counted(lines, e) ==
  LET active == SungTimes(lines, e)
      all == AllTimes(lines)
      earlier == {t \in all : t < Min(active)}
      reached == IF earlier # {} THEN Max(earlier) ELSE Max(active)
  IN  IF active = {} THEN all ELSE active \cup earlier \cup {t \in all : t > reached}

LEMMA CountedTimes ==
  ASSUME NEW lines, OrderedSong(lines), NEW e
  PROVE  /\ SungTimes(lines, e) \subseteq Counted(lines, e)
         /\ Counted(lines, e) \subseteq AllTimes(lines)
         /\ SungTimes(lines, e) = {} => Counted(lines, e) = AllTimes(lines)
         /\ \A t \in AllTimes(lines) \ Counted(lines, e) :
              Min(SungTimes(lines, e)) <= t /\ t <= Max(SungTimes(lines, e))
<1> DEFINE active == SungTimes(lines, e)
           all == AllTimes(lines)
           earlier == {t \in all : t < Min(active)}
           reached == IF earlier # {} THEN Max(earlier) ELSE Max(active)
<1>1. active \subseteq all /\ earlier \subseteq all
  BY DEF SungTimes, AllTimes, ActiveLines
<1>2. Counted(lines, e) = IF active = {} THEN all
                          ELSE active \cup earlier \cup {t \in all : t > reached}
  BY DEF Counted
<1>3. ASSUME NEW t \in all, t \notin Counted(lines, e)
      PROVE  Min(active) <= t /\ t <= Max(active)
  <2>1. active # {} /\ t \notin earlier /\ ~(t > reached)
    BY <1>2, <1>3
  <2>2. /\ active \subseteq Nat /\ earlier \subseteq Nat /\ all \subseteq Nat
        /\ Min(active) \in active /\ Max(active) \in active
        /\ \A u \in active : u <= Max(active)
        /\ earlier # {} => Max(earlier) \in earlier
    BY <1>1, <2>1, SomeTimes
  <2>3. Min(active) <= t
    BY <1>3, <2>1, <2>2
  <2>4. t <= reached
    BY <1>3, <2>1, <2>2
  <2>5. reached <= Max(active)
    <3>1. CASE earlier # {}
      <4>1. Max(earlier) < Min(active) /\ Min(active) <= Max(active)
        BY <2>2, <3>1
      <4> QED BY <2>2, <3>1, <4>1
    <3>2. CASE earlier = {}
      BY <2>2, <3>2
    <3> QED BY <3>1, <3>2
  <2>6. reached \in Nat
    BY <2>2
  <2> HIDE DEF reached, active
  <2>7. Max(active) \in Nat
    BY <2>2
  <2> QED BY <1>3, <2>2, <2>3, <2>4, <2>5, <2>6, <2>7
<1> HIDE DEF reached, earlier
<1> QED BY <1>1, <1>2, <1>3

\* The rank the overlay's neighbours are counted from, and the last it counts to.
From(lines, e) ==
  IF SungTimes(lines, e) = {} THEN Cardinality({t \in AllTimes(lines) : t <= e})
  ELSE Rank(Counted(lines, e), Min(SungTimes(lines, e)))
Upto(lines, e) ==
  IF SungTimes(lines, e) = {} THEN From(lines, e) - 1
  ELSE Rank(Counted(lines, e), Max(SungTimes(lines, e)))

Near(lines, e) ==
  {t \in Counted(lines, e) :
     Rank(Counted(lines, e), t) \in From(lines, e) - 2 .. Upto(lines, e) + 2}

LEMMA SentLines ==
  ASSUME NEW lines, OrderedSong(lines), NEW e
  PROVE  OverlayLines(lines, e) =
           {i \in DOMAIN lines :
              \/ lines[i].time \in Near(lines, e)
              \/ SungTimes(lines, e) = {} /\ lines[i].time \in EndedLast(lines, e)}
<1> DEFINE active == {lines[i].time : i \in ActiveLines(lines, NoAgent, e)}
           all == {lines[i].time : i \in DOMAIN lines}
           earlier == {t \in all : t < Min(active)}
           reached == IF earlier # {} THEN Max(earlier) ELSE Max(active)
           times == IF active = {} THEN all ELSE active \cup earlier \cup {t \in all : t > reached}
           R(t) == Cardinality({u \in times : u < t})
           first == IF active = {} THEN Cardinality({t \in times : t <= e}) ELSE R(Min(active))
           last == IF active = {} THEN first - 1 ELSE R(Max(active))
           near == {t \in times : R(t) \in first - 2 .. last + 2}
<1>1. OverlayLines(lines, e) =
        {i \in DOMAIN lines :
           lines[i].time \in near \/ (active = {} /\ lines[i].time \in EndedLast(lines, e))}
  BY Zenon DEF OverlayLines
<1>2. active = SungTimes(lines, e) /\ all = AllTimes(lines)
  BY DEF SungTimes, AllTimes
<1>3. times = Counted(lines, e)
  BY Zenon DEF Counted, SungTimes, AllTimes
<1> HIDE DEF active, all
<1>4. active = {} => times = all
  OBVIOUS
<1> HIDE DEF times
<1>5. first = From(lines, e) /\ last = Upto(lines, e)
  BY <1>2, <1>3, <1>4 DEF From, Upto, Rank
<1> HIDE DEF first, last
<1>6. near = Near(lines, e)
  BY <1>3, <1>5 DEF Near, Rank
<1> HIDE DEF near
<1>7. ASSUME NEW i \in DOMAIN lines
      PROVE  (lines[i].time \in near \/ (active = {} /\ lines[i].time \in EndedLast(lines, e)))
               <=> \/ lines[i].time \in Near(lines, e)
                   \/ SungTimes(lines, e) = {} /\ lines[i].time \in EndedLast(lines, e)
  BY <1>2, <1>6
<1> QED BY <1>1, <1>7

LEMMA RankGrows ==
  ASSUME NEW T \in SUBSET Nat, IsFiniteSet(T), NEW a \in Int, NEW b \in Int, a <= b
  PROVE  Rank(T, a) <= Rank(T, b)
<1>1. /\ IsFiniteSet({u \in T : a <= u /\ u < b})
      /\ Cardinality({u \in T : a <= u /\ u < b}) = Rank(T, b) - Rank(T, a)
      /\ Rank(T, a) \in Nat /\ Rank(T, b) \in Nat
  BY RankSteps
<1>2. Cardinality({u \in T : a <= u /\ u < b}) \in Nat
  BY <1>1, FS_CardinalityType
<1> QED BY <1>1, <1>2

\* The times strictly between two.
Between(lines, low, high) == {t \in AllTimes(lines) : t > low /\ t < high}

\* What is between the least of some times and one further on is between the two, or is
\* the first of them.
LEMMA FarTime ==
  ASSUME NEW lines, OrderedSong(lines), NEW T \in SUBSET AllTimes(lines),
         NEW a \in Int, NEW b \in Int, a <= b, Rank(T, b) >= Rank(T, a) + 3
  PROVE  Cardinality(Between(lines, a, b)) >= 2
<1> DEFINE S == {u \in T : a <= u /\ u < b}
<1>1. T \subseteq Nat /\ IsFiniteSet(T)
  BY SomeTimes
<1>2. IsFiniteSet(S) /\ Cardinality(S) = Rank(T, b) - Rank(T, a)
      /\ Rank(T, a) \in Nat /\ Rank(T, b) \in Nat
  BY <1>1, RankSteps
<1>3. S \ {a} \subseteq Between(lines, a, b)
  <2> SUFFICES ASSUME NEW u \in T, a <= u, u < b, u # a
               PROVE  u \in AllTimes(lines) /\ u > a /\ u < b
    BY DEF Between
  <2>1. u \in Nat
    BY <1>1
  <2> QED BY <2>1
<1>4. IsFiniteSet(Between(lines, a, b))
  BY SomeTimes DEF Between
<1> HIDE DEF S
<1>5. Cardinality(S) >= 2 + 1
  BY <1>2
<1> QED BY <1>2, <1>3, <1>4, <1>5, ButOne

\* A line that is not near has two times between it and the lines sung, or is among them.
LEMMA NotNear ==
  ASSUME NEW lines, OrderedSong(lines), NEW e, NEW t \in AllTimes(lines) \ Near(lines, e),
         SungTimes(lines, e) # {}
  PROVE  LET first == Min(SungTimes(lines, e))
             last == Max(SungTimes(lines, e))
         IN  \/ t > last /\ Cardinality(Between(lines, last, t)) >= 2
             \/ t < first /\ Cardinality(Between(lines, t, first)) >= 2
             \/ t >= first /\ t <= last
<1> DEFINE T == Counted(lines, e)
           first == Min(SungTimes(lines, e))
           last == Max(SungTimes(lines, e))
<1>1. /\ SungTimes(lines, e) \subseteq T /\ T \subseteq AllTimes(lines)
      /\ t \notin T => first <= t /\ t <= last
  BY CountedTimes
<1>2. first \in T /\ last \in T /\ first <= last
  <2>1. SungTimes(lines, e) \in SUBSET AllTimes(lines)
    BY <1>1
  <2> QED BY <1>1, <2>1, SomeTimes
<1>3. /\ T \in SUBSET Nat /\ IsFiniteSet(T)
      /\ t \in Int /\ first \in Int /\ last \in Int
  <2>1. AllTimes(lines) \subseteq Nat
    BY SomeTimes
  <2> QED BY <1>1, <1>2, <2>1, SomeTimes
<1>4. Rank(T, first) \in Nat /\ Rank(T, last) \in Nat /\ Rank(T, t) \in Nat
  <2>1. t <= t /\ first <= first /\ last <= last
    BY <1>3
  <2> QED BY <1>3, <2>1, RankSteps
<1>5. t \in T => ~(Rank(T, t) \in Rank(T, first) - 2 .. Rank(T, last) + 2)
  BY DEF Near, From, Upto
<1> HIDE DEF T, first, last
<1>6. CASE t \notin T
  BY <1>1, <1>6 DEF T, first, last
<1>7. CASE t \in T /\ t > last
  <2>1. Rank(T, first) <= Rank(T, last) /\ Rank(T, last) <= Rank(T, t)
    <3>1. last <= t
      BY <1>3, <1>7
    <3> QED BY <1>2, <1>3, <3>1, RankGrows
  <2>2. Rank(T, t) >= Rank(T, last) + 3
    BY <1>4, <1>5, <1>7, <2>1
  <2>3. last <= t /\ last \in Int /\ t \in Int
    BY <1>3, <1>7
  <2> QED BY <1>1, <1>7, <2>2, <2>3, FarTime DEF last
<1>8. CASE t \in T /\ t < first
  <2>1. Rank(T, first) <= Rank(T, last) /\ Rank(T, t) <= Rank(T, first)
    <3>1. t <= first
      BY <1>3, <1>8
    <3> QED BY <1>2, <1>3, <3>1, RankGrows
  <2>2. Rank(T, first) >= Rank(T, t) + 3
    BY <1>4, <1>5, <1>8, <2>1
  <2>3. t <= first /\ first \in Int /\ t \in Int
    BY <1>3, <1>8
  <2> QED BY <1>1, <1>8, <2>2, <2>3, FarTime DEF first
<1>9. CASE t >= first /\ t <= last
  BY <1>9 DEF first, last
<1>10. t \notin T \/ (t \in T /\ t > last) \/ (t \in T /\ t < first) \/ (t >= first /\ t <= last)
  BY <1>3
<1> QED BY <1>1, <1>6, <1>7, <1>8, <1>9, <1>10 DEF first, last

LEMMA NotNearGap ==
  ASSUME NEW lines, OrderedSong(lines), NEW e \in Int, NEW t \in AllTimes(lines) \ Near(lines, e),
         SungTimes(lines, e) = {}
  PROVE  \/ t > e /\ Cardinality(Between(lines, e, t)) >= 2
         \/ t < e + 1 /\ Cardinality(Between(lines, t, e + 1)) >= 2
<1> DEFINE T == AllTimes(lines)
<1>1. Counted(lines, e) = T
  BY CountedTimes
<1>2. T \in SUBSET Nat /\ IsFiniteSet(T) /\ t \in Int
  BY SomeTimes
<1>3. From(lines, e) = Rank(T, e + 1) /\ Upto(lines, e) = Rank(T, e + 1) - 1
  <2>1. {u \in T : u <= e} = {u \in T : u < e + 1}
    <3>1. \A u \in T : u <= e <=> u < e + 1
      BY <1>2
    <3> QED BY <3>1
  <2> QED BY <2>1 DEF From, Upto, Rank
<1>4. ~(Rank(T, t) \in Rank(T, e + 1) - 2 .. Rank(T, e + 1) - 1 + 2)
  BY <1>1, <1>3 DEF Near
<1>5. CASE t > e
  <2> DEFINE S == {u \in T : e + 1 <= u /\ u < t}
  <2>1. e + 1 <= t /\ e + 1 \in Int
    BY <1>2, <1>5
  <2>2. /\ Rank(T, e + 1) \in Nat /\ Rank(T, t) \in Nat
        /\ IsFiniteSet(S) /\ Cardinality(S) = Rank(T, t) - Rank(T, e + 1)
    <3> HIDE DEF T
    <3> QED BY <1>2, <2>1, RankSteps
  <2>3. Rank(T, e + 1) <= Rank(T, t)
    BY <1>2, <2>1, RankGrows
  <2>4. S = Between(lines, e, t)
    <3>1. \A u \in T : e + 1 <= u <=> u > e
      BY <1>2
    <3> QED BY <3>1 DEF Between
  <2> HIDE DEF S, T
  <2>5. Cardinality(S) >= 2
    BY <1>4, <2>2, <2>3
  <2> QED BY <1>5, <2>4, <2>5
<1>6. CASE ~(t > e)
  <2>1. t <= e + 1 /\ t < e + 1 /\ e + 1 \in Int
    BY <1>2, <1>6
  <2> HIDE DEF T
  <2>2. /\ Rank(T, e + 1) \in Nat /\ Rank(T, t) \in Nat
        /\ Rank(T, t) <= Rank(T, e + 1)
    <3>1. Rank(T, e + 1) \in Nat /\ Rank(T, t) \in Nat
      BY <1>2, <2>1, RankSteps
    <3> QED BY <1>2, <2>1, <3>1, RankGrows
  <2>3. Rank(T, e + 1) >= Rank(T, t) + 3
    BY <1>4, <2>2
  <2>4. Cardinality(Between(lines, t, e + 1)) >= 2
    <3>1. e + 1 \in Int /\ T \in SUBSET AllTimes(lines)
      BY DEF T
    <3> QED BY <1>2, <2>1, <2>3, <3>1, FarTime
  <2> QED BY <2>1, <2>4
<1> QED BY <1>5, <1>6

\* What is sung is near.
LEMMA SungIsNear ==
  ASSUME NEW lines, OrderedSong(lines), NEW e, NEW t \in SungTimes(lines, e)
  PROVE  t \in Near(lines, e)
<1> DEFINE T == Counted(lines, e)
           first == Min(SungTimes(lines, e))
           last == Max(SungTimes(lines, e))
<1>1. SungTimes(lines, e) \subseteq T /\ T \in SUBSET AllTimes(lines)
  BY CountedTimes
<1>2. T \in SUBSET Nat /\ IsFiniteSet(T)
  BY <1>1, SomeTimes
<1>3. t \in T /\ first \in T /\ last \in T /\ first <= t /\ t <= last
  <2>1. SungTimes(lines, e) \in SUBSET AllTimes(lines)
    BY <1>1
  <2> QED BY <1>1, <2>1, SomeTimes
<1> HIDE DEF first, last, T
<1>4. t \in Int /\ first \in Int /\ last \in Int
  BY <1>2, <1>3
<1>5. Rank(T, first) <= Rank(T, t) /\ Rank(T, t) <= Rank(T, last)
  BY <1>4, <1>2, <1>3, RankGrows
<1>6. Rank(T, first) \in Nat /\ Rank(T, t) \in Nat /\ Rank(T, last) \in Nat
  BY <1>4, <1>2, <1>3, RankSteps
<1>7. Rank(T, t) \in Rank(T, first) - 2 .. Rank(T, last) + 2
  BY <1>5, <1>6
<1>8. From(lines, e) = Rank(T, first) /\ Upto(lines, e) = Rank(T, last)
  BY DEF From, Upto, T, first, last
<1> QED BY <1>1, <1>7, <1>8 DEF Near, T

\* Of the lines that are over one ended last, and the overlay gets it.
LEMMA LastEnded ==
  ASSUME NEW lines, OrderedSong(lines), NEW e \in Int, NEW i \in DOMAIN lines,
         Bounded(lines[i]), lines[i].end <= e, lines[i].time \notin EndedLast(lines, e)
  PROVE  \E j \in DOMAIN lines : /\ lines[j].time \in EndedLast(lines, e)
                                 /\ Bounded(lines[j]) /\ lines[j].end <= e
                                 /\ lines[j].end > lines[i].end
<1> DEFINE ended == {k \in DOMAIN lines : Bounded(lines[k]) /\ lines[k].end <= e}
           ends == {lines[k].end : k \in ended}
<1>1. ASSUME NEW k \in DOMAIN lines PROVE lines[k].time \in Nat /\ lines[k].end \in Int
  <2>1. lines \in Seq(LineType)
    BY DEF OrderedSong
  <2>2. lines[k] \in LineType
    BY <2>1
  <2> QED BY <2>2 DEF LineType
<1>2. \A k \in ended : lines[k].end \in 0 .. e
  BY <1>1 DEF Bounded
<1>3. i \in ended
  OBVIOUS
<1>4. e \in Nat
  BY <1>2, <1>3
<1>5. PICK m \in ends : \A x \in ends : x <= m
  <2>1. ends \subseteq 0 .. e /\ ends # {}
    BY <1>2, <1>3
  <2> HIDE DEF ends
  <2> QED BY <1>4, <2>1, GreatestNat
<1>6. PICK j \in ended : lines[j].end = m
  OBVIOUS
<1>7. \A k \in ended : lines[k].end <= lines[j].end
  <2> SUFFICES ASSUME NEW k \in ended PROVE lines[k].end <= lines[j].end
    OBVIOUS
  <2>1. lines[k].end \in ends
    OBVIOUS
  <2> HIDE DEF ends
  <2> QED BY <1>5, <1>6, <2>1
<1>8. EndedLast(lines, e) =
        {lines[x].time : x \in {y \in ended : \A k \in ended : lines[k].end <= lines[y].end}}
  BY Zenon DEF EndedLast
<1>9. lines[j].time \in EndedLast(lines, e)
  BY <1>6, <1>7, <1>8
<1>10. lines[j].end > lines[i].end
  <2> SUFFICES ASSUME ~(lines[j].end > lines[i].end) PROVE FALSE
    OBVIOUS
  <2>1. lines[j].end \in Int /\ lines[i].end \in Int
    BY <1>1, <1>6
  <2>2. lines[i].end = lines[j].end
    BY <1>3, <1>7, <2>1
  <2>3. \A k \in ended : lines[k].end <= lines[i].end
    BY <1>7, <2>2
  <2>4. lines[i].time \in EndedLast(lines, e)
    BY <1>3, <1>8, <2>3
  <2> QED BY <2>4
<1> QED BY <1>6, <1>9, <1>10

\* At every moment of a song in order the overlay is sent each line that is sung, the lines of
\* the two times next to them on either side, and in a gap every voice that ended last
\* (ui: buildLyricLinesJSON).
THEOREM OrderedSongOnOverlay ==
  ASSUME NEW lines, OrderedSong(lines), NEW e \in Int
  PROVE  OverlayRight(lines, e)
<1> DEFINE sent == OverlayLines(lines, e)
           active == ActiveLines(lines, NoAgent, e)
           Times(low, high) ==
             {lines[i].time : i \in {j \in DOMAIN lines : lines[j].time > low /\ lines[j].time < high}}
           first == IF active = {} THEN e + 1 ELSE Min({lines[i].time : i \in active})
           last == IF active = {} THEN e ELSE Max({lines[i].time : i \in active})
<1>1. \A low, high : Times(low, high) = Between(lines, low, high)
  BY DEF Between, AllTimes
<1>2. {lines[i].time : i \in active} = SungTimes(lines, e)
  BY DEF SungTimes
<1>3. active \subseteq DOMAIN lines
  BY DEF ActiveLines
<1>4. active = {} <=> SungTimes(lines, e) = {}
  BY <1>2
<1>5. sent = {i \in DOMAIN lines :
                \/ lines[i].time \in Near(lines, e)
                \/ SungTimes(lines, e) = {} /\ lines[i].time \in EndedLast(lines, e)}
  BY SentLines
<1> HIDE DEF active, sent, Times
<1>6. active \subseteq sent
  <2> SUFFICES ASSUME NEW i \in active PROVE i \in sent
    OBVIOUS
  <2>1. lines[i].time \in SungTimes(lines, e)
    BY <1>2
  <2>2. lines[i].time \in Near(lines, e)
    BY <2>1, SungIsNear
  <2> QED BY <1>3, <1>5, <2>2
<1>7. ASSUME NEW i \in DOMAIN lines, i \notin sent
      PROVE  \/ lines[i].time > last /\ Cardinality(Times(last, lines[i].time)) >= 2
             \/ lines[i].time < first /\ Cardinality(Times(lines[i].time, first)) >= 2
             \/ lines[i].time >= first /\ lines[i].time <= last
  <2>1. lines[i].time \in AllTimes(lines) \ Near(lines, e)
    BY <1>5, <1>7 DEF AllTimes
  <2>2. CASE SungTimes(lines, e) = {}
    <3>1. first = e + 1 /\ last = e
      BY <1>4, <2>2
    <3>2. \/ lines[i].time > e /\ Cardinality(Between(lines, e, lines[i].time)) >= 2
          \/ lines[i].time < e + 1 /\ Cardinality(Between(lines, lines[i].time, e + 1)) >= 2
      BY <2>1, <2>2, NotNearGap
    <3> QED BY <1>1, <3>1, <3>2
  <2>3. CASE SungTimes(lines, e) # {}
    <3>1. first = Min(SungTimes(lines, e)) /\ last = Max(SungTimes(lines, e))
      BY <1>2, <1>4, <2>3
    <3> QED BY <1>1, <2>1, <2>3, <3>1, NotNear
  <2> QED BY <2>2, <2>3
<1>8. ASSUME active = {}, NEW i \in DOMAIN lines \ sent, Bounded(lines[i]), lines[i].end <= e
      PROVE  \E j \in sent : /\ Bounded(lines[j]) /\ lines[j].end <= e
                             /\ lines[j].end > lines[i].end
  <2>1. lines[i].time \notin EndedLast(lines, e)
    BY <1>4, <1>5, <1>8
  <2>2. PICK j \in DOMAIN lines : /\ lines[j].time \in EndedLast(lines, e)
                                  /\ Bounded(lines[j]) /\ lines[j].end <= e
                                  /\ lines[j].end > lines[i].end
    BY <1>8, <2>1, LastEnded
  <2>3. j \in sent
    BY <1>4, <1>5, <1>8, <2>2
  <2> QED BY <2>2, <2>3
<1>9. OverlayRight(lines, e) <=>
        /\ active \subseteq sent
        /\ \A i \in DOMAIN lines :
             \/ i \in sent
             \/ lines[i].time > last /\ Cardinality(Times(last, lines[i].time)) >= 2
             \/ lines[i].time < first /\ Cardinality(Times(lines[i].time, first)) >= 2
             \/ lines[i].time >= first /\ lines[i].time <= last
        /\ active = {} =>
             \A i \in DOMAIN lines \ sent : Bounded(lines[i]) /\ lines[i].end <= e =>
               \E j \in sent : /\ Bounded(lines[j]) /\ lines[j].end <= e
                               /\ lines[j].end > lines[i].end
  BY Zenon DEF OverlayRight, active, sent, Times
<1> QED BY <1>6, <1>7, <1>8, <1>9

-----------------------------------------------------------------------------
(* The panel. *)

\* Whatever the height of the box, the rows of the current group and what there is to show
\* above and below it, the group is in the box whole; without a cap on the context the rows
\* above it are there to be shown, and those below it too if the song can fill the box, so
\* that none is left blank (lyrics_panel_format.go: anchorRows, fitAnchor).
THEOREM PanelIsFilled ==
  ASSUME NEW height \in Nat, NEW cur \in 0 .. height,
         NEW above \in Nat, NEW below \in Nat, NEW context \in Nat,
         NEW anchor, anchor = AnchorRows(height, context, cur, above, below)
  PROVE  /\ anchor \in 0 .. height - cur
         /\ context = 0 => anchor <= above
         /\ context = 0 /\ above + cur + below >= height => height - anchor - cur <= below
<1>1. PICK third \in Nat : third = height \div 3
  OBVIOUS
<1>2. \A n \in Int : /\ FitAnchor(n, height, cur) \in 0 .. height - cur
                     /\ n \in 0 .. height - cur => FitAnchor(n, height, cur) = n
  BY DEF FitAnchor
<1>3. PICK target \in 0 .. height - cur : target = FitAnchor(height \div 3, height, cur)
  BY <1>1, <1>2
<1>4. PICK top \in 0 .. height - cur :
        top = (IF above < target THEN above ELSE target) /\ top <= above
  <2>1. (IF above < target THEN above ELSE target) \in 0 .. height - cur
    OBVIOUS
  <2> QED BY <2>1
<1>5. PICK bottom \in Int :
        bottom = IF above + cur + below >= height /\ below < height - top - cur
                 THEN height - cur - below ELSE top
  <2>1. (IF above + cur + below >= height /\ below < height - top - cur
         THEN height - cur - below ELSE top) \in Int
    OBVIOUS
  <2> QED BY <2>1
<1>6. anchor = IF context > 0 THEN target ELSE FitAnchor(bottom, height, cur)
  BY <1>3, <1>4, <1>5 DEF AnchorRows
<1>7. CASE above + cur + below >= height /\ below < height - top - cur
  <2>1. bottom = height - cur - below /\ bottom \in 0 .. height - cur /\ bottom <= above
    BY <1>4, <1>5, <1>7
  <2>2. FitAnchor(bottom, height, cur) = bottom
    BY <1>2, <2>1
  <2>3. height - bottom - cur <= below
    BY <2>1
  <2> QED BY <1>6, <2>1, <2>2, <2>3
<1>8. CASE ~(above + cur + below >= height /\ below < height - top - cur)
  <2>1. bottom = top
    BY <1>5, <1>8
  <2>2. FitAnchor(bottom, height, cur) = top
    BY <1>2, <2>1
  <2>3. above + cur + below >= height => height - top - cur <= below
    BY <1>8
  <2> QED BY <1>4, <1>6, <2>2, <2>3
<1> QED BY <1>7, <1>8

LEMMA Stays ==
  ASSUME NEW n \in Nat, NEW T, NEW u, u[0] \in T, \A i \in 1 .. n : u[i - 1] \in T => u[i] \in T
  PROVE  \A i \in 0 .. n : u[i] \in T
<1> DEFINE S == {i \in Nat : i <= n => u[i] \in T}
<1>1. 0 \in S
  OBVIOUS
<1>2. ASSUME NEW i \in Nat, i \in S PROVE i + 1 \in S
  <2> SUFFICES ASSUME i + 1 <= n PROVE u[i + 1] \in T
    OBVIOUS
  <2>1. i + 1 \in 1 .. n /\ (i + 1) - 1 = i /\ u[i] \in T
    BY <1>2
  <2> QED BY <2>1
<1>3. Nat \subseteq S
  <2> HIDE DEF S
  <2> QED BY <1>1, <1>2, NatSets
<1> QED BY <1>3

Follows(f, n, T, base, step) ==
  /\ f \in [0 .. n -> T] /\ f[0] = base
  /\ \A i \in 1 .. n : f[i] = step[i][f[i - 1]]

LEMMA Recursion ==
  ASSUME NEW n \in Nat, NEW T, NEW base \in T, NEW step \in [1 .. n -> [T -> T]]
  PROVE  \E f : Follows(f, n, T, base, step)
<1> DEFINE Good(m) == \E f \in [0 .. m -> T] :
                        f[0] = base /\ \A i \in 1 .. m : f[i] = step[i][f[i - 1]]
           S == {m \in Nat : m <= n => Good(m)}
<1>1. Good(0)
  <2> DEFINE f == [i \in 0 .. 0 |-> base]
  <2>1. f \in [0 .. 0 -> T] /\ f[0] = base
    OBVIOUS
  <2>2. \A i \in 1 .. 0 : f[i] = step[i][f[i - 1]]
    OBVIOUS
  <2> HIDE DEF f
  <2> QED BY <2>1, <2>2
<1>2. ASSUME NEW m \in Nat, Good(m), m + 1 <= n
      PROVE  Good(m + 1)
  <2>1. PICK f \in [0 .. m -> T] : f[0] = base /\ \A i \in 1 .. m : f[i] = step[i][f[i - 1]]
    BY <1>2
  <2> DEFINE g == [i \in 0 .. m + 1 |-> IF i = m + 1 THEN step[m + 1][f[m]] ELSE f[i]]
  <2>2. f[m] \in T /\ m + 1 \in 1 .. n
    BY <1>2, <2>1
  <2>3. step[m + 1][f[m]] \in T
    BY <2>2
  <2>4. g \in [0 .. m + 1 -> T] /\ g[0] = base
    BY <2>1, <2>3
  <2>5. ASSUME NEW i \in 1 .. m + 1 PROVE g[i] = step[i][g[i - 1]]
    <3>1. CASE i = m + 1
      <4>1. g[i] = step[m + 1][f[m]] /\ g[i - 1] = f[m]
        BY <3>1
      <4> QED BY <3>1, <4>1
    <3>2. CASE i # m + 1
      <4>1. g[i] = f[i] /\ g[i - 1] = f[i - 1] /\ i \in 1 .. m
        BY <3>2
      <4> QED BY <2>1, <4>1
    <3> QED BY <3>1, <3>2
  <2> HIDE DEF g
  <2> QED BY <2>4, <2>5
<1>3. Nat \subseteq S
  <2>1. 0 \in S
    BY <1>1
  <2>2. \A m \in Nat : m \in S => m + 1 \in S
    <3> HIDE DEF Good
    <3> QED BY <1>2
  <2> HIDE DEF S
  <2> QED BY <2>1, <2>2, NatSets
<1>4. Good(n)
  <2> HIDE DEF Good
  <2> QED BY <1>3
<1> QED BY <1>4 DEF Follows

\* A sequence of sequences put together: a piece at a time.
Joined(f, T, s, n) ==
  /\ f \in [1 .. n -> Seq(T)]
  /\ FlattenSeq(s) = f[n] /\ f[1] = s[1]
  /\ \A i \in 1 .. n : i # 1 => f[i] = f[i - 1] \o s[i]

LEMMA Flattened ==
  ASSUME NEW T, NEW s \in Seq(Seq(T)), NEW n \in Nat, n > 0, n = Len(s)
  PROVE  \E f : Joined(f, T, s, n)
<1>1. PICK Q : Q = Seq(T)
  OBVIOUS
<1> DEFINE next(x, i) == x \o s[i]
<1>2. /\ <<>> \in Q /\ \A i \in 1 .. n : s[i] \in Q
      /\ \A x \in Q, i \in 1 .. n : next(x, i) \in Q /\ next(<<>>, i) = s[i]
  <2>1. <<>> \in Q /\ \A i \in 1 .. n : s[i] \in Q
    BY <1>1, ElementOfSeq, EmptySeq
  <2> QED BY <1>1, <2>1, ConcatProperties, ConcatEmptySeq
<1> DEFINE step == [i \in 1 .. n |-> [x \in Q |-> next(x, i)]]
           flat[i \in 1 .. Len(s)] == IF i = 1 THEN s[i] ELSE next(flat[i - 1], i)
<1>3. FlattenSeq(s) = flat[n]
  <2>1. Len(s) # 0
    OBVIOUS
  <2> QED BY <2>1, Zenon DEF FlattenSeq
<1> HIDE DEF next
<1>4. step \in [1 .. n -> [Q -> Q]] /\ \A i \in 1 .. n, x \in Q : step[i][x] = next(x, i)
  BY <1>2
<1>5. PICK g : Follows(g, n, Q, <<>>, step)
  <2> HIDE DEF step
  <2> QED BY <1>2, <1>4, Recursion
<1>6. g \in [0 .. n -> Q] /\ g[0] = <<>> /\ \A i \in 1 .. n : g[i] = next(g[i - 1], i)
  <2> HIDE DEF step
  <2>1. g \in [0 .. n -> Q] /\ g[0] = <<>> /\ \A i \in 1 .. n : g[i] = step[i][g[i - 1]]
    BY <1>5 DEF Follows
  <2>2. \A i \in 1 .. n : i - 1 \in 0 .. n
    OBVIOUS
  <2>3. \A i \in 1 .. n : g[i - 1] \in Q
    BY <2>1, <2>2
  <2> QED BY <1>4, <2>1, <2>3
<1>7. g[1] = s[1]
  BY <1>2, <1>6
<1>8. PICK f : f = [i \in 1 .. n |-> g[i]]
  OBVIOUS
<1>9. f = [i \in 1 .. n |-> IF i = 1 THEN s[i] ELSE next(f[i - 1], i)]
  <2>1. \A i \in 1 .. n : f[i] = IF i = 1 THEN s[i] ELSE next(f[i - 1], i)
    BY <1>6, <1>7, <1>8
  <2> QED BY <1>8, <2>1
<1>10. flat = [i \in 1 .. n |-> IF i = 1 THEN s[i] ELSE next(flat[i - 1], i)]
  BY <1>9
<1> HIDE DEF flat
<1>11. \A i \in 1 .. n : flat[i] = IF i = 1 THEN s[i] ELSE next(flat[i - 1], i)
  BY <1>10
<1>12. \A i \in 0 .. n - 1 : flat[i + 1] \in Q
  <2>1. PICK u : u = [i \in 0 .. n - 1 |-> flat[i + 1]]
    OBVIOUS
  <2>2. u[0] \in Q
    BY <1>2, <1>11, <2>1
  <2>3. ASSUME NEW i \in 1 .. n - 1, u[i - 1] \in Q PROVE u[i] \in Q
    <3>1. u[i] = next(u[i - 1], i + 1) /\ i + 1 \in 1 .. n
      BY <1>11, <2>1
    <3> QED BY <1>2, <2>3, <3>1
  <2>4. \A i \in 0 .. n - 1 : u[i] \in Q
    <3> DEFINE m == n - 1
    <3>1. m \in Nat
      OBVIOUS
    <3> HIDE DEF m
    <3> SUFFICES \A i \in 0 .. m : u[i] \in Q
      BY DEF m
    <3>2. \A i \in 1 .. m : u[i - 1] \in Q => u[i] \in Q
      BY <2>3 DEF m
    <3> QED BY <2>2, <3>1, <3>2, Stays
  <2> QED BY <2>1, <2>4
<1>13. flat \in [1 .. n -> Q]
  <2>1. \A i \in 1 .. n : flat[i] \in Q
    <3> SUFFICES ASSUME NEW i \in 1 .. n PROVE flat[i] \in Q
      OBVIOUS
    <3>1. i - 1 \in 0 .. n - 1 /\ (i - 1) + 1 = i
      OBVIOUS
    <3> QED BY <1>12, <3>1
  <2> QED BY <1>10, <2>1
<1>14. flat[1] = s[1] /\ \A i \in 1 .. n : i # 1 => flat[i] = flat[i - 1] \o s[i]
  <2>1. flat[1] = s[1] /\ \A i \in 1 .. n : i # 1 => flat[i] = next(flat[i - 1], i)
    BY <1>11
  <2> QED BY <2>1, Zenon DEF next
<1>15. Joined(flat, T, s, n)
  BY <1>1, <1>3, <1>13, <1>14 DEF Joined
<1> QED BY <1>15

LEMMA FlattenAppend ==
  ASSUME NEW T, NEW s \in Seq(Seq(T)), NEW x \in Seq(T), NEW Q, Q = Seq(T)
  PROVE  FlattenSeq(s) \in Q /\ FlattenSeq(Append(s, x)) = FlattenSeq(s) \o x
<1>1. PICK n \in Nat : n = Len(s)
  BY LenProperties
<1>2. PICK t : t = Append(s, x)
  OBVIOUS
<1>3. /\ t \in Seq(Seq(T)) /\ Len(t) = n + 1
      /\ \A i \in 1 .. n : t[i] = s[i]
      /\ t[n + 1] = x
  BY <1>1, <1>2, AppendProperties
<1>4. PICK g \in [1 .. n + 1 -> Q] :
        /\ FlattenSeq(t) = g[n + 1] /\ g[1] = t[1]
        /\ \A i \in 1 .. n + 1 : i # 1 => g[i] = g[i - 1] \o t[i]
  <2>1. PICK m \in Nat : m = n + 1 /\ m > 0
    BY <1>1
  <2>2. m = Len(t)
    BY <1>3, <2>1
  <2>3. PICK g : Joined(g, T, t, m)
    BY <1>3, <2>1, <2>2, Flattened
  <2> QED BY <2>1, <2>3 DEF Joined
<1>5. CASE n = 0
  <2>1. FlattenSeq(t) = x
    BY <1>3, <1>4, <1>5
  <2>2. FlattenSeq(s) = <<>>
    <3>1. s = <<>> /\ Len(s) = 0
      BY <1>1, <1>5, EmptySeq
    <3> QED BY <3>1 DEF FlattenSeq
  <2> QED BY <1>2, <2>1, <2>2, ConcatEmptySeq, EmptySeq
<1>6. CASE n # 0
  <2>1. PICK f \in [1 .. n -> Q] :
          /\ FlattenSeq(s) = f[n] /\ f[1] = s[1]
          /\ \A i \in 1 .. n : i # 1 => f[i] = f[i - 1] \o s[i]
    <3>1. n > 0
      BY <1>6
    <3>2. PICK f : Joined(f, T, s, n)
      BY <1>1, <3>1, Flattened
    <3> QED BY <3>2 DEF Joined
  <2> DEFINE S == {i \in Nat : i < n => g[i + 1] = f[i + 1]}
  <2>2. 0 \in S
    BY <1>3, <1>4, <1>6, <2>1
  <2>3. ASSUME NEW i \in Nat, i \in S PROVE i + 1 \in S
    <3> SUFFICES ASSUME i + 1 < n PROVE g[i + 1 + 1] = f[i + 1 + 1]
      BY <2>3
    <3>1. PICK j : j = i + 2 /\ j \in 1 .. n /\ j \in 1 .. n + 1 /\ j # 1 /\ j - 1 = i + 1 /\ i + 1 + 1 = j
      OBVIOUS
    <3>2. g[j - 1] = f[j - 1]
      BY <2>3, <3>1
    <3>3. g[j] = g[j - 1] \o t[j] /\ t[j] = s[j]
      BY <1>3, <1>4, <3>1, Zenon
    <3>4. f[j] = f[j - 1] \o s[j]
      BY <2>1, <3>1, Zenon
    <3> QED BY <3>1, <3>2, <3>3, <3>4, Zenon
  <2>4. n - 1 \in S
    <3>1. Nat \subseteq S
      <4> HIDE DEF S
      <4> QED BY <2>2, <2>3, NatSets
    <3>2. n - 1 \in Nat
      BY <1>6
    <3> HIDE DEF S
    <3> QED BY <3>1, <3>2
  <2>5. g[n] = f[n] /\ f[n] \in Q
    BY <1>6, <2>4
  <2>6. g[n + 1] = g[n] \o t[n + 1]
    <3>1. PICK j : j = n + 1 /\ j \in 1 .. n + 1 /\ j # 1 /\ j - 1 = n
      BY <1>6
    <3>2. g[j] = g[j - 1] \o t[j]
      BY <1>4, <3>1, Zenon
    <3> QED BY <3>1, <3>2, Zenon
  <2> QED BY <1>2, <1>3, <1>4, <2>1, <2>5, <2>6, Zenon
<1> QED BY <1>5, <1>6

-----------------------------------------------------------------------------
(* The rows of the panel. *)

Row == Nat \X Nat
IsPanel(lines, visible) == OrderedSong(lines) /\ visible \in Seq(DOMAIN lines)

LEMMA VisibleAre ==
  ASSUME NEW lines, OrderedSong(lines), NEW filter
  PROVE  VisibleLines(lines, filter) \in Seq(DOMAIN lines)
<1>1. PICK n \in Nat : n = Len(lines) /\ DOMAIN lines = 1 .. n
  BY SongHas
<1>2. PICK Q : Q = Seq(1 .. n)
  OBVIOUS
<1> DEFINE next(x, i) == IF Matches(lines[i], filter) /\ lines[i].rows > 0 THEN Append(x, i) ELSE x
           step == [i \in 1 .. n |-> [x \in Q |-> next(x, i)]]
           visible[i \in 0 .. Len(lines)] ==
             IF i = 0 THEN <<>>
             ELSE IF Matches(lines[i], filter) /\ lines[i].rows > 0 THEN Append(visible[i - 1], i)
             ELSE visible[i - 1]
<1>3. VisibleLines(lines, filter) = visible[n]
  BY <1>1, Zenon DEF VisibleLines
<1>4. visible = CHOOSE f : f = [i \in 0 .. n |-> IF i = 0 THEN <<>> ELSE next(f[i - 1], i)]
  BY <1>1, Zenon
<1>5. <<>> \in Q /\ \A x \in Q, i \in 1 .. n : next(x, i) \in Q
  BY <1>2, EmptySeq, AppendProperties
<1> HIDE DEF next, visible
<1>6. step \in [1 .. n -> [Q -> Q]] /\ \A i \in 1 .. n, x \in Q : step[i][x] = next(x, i)
  BY <1>5
<1>7. PICK g : Follows(g, n, Q, <<>>, step)
  <2> HIDE DEF step
  <2> QED BY <1>5, <1>6, Recursion
<1>8. g = [i \in 0 .. n |-> IF i = 0 THEN <<>> ELSE next(g[i - 1], i)]
  <2> HIDE DEF step
  <2>1. g \in [0 .. n -> Q] /\ g[0] = <<>> /\ \A i \in 1 .. n : g[i] = step[i][g[i - 1]]
    BY <1>7 DEF Follows
  <2>2. \A i \in 1 .. n : g[i - 1] \in Q
    BY <2>1
  <2> QED BY <1>6, <2>1, <2>2
<1>9. visible = [i \in 0 .. n |-> IF i = 0 THEN <<>> ELSE next(visible[i - 1], i)]
  BY <1>4, <1>8
<1>10. visible[0] \in Q /\ \A i \in 1 .. n : visible[i - 1] \in Q => visible[i] \in Q
  BY <1>5, <1>9
<1>11. visible[n] \in Q
  <2>1. \A i \in 0 .. n : visible[i] \in Q
    BY <1>10, Stays
  <2> QED BY <2>1
<1> QED BY <1>1, <1>2, <1>3, <1>11

LEMMA PanelHas ==
  ASSUME NEW lines, NEW visible, IsPanel(lines, visible)
  PROVE  /\ Len(visible) \in Nat
         /\ \A p \in 1 .. Len(visible) : visible[p] \in DOMAIN lines /\ LineRows(lines, visible[p]) \in Seq(Row)
<1>1. visible \in Seq(DOMAIN lines) /\ lines \in Seq(LineType)
  BY DEF IsPanel, OrderedSong
<1>2. ASSUME NEW p \in 1 .. Len(visible)
      PROVE  visible[p] \in DOMAIN lines /\ LineRows(lines, visible[p]) \in Seq(Row)
  <2>1. PICK i : i = visible[p] /\ i \in DOMAIN lines /\ i \in Nat
    BY <1>1, SongHas DEF IsPanel
  <2>2. PICK n \in Nat : n = lines[i].rows
    <3>1. lines[i] \in LineType
      BY <1>1, <2>1, SongHas DEF IsPanel
    <3> QED BY <3>1 DEF LineType
  <2>3. LineRows(lines, i) = [k \in 1 .. n |-> <<i, k>>]
    BY <2>2 DEF LineRows
  <2>4. \A k \in 1 .. n : <<i, k>> \in Row
    BY <2>1 DEF Row
  <2> QED BY <2>1, <2>2, <2>3, <2>4
<1> QED BY <1>1, <1>2

LEMMA NoGroup ==
  ASSUME NEW lines, NEW visible, NEW a \in Int
  PROVE  GroupRows(lines, visible, a, a - 1) = <<>>
<1>1. [p \in 1 .. (a - 1) - a + 1 |-> LineRows(lines, visible[a + p - 1])] = <<>>
  OBVIOUS
<1> QED BY <1>1, EmptySeq DEF GroupRows, FlattenSeq

\* One line more.
LEMMA GroupGrows ==
  ASSUME NEW lines, NEW visible, IsPanel(lines, visible),
         NEW a \in Nat \ {0}, NEW b \in a - 1 .. Len(visible)
  PROVE  /\ GroupRows(lines, visible, a, b) \in Seq(Row)
         /\ b < Len(visible) =>
              GroupRows(lines, visible, a, b + 1)
                = GroupRows(lines, visible, a, b) \o LineRows(lines, visible[b + 1])
<1> DEFINE piece(c) == [p \in 1 .. c - a + 1 |-> LineRows(lines, visible[a + p - 1])]
<1>1. Len(visible) \in Nat
  BY PanelHas
<1>2. \A p \in 1 .. Len(visible) : LineRows(lines, visible[p]) \in Seq(Row)
  BY PanelHas
<1>3. PICK Q : Q = Seq(Row)
  OBVIOUS
<1>4. PICK R : R = [p \in 1 .. Len(visible) |-> LineRows(lines, visible[p])]
  OBVIOUS
<1>5. \A p \in 1 .. Len(visible) : R[p] \in Q
  BY <1>2, <1>3, <1>4
<1>6. ASSUME NEW c \in a - 1 .. Len(visible)
      PROVE  piece(c) \in [1 .. c - a + 1 -> Q] /\ \A p \in 1 .. c - a + 1 : piece(c)[p] = R[a + p - 1]
  <2>1. \A p \in 1 .. c - a + 1 : a + p - 1 \in 1 .. Len(visible)
    BY <1>1
  <2>2. \A p \in 1 .. c - a + 1 : LineRows(lines, visible[a + p - 1]) = R[a + p - 1]
    BY <1>4, <2>1
  <2> QED BY <1>5, <2>1, <2>2
<1>7. \A c : GroupRows(lines, visible, a, c) = FlattenSeq(piece(c))
  BY Zenon DEF GroupRows
<1> HIDE DEF piece
<1>8. PICK s : s = piece(b) /\ s \in [1 .. b - a + 1 -> Q]
  BY <1>6
<1>9. s \in Seq(Seq(Row)) /\ Len(s) = b - a + 1
  <2>1. b - a + 1 \in Nat
    BY <1>1
  <2>2. s \in Seq(Q) /\ Len(s) = b - a + 1
    BY <1>8, <2>1
  <2> QED BY <1>3, <2>2
<1>10. FlattenSeq(s) \in Seq(Row)
  <2>1. <<>> \in Seq(Row)
    BY EmptySeq
  <2> QED BY <1>9, <2>1, FlattenAppend
<1>11. ASSUME b < Len(visible)
       PROVE  GroupRows(lines, visible, a, b + 1)
                = GroupRows(lines, visible, a, b) \o LineRows(lines, visible[b + 1])
  <2>1. PICK t : t = LineRows(lines, visible[b + 1]) /\ t \in Seq(Row) /\ t = R[b + 1]
    <3>1. b + 1 \in 1 .. Len(visible)
      BY <1>1, <1>11
    <3> QED BY <1>2, <1>4, <3>1
  <2>2. PICK s2 : s2 = piece(b + 1) /\ s2 \in [1 .. b - a + 2 -> Q] /\ \A p \in 1 .. b - a + 2 : s2[p] = R[a + p - 1]
    <3>1. b + 1 \in a - 1 .. Len(visible) /\ (b + 1) - a + 1 = b - a + 2
      BY <1>1, <1>11
    <3> QED BY <1>6, <3>1
  <2>3. \A p \in 1 .. b - a + 1 : s[p] = R[a + p - 1]
    BY <1>6, <1>8
  <2>4. s2 = Append(s, t)
    <3>1. PICK n \in Nat : n = b - a + 1
      <4>1. b - a + 1 \in Nat
        BY <1>1
      <4> QED BY <4>1
    <3>2. s2 \in [1 .. n + 1 -> Q] /\ s \in [1 .. n -> Q] /\ Len(s) = n /\ s \in Seq(Q) /\ t \in Q
      BY <1>1, <1>3, <1>8, <1>9, <2>1, <2>2, <3>1
    <3>3. /\ Append(s, t) \in [1 .. n + 1 -> Q]
          /\ \A p \in 1 .. n : Append(s, t)[p] = s[p]
          /\ Append(s, t)[n + 1] = t
      <4>1. /\ Append(s, t) \in Seq(Q) /\ Len(Append(s, t)) = n + 1
            /\ \A p \in 1 .. n : Append(s, t)[p] = s[p]
            /\ Append(s, t)[n + 1] = t
        BY <3>2, AppendProperties
      <4>2. Append(s, t) \in [1 .. Len(Append(s, t)) -> Q]
        BY <4>1, LenProperties
      <4> QED BY <4>1, <4>2
    <3>4. \A p \in 1 .. n + 1 : s2[p] = Append(s, t)[p]
      <4>1. \A p \in 1 .. n : s2[p] = s[p]
        BY <1>1, <2>2, <2>3, <3>1
      <4>2. s2[n + 1] = t
        BY <1>1, <2>1, <2>2, <3>1
      <4> QED BY <3>1, <3>3, <4>1, <4>2
    <3> QED BY <3>2, <3>3, <3>4
  <2>5. FlattenSeq(s2) = FlattenSeq(s) \o t
    BY <1>9, <2>1, <2>4, FlattenAppend
  <2> QED BY <1>7, <1>8, <2>1, <2>2, <2>5
<1> QED BY <1>7, <1>8, <1>10, <1>11

LEMMA Regroup ==
  ASSUME NEW x \in Seq(Row), NEW y \in Seq(Row), NEW z \in Seq(Row)
  PROVE  (x \o y) \o z = x \o (y \o z)
BY ConcatAssociative

\* A group is the one up to a line, and the one from the next line on.
LEMMA GroupSplit ==
  ASSUME NEW lines, NEW visible, IsPanel(lines, visible),
         NEW a \in Nat \ {0}, NEW b \in a - 1 .. Len(visible), NEW c \in b .. Len(visible)
  PROVE  GroupRows(lines, visible, a, c)
           = GroupRows(lines, visible, a, b) \o GroupRows(lines, visible, b + 1, c)
<1>1. PICK N \in Nat : N = Len(visible)
  BY PanelHas
<1> DEFINE G(i, j) == GroupRows(lines, visible, i, j)
           S == {m \in Nat : b + m <= N => G(a, b + m) = G(a, b) \o G(b + 1, b + m)}
<1>2. b \in Nat /\ b + 1 \in Nat \ {0}
  BY <1>1
<1>3. \A m \in Nat : b + m <= N =>
        /\ G(a, b + m) \in Seq(Row) /\ G(b + 1, b + m) \in Seq(Row)
        /\ b + m < N =>
             /\ G(a, b + m + 1) = G(a, b + m) \o LineRows(lines, visible[b + m + 1])
             /\ G(b + 1, b + m + 1) = G(b + 1, b + m) \o LineRows(lines, visible[b + m + 1])
             /\ LineRows(lines, visible[b + m + 1]) \in Seq(Row)
  <2> SUFFICES ASSUME NEW m \in Nat, b + m <= N
               PROVE  /\ G(a, b + m) \in Seq(Row) /\ G(b + 1, b + m) \in Seq(Row)
                      /\ b + m < N =>
                           /\ G(a, b + m + 1) = G(a, b + m) \o LineRows(lines, visible[b + m + 1])
                           /\ G(b + 1, b + m + 1) = G(b + 1, b + m) \o LineRows(lines, visible[b + m + 1])
                           /\ LineRows(lines, visible[b + m + 1]) \in Seq(Row)
    OBVIOUS
  <2>1. b + m \in a - 1 .. Len(visible) /\ b + m \in (b + 1) - 1 .. Len(visible)
    BY <1>1
  <2>2. /\ G(a, b + m) \in Seq(Row)
        /\ b + m < N => G(a, b + m + 1) = G(a, b + m) \o LineRows(lines, visible[b + m + 1])
    BY <1>1, <2>1, GroupGrows
  <2>3. /\ G(b + 1, b + m) \in Seq(Row)
        /\ b + m < N => G(b + 1, b + m + 1) = G(b + 1, b + m) \o LineRows(lines, visible[b + m + 1])
    BY <1>1, <1>2, <2>1, GroupGrows
  <2>4. b + m < N => LineRows(lines, visible[b + m + 1]) \in Seq(Row)
    <3>1. b + m < N => b + m + 1 \in 1 .. Len(visible)
      BY <1>1, <1>2
    <3> QED BY <3>1, PanelHas
  <2> QED BY <2>2, <2>3, <2>4
<1>4. G(b + 1, b + 0) = <<>> /\ b + 0 = b
  <2>1. (b + 1) - 1 = b + 0 /\ b + 1 \in Int /\ b + 0 = b
    BY <1>2
  <2> QED BY <2>1, NoGroup
<1> HIDE DEF G
<1>5. 0 \in S
  <2>1. b + 0 <= N => G(a, b) = G(a, b) \o <<>>
    BY <1>3, <1>4, ConcatEmptySeq
  <2> QED BY <1>4, <2>1
<1>6. ASSUME NEW m \in Nat, m \in S PROVE m + 1 \in S
  <2> SUFFICES ASSUME b + m + 1 <= N PROVE G(a, b + (m + 1)) = G(a, b) \o G(b + 1, b + (m + 1))
    BY <1>2
  <2>1. b + m <= N /\ b + m < N /\ b + (m + 1) = b + m + 1 /\ b + 0 <= N
    BY <1>1, <1>2
  <2>2. G(a, b + m) = G(a, b) \o G(b + 1, b + m)
    BY <1>6, <2>1
  <2>3. PICK t : t = LineRows(lines, visible[b + m + 1]) /\ t \in Seq(Row)
    BY <1>3, <2>1
  <2>4. G(a, b) \in Seq(Row) /\ G(b + 1, b + m) \in Seq(Row)
    BY <1>3, <1>4, <2>1
  <2>5. (G(a, b) \o G(b + 1, b + m)) \o t = G(a, b) \o (G(b + 1, b + m) \o t)
    <3> DEFINE p == G(a, b)
               q == G(b + 1, b + m)
    <3>1. p \in Seq(Row) /\ q \in Seq(Row) /\ t \in Seq(Row)
      BY <2>3, <2>4
    <3> HIDE DEF p, q
    <3>2. (p \o q) \o t = p \o (q \o t)
      BY <3>1, Regroup, SMTT(30)
    <3> QED BY <3>2, Zenon DEF p, q
  <2>6. G(a, b + m + 1) = G(a, b + m) \o t /\ G(b + 1, b + m + 1) = G(b + 1, b + m) \o t
    BY <1>3, <2>1, <2>3
  <2> QED BY <2>1, <2>2, <2>5, <2>6
<1>7. c - b \in S /\ b + (c - b) = c
  <2>1. Nat \subseteq S
    <3> HIDE DEF S
    <3> QED BY <1>5, <1>6, NatSets
  <2>2. c - b \in Nat /\ b + (c - b) = c
    BY <1>1, <1>2
  <2> HIDE DEF S
  <2> QED BY <2>1, <2>2
<1>8. c <= N
  BY <1>1
<1> QED BY <1>7, <1>8 DEF G

\* The least number that does, of those up to a cap, or the cap.
LEMMA EnoughOf ==
  ASSUME NEW cap \in Nat, NEW S, S \subseteq 0 .. cap,
         NEW n, n = IF S = {} THEN cap ELSE Min(S)
  PROVE  n \in 0 .. cap /\ (n = cap \/ n \in S)
<1>1. CASE S = {}
  BY <1>1
<1>2. CASE S # {}
  <2>1. \E m \in S : \A k \in S : m <= k
    <3>1. S \subseteq Nat
      OBVIOUS
    <3> QED BY <1>2, <3>1, LeastNat
  <2>2. Min(S) \in S
    BY <2>1 DEF Min
  <2> QED BY <1>2, <2>2
<1> QED BY <1>1, <1>2

\* What is shown below the group is of the lines after it, from the first on, and above it of
\* the lines before, up to the last; without a cap it is all of them or fills the box.
BelowIs(below, after, height, context) ==
  /\ below \in Seq(Row)
  /\ \E rest \in Seq(Row) :
       after = below \o rest /\ (context = 0 /\ Len(below) < height => rest = <<>>)
AboveIs(above, before, height, context) ==
  /\ above \in Seq(Row)
  /\ \E rest \in Seq(Row) :
       before = rest \o above /\ (context = 0 /\ Len(above) < height => rest = <<>>)

LEMMA CollectBelow ==
  ASSUME NEW lines, NEW visible, IsPanel(lines, visible), NEW start \in 1 .. Len(visible) + 1,
         NEW height \in Nat, NEW context \in Nat,
         NEW below, below = CollectRows(lines, visible, start, 1, height, context)
  PROVE  BelowIs(below, GroupRows(lines, visible, start, Len(visible)), height, context)
<1>1. PICK N \in Nat : N = Len(visible)
  BY PanelHas
<1>2. PICK available \in Nat : available = N - start + 1
  <2>1. N - start + 1 \in Nat
    BY <1>1
  <2> QED BY <2>1
<1>3. PICK cap \in 0 .. available :
        /\ cap = IF context > 0 /\ context < available THEN context ELSE available
        /\ context = 0 => cap = available
  <2>1. (IF context > 0 /\ context < available THEN context ELSE available) \in 0 .. available
    BY <1>2
  <2> QED BY <2>1
<1> DEFINE Taken(n) == GroupRows(lines, visible, start, start + n - 1)
           enough == {n \in 0 .. cap : Len(Taken(n)) >= height}
<1>4. below = Taken(IF enough = {} THEN cap ELSE Min(enough))
  BY <1>1, <1>2, <1>3 DEF CollectRows
<1>5. PICK n \in 0 .. cap : below = Taken(n) /\ (n = cap \/ n \in enough)
  <2>1. enough \subseteq 0 .. cap /\ cap \in Nat
    BY <1>2, <1>3
  <2> HIDE DEF enough, Taken
  <2> QED BY <1>4, <2>1, EnoughOf
<1>6. PICK b : b = start + n - 1 /\ b \in start - 1 .. N /\ start \in Nat \ {0} /\ (n = available => b = N)
  <2>1. /\ start + n - 1 \in start - 1 .. N /\ start \in Nat \ {0}
        /\ n = available => start + n - 1 = N
    BY <1>1, <1>2, <1>3
  <2> QED BY <2>1
<1>7. below = GroupRows(lines, visible, start, b)
  BY <1>5, <1>6
<1>8. below \in Seq(Row)
  BY <1>1, <1>6, <1>7, GroupGrows
<1>9. PICK rest : rest = GroupRows(lines, visible, b + 1, N)
  OBVIOUS
<1>10. rest \in Seq(Row)
  <2>1. b + 1 \in Nat \ {0} /\ N \in (b + 1) - 1 .. Len(visible)
    BY <1>1, <1>6
  <2> QED BY <1>9, <2>1, GroupGrows
<1>11. GroupRows(lines, visible, start, N) = below \o rest
  <2>1. b \in start - 1 .. Len(visible) /\ N \in b .. Len(visible)
    BY <1>1, <1>6
  <2>2. GroupRows(lines, visible, start, N)
          = GroupRows(lines, visible, start, b) \o GroupRows(lines, visible, b + 1, N)
    BY <1>6, <2>1, GroupSplit, ZenonT(30)
  <2> QED BY <1>7, <1>9, <2>2, Zenon
<1>12. context = 0 /\ Len(below) < height => rest = <<>>
  <2> SUFFICES ASSUME context = 0, Len(below) < height PROVE rest = <<>>
    OBVIOUS
  <2>1. n = cap
    <3>1. n \in enough => Len(below) >= height
      BY <1>5
    <3>2. Len(below) \in Nat
      BY <1>8, LenProperties
    <3> HIDE DEF enough
    <3> QED BY <1>5, <3>1, <3>2
  <2>2. b = N
    BY <1>3, <1>6, <2>1
  <2>3. N + 1 \in Int /\ (N + 1) - 1 = N
    OBVIOUS
  <2> QED BY <1>9, <2>2, <2>3, NoGroup
<1> QED BY <1>1, <1>8, <1>10, <1>11, <1>12 DEF BelowIs

LEMMA CollectAbove ==
  ASSUME NEW lines, NEW visible, IsPanel(lines, visible), NEW start \in 0 .. Len(visible),
         NEW height \in Nat, NEW context \in Nat,
         NEW above, above = CollectRows(lines, visible, start, -1, height, context)
  PROVE  AboveIs(above, GroupRows(lines, visible, 1, start), height, context)
<1>1. PICK N \in Nat : N = Len(visible)
  BY PanelHas
<1>2. PICK cap \in 0 .. start :
        /\ cap = IF context > 0 /\ context < start THEN context ELSE start
        /\ context = 0 => cap = start
  <2>1. (IF context > 0 /\ context < start THEN context ELSE start) \in 0 .. start
    BY <1>1
  <2> QED BY <2>1
<1> DEFINE Taken(n) == GroupRows(lines, visible, start - n + 1, start)
           enough == {n \in 0 .. cap : Len(Taken(n)) >= height}
<1>3. above = Taken(IF enough = {} THEN cap ELSE Min(enough))
  BY <1>1, <1>2 DEF CollectRows
<1>4. PICK n \in 0 .. cap : above = Taken(n) /\ (n = cap \/ n \in enough)
  <2>1. enough \subseteq 0 .. cap /\ cap \in Nat
    BY <1>1, <1>2
  <2> HIDE DEF enough, Taken
  <2> QED BY <1>3, <2>1, EnoughOf
<1>5. PICK b : b = start - n /\ b \in 0 .. start /\ (n = start => b = 0)
  <2>1. start - n \in 0 .. start /\ (n = start => start - n = 0)
    BY <1>1, <1>2
  <2> QED BY <2>1
<1>6. above = GroupRows(lines, visible, b + 1, start)
  BY <1>4, <1>5
<1>7. above \in Seq(Row)
  <2>1. b + 1 \in Nat \ {0} /\ start \in (b + 1) - 1 .. Len(visible)
    BY <1>1, <1>5
  <2> QED BY <1>6, <2>1, GroupGrows
<1>8. PICK rest : rest = GroupRows(lines, visible, 1, b)
  OBVIOUS
<1>9. 1 \in Nat \ {0} /\ b \in 1 - 1 .. Len(visible) /\ start \in b .. Len(visible)
  BY <1>1, <1>5
<1>10. rest \in Seq(Row)
  BY <1>8, <1>9, GroupGrows
<1>11. GroupRows(lines, visible, 1, start) = rest \o above
  <2>1. GroupRows(lines, visible, 1, start)
          = GroupRows(lines, visible, 1, b) \o GroupRows(lines, visible, b + 1, start)
    BY <1>9, GroupSplit
  <2> QED BY <1>6, <1>8, <2>1, Zenon
<1>12. context = 0 /\ Len(above) < height => rest = <<>>
  <2> SUFFICES ASSUME context = 0, Len(above) < height PROVE rest = <<>>
    OBVIOUS
  <2>1. n = cap
    <3>1. n \in enough => Len(above) >= height
      BY <1>4
    <3>2. Len(above) \in Nat
      BY <1>7, LenProperties
    <3> HIDE DEF enough
    <3> QED BY <1>4, <3>1, <3>2
  <2>2. b = 1 - 1 /\ 1 \in Int
    BY <1>2, <1>5, <2>1
  <2> QED BY <1>8, <2>2, NoGroup
<1> QED BY <1>7, <1>10, <1>11, <1>12 DEF AboveIs

\* The current group is of lines there are, and its rows are rows.
LEMMA CurrentAt ==
  ASSUME NEW lines, NEW visible, IsPanel(lines, visible), visible # <<>>, NEW filter, NEW e,
         NEW at, at = PanelCurrent(lines, visible, filter, e)
  PROVE  at.first \in 1 .. Len(visible) /\ at.last \in at.first .. Len(visible)
<1>1. PICK N \in Nat : N = Len(visible) /\ N > 0 /\ DOMAIN visible = 1 .. N
  <2>1. visible \in Seq(DOMAIN lines)
    BY DEF IsPanel
  <2> QED BY <2>1
<1>2. ASSUME NEW S, S \subseteq 1 .. N, S # {}
      PROVE  Min(S) \in 1 .. N /\ Max(S) \in Min(S) .. N
  <2>0. S \subseteq Nat /\ S \subseteq 0 .. N
    BY <1>1, <1>2
  <2>1. \E m \in S : \A k \in S : m <= k
    BY <1>2, <2>0, LeastNat
  <2>2. Min(S) \in S /\ \A k \in S : Min(S) <= k
    BY <2>1 DEF Min
  <2>3. \E m \in S : \A k \in S : k <= m
    BY <1>1, <1>2, <2>0, GreatestNat
  <2>4. Max(S) \in S
    BY <2>3 DEF Max
  <2>5. PICK low, high : low = Min(S) /\ high = Max(S) /\ low \in 1 .. N /\ high \in 1 .. N /\ low <= high
    BY <1>2, <2>2, <2>4
  <2> QED BY <1>1, <2>5
<1> DEFINE sung == {p \in DOMAIN visible : LineIsActive(lines, visible[p], ActiveLines(lines, filter, e))}
           started == {p \in DOMAIN visible : lines[visible[p]].time <= e}
<1>3. PanelCurrent(lines, visible, filter, e) =
         IF sung # {} THEN [first |-> Min(sung), last |-> Max(sung), sung |-> TRUE]
           ELSE IF started # {} THEN [first |-> Max(started), last |-> Max(started), sung |-> FALSE]
           ELSE [first |-> 1, last |-> 1, sung |-> FALSE]
  BY Zenon DEF PanelCurrent
<1>4. sung \subseteq 1 .. N /\ started \subseteq 1 .. N
  BY <1>1
<1> HIDE DEF sung, started
<1>5. CASE sung # {}
  <2>1. at.first = Min(sung) /\ at.last = Max(sung)
    BY <1>3, <1>5
  <2>2. Min(sung) \in 1 .. N /\ Max(sung) \in Min(sung) .. N
    BY <1>2, <1>4, <1>5
  <2> QED BY <1>1, <2>1, <2>2
<1>6. CASE sung = {} /\ started # {}
  <2>1. at.first = Max(started) /\ at.last = Max(started)
    BY <1>3, <1>6
  <2>2. Min(started) \in 1 .. N /\ Max(started) \in Min(started) .. N
    BY <1>2, <1>4, <1>6
  <2>3. Max(started) \in 1 .. N
    BY <1>1, <2>2
  <2> QED BY <1>1, <2>1, <2>3
<1>7. CASE sung = {} /\ started = {}
  BY <1>1, <1>3, <1>7
<1> QED BY <1>5, <1>6, <1>7

LEMMA CurrentIs ==
  ASSUME NEW lines, NEW visible, IsPanel(lines, visible), NEW at, NEW counts, NEW e,
         at.first \in 1 .. Len(visible), at.last \in at.first .. Len(visible)
  PROVE  CurrentRows(lines, visible, at, counts, e) \in Seq(Row)
<1>1. Len(visible) \in Nat
  BY PanelHas
<1>2. GroupRows(lines, visible, at.first, at.last) \in Seq(Row)
  <2>1. at.first \in Nat \ {0} /\ at.last \in at.first - 1 .. Len(visible)
    BY <1>1
  <2> QED BY <2>1, GroupGrows
<1>3. Dots \in Row /\ <<Dots>> \in Seq(Row)
  BY DEF Dots, Row
<1>4. \A s \in Seq(Row) : <<Dots>> \o s \in Seq(Row) /\ Append(s, Dots) \in Seq(Row)
  BY <1>3, ConcatProperties, AppendProperties
<1> QED BY <1>2, <1>4 DEF CurrentRows

LEMMA TopIs ==
  ASSUME NEW T, NEW s \in Seq(T), NEW n \in Nat, NEW t, t = Top(s, n)
  PROVE  /\ t \in Seq(T) /\ Len(t) = (IF n < Len(s) THEN n ELSE Len(s))
         /\ \A i \in 1 .. Len(t) : t[i] = s[i]
<1>1. Len(s) \in Nat
  BY LenProperties
<1>2. CASE n < Len(s)
  <2>1. t = SubSeq(s, 1, n)
    BY <1>2 DEF Top
  <2> QED BY <1>1, <1>2, <2>1
<1>3. CASE ~(n < Len(s))
  BY <1>1, <1>3 DEF Top
<1> QED BY <1>2, <1>3

LEMMA BottomIs ==
  ASSUME NEW T, NEW s \in Seq(T), NEW n \in Nat, NEW t, t = Bottom(s, n)
  PROVE  /\ t \in Seq(T) /\ Len(t) = (IF n < Len(s) THEN n ELSE Len(s))
         /\ \A i \in 1 .. Len(t) : t[i] = s[Len(s) - Len(t) + i]
<1>1. Len(s) \in Nat
  BY LenProperties
<1>2. CASE n < Len(s)
  <2>1. PICK k \in Nat : k = Len(s) - n /\ k + n = Len(s)
    BY <1>1, <1>2
  <2>2. t = SubSeq(s, k + 1, Len(s))
    BY <1>2, <2>1 DEF Bottom
  <2>3. t \in Seq(T) /\ Len(t) = n
    BY <1>1, <2>1, <2>2
  <2>4. \A i \in 1 .. n : t[i] = s[k + i]
    BY <1>1, <2>1, <2>2
  <2> QED BY <1>2, <2>1, <2>3, <2>4
<1>3. CASE ~(n < Len(s))
  BY <1>1, <1>3 DEF Bottom
<1> QED BY <1>2, <1>3

\* s is x and then y.
Then(s, x, y) ==
  /\ Len(x) \in Nat /\ Len(y) \in Nat /\ Len(s) = Len(x) + Len(y)
  /\ \A i \in 1 .. Len(x) : s[i] = x[i]
  /\ \A i \in 1 .. Len(y) : s[Len(x) + i] = y[i]

LEMMA ThenIs ==
  ASSUME NEW T, NEW x \in Seq(T), NEW y \in Seq(T), NEW s, s = x \o y
  PROVE  s \in Seq(T) /\ Then(s, x, y)
<1>1. Len(x) \in Nat /\ Len(y) \in Nat
  BY LenProperties
<1>2. /\ s \in Seq(T) /\ Len(s) = Len(x) + Len(y)
      /\ \A i \in 1 .. Len(x) + Len(y) : s[i] = IF i <= Len(x) THEN x[i] ELSE y[i - Len(x)]
  BY ConcatProperties
<1>3. ASSUME NEW i \in 1 .. Len(y) PROVE s[Len(x) + i] = y[i]
  <2>1. PICK k \in 1 .. Len(x) + Len(y) : k = Len(x) + i /\ ~(k <= Len(x)) /\ k - Len(x) = i
    BY <1>1
  <2> QED BY <1>2, <2>1
<1>4. \A i \in 1 .. Len(x) : s[i] = x[i]
  BY <1>1, <1>2
<1> QED BY <1>1, <1>2, <1>3, <1>4 DEF Then

\* t is the first n rows of s, or the last, or all there are.
TopOf(t, s, n) ==
  /\ Len(t) = IF n < Len(s) THEN n ELSE Len(s)
  /\ \A i \in 1 .. Len(t) : t[i] = s[i]
BottomOf(t, s, n) ==
  /\ Len(t) = IF n < Len(s) THEN n ELSE Len(s)
  /\ \A i \in 1 .. Len(t) : t[i] = s[Len(s) - Len(t) + i]

\* The song around the group, of which above and below are shown at most, and what is shown.
Around(song, before, above, group, below) ==
  \E rest1, rest2, after, begin :
    /\ Then(before, rest1, above) /\ Then(after, below, rest2)
    /\ Then(begin, before, group) /\ Then(song, begin, after)
Shows(shown, upper, cur, lower) ==
  \E top : Then(top, upper, cur) /\ Then(shown, top, lower)

\* shown is a piece of the song, upper of its rows those before the group.
IsPiece(shown, song, upper, cur, before, height, anchor) ==
  /\ Len(upper) \in 0 .. anchor /\ Len(upper) <= Len(before) /\ Len(shown) \in Nat
  /\ Len(shown) <= height - (anchor - Len(upper))
  /\ Len(before) - Len(upper) + Len(shown) <= Len(song)
  /\ \A j \in 1 .. Len(shown) : shown[j] = song[Len(before) - Len(upper) + j]
  /\ Len(before) + Len(cur) <= Len(before) - Len(upper) + Len(shown)

\* An end of what is above the group, the group and a beginning of what is below it are a
\* piece of the song, and no longer than the box.
LEMMA PieceOf ==
  ASSUME NEW height \in Nat, NEW anchor \in Nat, NEW room \in Nat,
         NEW before, NEW above, NEW group, NEW below, NEW song, Around(song, before, above, group, below),
         NEW upper, NEW cur, NEW lower, NEW shown, Shows(shown, upper, cur, lower),
         TopOf(cur, group, height), BottomOf(upper, above, anchor), TopOf(lower, below, room),
         height = anchor + Len(cur) + room
  PROVE  /\ IsPiece(shown, song, upper, cur, before, height, anchor)
         /\ anchor <= Len(above) /\ room <= Len(below) => Len(shown) = height
<1>0. PICK rest1, rest2, after, begin :
        /\ Then(before, rest1, above) /\ Then(after, below, rest2)
        /\ Then(begin, before, group) /\ Then(song, begin, after)
  BY Zenon DEF Around
<1>1. PICK top : Then(top, upper, cur) /\ Then(shown, top, lower)
  BY Zenon DEF Shows
<1>2. PICK a, b, g, c, r, z, u, l \in Nat :
        /\ a = Len(above) /\ b = Len(below) /\ g = Len(group)
        /\ c = Len(cur) /\ r = Len(rest1) /\ z = Len(rest2)
        /\ u = Len(upper) /\ l = Len(lower)
  BY <1>0, <1>1, Zenon DEF Then
<1>3. /\ c <= height /\ (c = g \/ c = height) /\ c <= g /\ height = anchor + c + room
      /\ u <= anchor /\ u <= a /\ (anchor <= a => u = anchor)
      /\ l <= b /\ l <= room /\ (room <= b => l = room)
  <2>1. /\ c = (IF height < g THEN height ELSE g)
        /\ u = (IF anchor < a THEN anchor ELSE a)
        /\ l = (IF room < b THEN room ELSE b)
        /\ height = anchor + c + room
    BY <1>2, Zenon DEF TopOf, BottomOf
  <2> QED BY <2>1
<1>4. Len(before) = r + a /\ \A i \in 1 .. a : before[r + i] = above[i]
  BY <1>0, <1>2, Zenon DEF Then
<1>5. \A i \in 1 .. u : upper[i] = above[a - u + i]
  BY <1>2, Zenon DEF BottomOf
<1>6. /\ \A i \in 1 .. l : lower[i] = below[i]
      /\ \A i \in 1 .. c : cur[i] = group[i]
  BY <1>2, Zenon DEF TopOf
<1>7. /\ Len(shown) = u + c + l
      /\ \A i \in 1 .. u : shown[i] = above[a - u + i]
      /\ \A i \in 1 .. c : shown[u + i] = group[i]
      /\ \A i \in 1 .. l : shown[u + c + i] = below[i]
  <2>1. /\ Len(top) = u + c
        /\ \A i \in 1 .. u : top[i] = upper[i]
        /\ \A i \in 1 .. c : top[u + i] = cur[i]
    BY <1>1, <1>2, Zenon DEF Then
  <2>2. /\ Len(shown) = u + c + l
        /\ \A i \in 1 .. u + c : shown[i] = top[i]
        /\ \A i \in 1 .. l : shown[u + c + i] = lower[i]
    <3>1. /\ Len(shown) = Len(top) + l
          /\ \A i \in 1 .. Len(top) : shown[i] = top[i]
          /\ \A i \in 1 .. l : shown[Len(top) + i] = lower[i]
      BY <1>1, <1>2, Zenon DEF Then
    <3> QED BY <2>1, <3>1, Zenon
  <2>3. \A i \in 1 .. u : shown[i] = top[i]
    BY <2>2
  <2>4. \A i \in 1 .. c : shown[u + i] = top[u + i]
    BY <2>2
  <2> QED BY <1>5, <1>6, <2>1, <2>2, <2>3, <2>4
<1>8. /\ Len(song) = r + a + g + (b + z)
      /\ \A i \in 1 .. a : song[r + i] = above[i]
      /\ \A i \in 1 .. g : song[r + a + i] = group[i]
      /\ \A i \in 1 .. b : song[r + a + g + i] = below[i]
  <2>1. /\ Len(begin) = r + a + g
        /\ \A i \in 1 .. r + a : begin[i] = before[i]
        /\ \A i \in 1 .. g : begin[r + a + i] = group[i]
    <3>1. Then(begin, before, group) /\ Len(before) = r + a /\ g = Len(group)
      BY <1>0, <1>2, <1>4
    <3> QED BY <3>1, Zenon DEF Then
  <2>2. Len(after) = b + z /\ \A i \in 1 .. b : after[i] = below[i]
    BY <1>0, <1>2, Zenon DEF Then
  <2>3. /\ Len(song) = r + a + g + (b + z)
        /\ \A i \in 1 .. r + a + g : song[i] = begin[i]
        /\ \A i \in 1 .. b + z : song[r + a + g + i] = after[i]
    BY <1>0, <2>1, <2>2, Zenon DEF Then
  <2>4. \A i \in 1 .. a : song[r + i] = begin[r + i] /\ begin[r + i] = before[r + i]
    BY <2>1, <2>3
  <2>5. \A i \in 1 .. g : song[r + a + i] = begin[r + a + i]
    <3>1. \A i \in 1 .. g : r + a + i \in 1 .. r + a + g
      OBVIOUS
    <3> QED BY <2>3, <3>1, Zenon
  <2>6. \A i \in 1 .. b : song[r + a + g + i] = after[i]
    <3>1. \A i \in 1 .. b : i \in 1 .. b + z
      OBVIOUS
    <3> QED BY <2>3, <3>1, Zenon
  <2> QED BY <1>4, <2>1, <2>2, <2>3, <2>4, <2>5, <2>6
<1>9. ASSUME NEW j \in 1 .. u + c + l PROVE shown[j] = song[r + a - u + j]
  <2>1. CASE j <= u
    <3>1. PICK i \in 1 .. a : i = a - u + j /\ r + i = r + a - u + j
      <4>1. a - u + j \in 1 .. a /\ r + (a - u + j) = r + a - u + j
        BY <1>3, <2>1
      <4> QED BY <4>1
    <3>2. j \in 1 .. u
      BY <2>1
    <3> QED BY <1>7, <1>8, <3>1, <3>2
  <2>2. CASE j > u /\ j <= u + c
    <3>1. PICK i \in 1 .. c : i \in 1 .. g /\ j = u + i /\ r + a - u + j = r + a + i
      <4>1. /\ j - u \in 1 .. c /\ j - u \in 1 .. g /\ j = u + (j - u)
            /\ r + a - u + j = r + a + (j - u)
        BY <1>3, <2>2
      <4> QED BY <4>1
    <3> QED BY <1>7, <1>8, <3>1
  <2>3. CASE j > u + c
    <3>1. c = g
      BY <1>3, <2>3
    <3>2. PICK i \in 1 .. l : i \in 1 .. b /\ j = u + c + i /\ r + a - u + j = r + a + g + i
      <4>1. /\ j - (u + c) \in 1 .. l /\ j - (u + c) \in 1 .. b /\ j = u + c + (j - (u + c))
            /\ r + a - u + j = r + a + g + (j - (u + c))
        BY <1>3, <2>3, <3>1
      <4> QED BY <4>1
    <3> QED BY <1>7, <1>8, <3>2
  <2> QED BY <2>1, <2>2, <2>3
<1>10. r + a - u + (u + c + l) <= Len(song)
  <2>1. l > 0 => c = g
    BY <1>3
  <2> QED BY <1>3, <1>8, <2>1
<1>11. /\ u + c + l <= height - (anchor - u) /\ u <= r + a /\ r + a + c <= r + a - u + (u + c + l)
       /\ u \in 0 .. anchor /\ (anchor <= a /\ room <= b => u + c + l = height)
  BY <1>3
<1>12. /\ Len(shown) = u + c + l /\ Len(upper) = u /\ Len(before) = r + a /\ Len(cur) = c
       /\ Len(above) = a /\ Len(below) = b /\ u + c + l \in Nat
  BY <1>2, <1>4, <1>7
<1> QED BY <1>9, <1>10, <1>11, <1>12 DEF IsPiece

\* What PanelRight says of a window.
WindowIs(window, song, before, group, height, context) ==
  \E gap \in 0 .. height : \E shown \in 0 .. height - gap, k \in 0 .. Len(before) :
    /\ k + shown <= Len(song)
    /\ \A r \in 1 .. height :
         window[r] = IF r \in gap + 1 .. gap + shown THEN song[k + r - gap] ELSE Blank
    /\ Len(before) + Len(Top(group, height)) <= k + shown
    /\ context = 0 /\ Len(song) >= height => shown = height

\* The panel shows a piece of a song in order without a hole, with the lines of the moment in it, and
\* leaves no row blank that the song could fill (panelWindow and what it calls).
THEOREM OrderedSongInPanel ==
  ASSUME NEW lines, OrderedSong(lines), NEW filter, NEW e, NEW height \in Nat, NEW context \in Nat,
         NEW threshold
  PROVE  PanelRight(lines, filter, e, height, context, threshold)
<1>1. PICK visible : visible = VisibleLines(lines, filter)
  OBVIOUS
<1>2. CASE visible = <<>>
  BY <1>1, <1>2 DEF PanelRight
<1>3. CASE visible # <<>>
  <2>1. IsPanel(lines, visible)
    BY <1>1, VisibleAre DEF IsPanel
  <2>2. PICK at : at = PanelCurrent(lines, visible, filter, e)
    OBVIOUS
  <2>3. at.first \in 1 .. Len(visible) /\ at.last \in at.first .. Len(visible) /\ Len(visible) \in Nat
    BY <1>3, <2>1, <2>2, CurrentAt, PanelHas
  <2>4. PICK group : group = CurrentRows(lines, visible, at, Counts(lines, filter, e, threshold), e)
    OBVIOUS
  <2>5. group \in Seq(Row)
    BY <2>1, <2>3, <2>4, CurrentIs
  <2>6. PICK above, before :
          /\ above = CollectRows(lines, visible, at.first - 1, -1, height, context)
          /\ before = GroupRows(lines, visible, 1, at.first - 1)
    OBVIOUS
  <2>7. PICK rest1 \in Seq(Row) :
          /\ above \in Seq(Row) /\ before = rest1 \o above
          /\ context = 0 /\ Len(above) < height => rest1 = <<>>
    <3>1. PICK start \in 0 .. Len(visible) : start = at.first - 1
      <4>1. at.first - 1 \in 0 .. Len(visible)
        BY <2>3
      <4> QED BY <4>1
    <3>2. AboveIs(above, GroupRows(lines, visible, 1, start), height, context)
      BY <2>1, <2>6, <3>1, CollectAbove
    <3> QED BY <2>6, <3>1, <3>2, Zenon DEF AboveIs
  <2>8. PICK below, after :
          /\ below = CollectRows(lines, visible, at.last + 1, 1, height, context)
          /\ after = GroupRows(lines, visible, at.last + 1, Len(visible))
    OBVIOUS
  <2>9. PICK rest2 \in Seq(Row) :
          /\ below \in Seq(Row) /\ after = below \o rest2
          /\ context = 0 /\ Len(below) < height => rest2 = <<>>
    <3>1. PICK start \in 1 .. Len(visible) + 1 : start = at.last + 1
      <4>1. at.last + 1 \in 1 .. Len(visible) + 1
        BY <2>3
      <4> QED BY <4>1
    <3>2. BelowIs(below, GroupRows(lines, visible, start, Len(visible)), height, context)
      BY <2>1, <2>8, <3>1, CollectBelow
    <3> QED BY <2>8, <3>1, <3>2, Zenon DEF BelowIs
  <2>10. PICK cur : cur = Top(group, height)
    OBVIOUS
  <2>11. cur \in Seq(Row) /\ TopOf(cur, group, height) /\ Len(cur) \in 0 .. height
    <3>1. /\ cur \in Seq(Row) /\ Len(cur) = (IF height < Len(group) THEN height ELSE Len(group))
          /\ \A i \in 1 .. Len(cur) : cur[i] = group[i]
      BY <2>5, <2>10, TopIs
    <3>2. Len(group) \in Nat
      BY <2>5, LenProperties
    <3>3. Len(cur) \in 0 .. height
      BY <3>1, <3>2
    <3> QED BY <3>1, <3>3 DEF TopOf
  <2>12. Len(above) \in Nat /\ Len(below) \in Nat /\ Len(group) \in Nat
    BY <2>5, <2>7, <2>9, LenProperties
  <2>13. PICK anchor : anchor = AnchorRows(height, context, Len(cur), Len(above), Len(below))
    OBVIOUS
  <2>14. /\ anchor \in 0 .. height - Len(cur)
         /\ context = 0 => anchor <= Len(above)
         /\ context = 0 /\ Len(above) + Len(cur) + Len(below) >= height
              => height - anchor - Len(cur) <= Len(below)
    <3>1. PICK c \in 0 .. height, a \in Nat, b \in Nat : c = Len(cur) /\ a = Len(above) /\ b = Len(below)
      BY <2>11, <2>12
    <3>2. /\ anchor \in 0 .. height - c
          /\ context = 0 => anchor <= a
          /\ context = 0 /\ a + c + b >= height => height - anchor - c <= b
      <4>1. anchor = AnchorRows(height, context, c, a, b)
        BY <2>13, <3>1
      <4> QED BY <4>1, PanelIsFilled
    <3> QED BY <3>1, <3>2
  <2>15. PICK room \in Nat : room = height - anchor - Len(cur) /\ height = anchor + Len(cur) + room /\ anchor \in Nat
    <3>1. /\ height - anchor - Len(cur) \in Nat /\ anchor \in Nat
          /\ height = anchor + Len(cur) + (height - anchor - Len(cur))
      BY <2>11, <2>14
    <3> QED BY <3>1
  <2>16. PICK upper : upper = Bottom(above, anchor)
    OBVIOUS
  <2>17. upper \in Seq(Row) /\ BottomOf(upper, above, anchor)
    <3>1. above \in Seq(Row) /\ anchor \in Nat
      BY <2>7, <2>15
    <3>2. /\ upper \in Seq(Row) /\ Len(upper) = (IF anchor < Len(above) THEN anchor ELSE Len(above))
          /\ \A i \in 1 .. Len(upper) : upper[i] = above[Len(above) - Len(upper) + i]
      BY <2>16, <3>1, BottomIs
    <3> QED BY <3>2, Zenon DEF BottomOf
  <2>18. PICK lower : lower = Top(below, room)
    OBVIOUS
  <2>19. lower \in Seq(Row) /\ TopOf(lower, below, room)
    <3>1. below \in Seq(Row) /\ room \in Nat
      BY <2>9, <2>15
    <3>2. /\ lower \in Seq(Row) /\ Len(lower) = (IF room < Len(below) THEN room ELSE Len(below))
          /\ \A i \in 1 .. Len(lower) : lower[i] = below[i]
      BY <2>18, <3>1, TopIs
    <3> QED BY <3>2, Zenon DEF TopOf
  <2>20. PICK top, shown : top = upper \o cur /\ shown = top \o lower
    OBVIOUS
  <2>21. /\ top \in Seq(Row) /\ Then(top, upper, cur)
         /\ shown \in Seq(Row) /\ Then(shown, top, lower)
    BY <2>11, <2>17, <2>19, <2>20, ThenIs
  <2>22. PICK begin, song : begin = before \o group /\ song = begin \o after
    OBVIOUS
  <2>23. /\ before \in Seq(Row) /\ Then(before, rest1, above)
         /\ after \in Seq(Row) /\ Then(after, below, rest2)
    BY <2>7, <2>9, ThenIs
  <2>24. /\ begin \in Seq(Row) /\ Then(begin, before, group)
         /\ song \in Seq(Row) /\ Then(song, begin, after)
    BY <2>5, <2>22, <2>23, ThenIs
  <2>25. /\ Len(upper) \in 0 .. anchor /\ Len(upper) <= Len(before) /\ Len(shown) \in Nat
         /\ Len(shown) <= height - (anchor - Len(upper))
         /\ Len(before) - Len(upper) + Len(shown) <= Len(song)
         /\ \A j \in 1 .. Len(shown) : shown[j] = song[Len(before) - Len(upper) + j]
         /\ Len(before) + Len(cur) <= Len(before) - Len(upper) + Len(shown)
         /\ anchor <= Len(above) /\ room <= Len(below) => Len(shown) = height
    <3>1. Around(song, before, above, group, below)
      BY <2>23, <2>24, Zenon DEF Around
    <3>2. Shows(shown, upper, cur, lower)
      BY <2>21, Zenon DEF Shows
    <3>3. /\ TopOf(cur, group, height) /\ BottomOf(upper, above, anchor) /\ TopOf(lower, below, room)
          /\ height = anchor + Len(cur) + room /\ anchor \in Nat /\ room \in Nat
      BY <2>11, <2>15, <2>17, <2>19
    <3>4. /\ IsPiece(shown, song, upper, cur, before, height, anchor)
          /\ anchor <= Len(above) /\ room <= Len(below) => Len(shown) = height
      BY <3>1, <3>2, <3>3, PieceOf
    <3> QED BY <3>4, Zenon DEF IsPiece
  <2>26. context = 0 /\ Len(song) >= height => Len(shown) = height
    <3> SUFFICES ASSUME context = 0, Len(song) >= height PROVE Len(shown) = height
      OBVIOUS
    <3>1. Len(above) + Len(cur) + Len(below) >= height
      <4>1. CASE Len(above) >= height \/ Len(below) >= height \/ Len(cur) = height
        BY <2>11, <2>12, <4>1
      <4>2. CASE ~(Len(above) >= height \/ Len(below) >= height \/ Len(cur) = height)
        <5>1. rest1 = <<>> /\ rest2 = <<>> /\ Len(<<>>) = 0
          BY <2>7, <2>9, <2>12, <4>2, EmptySeq
        <5>2. Len(cur) = Len(group)
          BY <2>11, <4>2 DEF TopOf
        <5>3. Len(before) = Len(above) /\ Len(after) = Len(below)
          BY <2>12, <2>23, <5>1 DEF Then
        <5>4. Len(song) = Len(above) + Len(group) + Len(below)
          BY <2>24, <5>3 DEF Then
        <5> QED BY <5>2, <5>4
      <4> QED BY <4>1, <4>2
    <3> QED BY <2>14, <2>15, <2>25, <3>1
  <2>27. PICK gap, k : gap = anchor - Len(upper) /\ k = Len(before) - Len(upper)
    OBVIOUS
  <2>28. gap \in 0 .. height /\ Len(shown) \in 0 .. height - gap /\ k \in 0 .. Len(before)
    <3>1. Len(before) \in Nat
      BY <2>23, LenProperties
    <3>2. PICK u, d, s, c \in Nat : u = Len(upper) /\ d = Len(before) /\ s = Len(shown) /\ c = Len(cur)
      <4>1. Len(upper) \in Nat
        BY <2>17, LenProperties
      <4>2. Len(cur) \in Nat
        BY <2>11
      <4> QED BY <2>25, <3>1, <4>1, <4>2
    <3>3. u <= anchor /\ u <= d /\ s <= height - (anchor - u) /\ anchor <= height
      <4>1. u \in 0 .. anchor /\ u <= d /\ s <= height - (anchor - u) /\ height = anchor + c + room
        BY <2>15, <2>25, <3>2
      <4> QED BY <2>15, <4>1
    <3>4. anchor - u \in 0 .. height /\ s \in 0 .. height - (anchor - u) /\ d - u \in 0 .. d
      BY <2>15, <3>3
    <3> QED BY <2>27, <3>2, <3>4
  <2>29. PICK window : window = PanelWindow(lines, filter, e, height, context, threshold)
    OBVIOUS
  <2>30. window = [r \in 1 .. height |-> IF r - gap \in DOMAIN shown THEN shown[r - gap] ELSE Blank]
    BY <1>1, <1>3, <2>2, <2>4, <2>6, <2>8, <2>10, <2>13, <2>15, <2>16, <2>18, <2>20, <2>27, <2>29,
       ZenonT(60) DEF PanelWindow
  <2>31. ASSUME NEW r \in 1 .. height
         PROVE  window[r] = IF r \in gap + 1 .. gap + Len(shown) THEN song[k + r - gap] ELSE Blank
    <3>1. DOMAIN shown = 1 .. Len(shown)
      BY <2>21, LenProperties
    <3>2. window[r] = IF r - gap \in 1 .. Len(shown) THEN shown[r - gap] ELSE Blank
      BY <2>30, <3>1
    <3>3. r - gap \in 1 .. Len(shown) <=> r \in gap + 1 .. gap + Len(shown)
      BY <2>28
    <3>4. r - gap \in 1 .. Len(shown) => shown[r - gap] = song[k + (r - gap)]
      BY <2>25, <2>27
    <3>5. k + (r - gap) = k + r - gap
      BY <2>28
    <3> QED BY <3>2, <3>3, <3>4, <3>5
  <2>32. /\ k + Len(shown) <= Len(song)
         /\ Len(before) + Len(Top(group, height)) <= k + Len(shown)
         /\ context = 0 /\ Len(song) >= height => Len(shown) = height
    BY <2>10, <2>25, <2>26, <2>27
  <2>33. song = before \o group \o after
    BY <2>22
  <2>34. WindowIs(window, song, before, group, height, context)
    <3>1. PICK n : n = Len(shown)
      OBVIOUS
    <3>2. /\ gap \in 0 .. height /\ n \in 0 .. height - gap /\ k \in 0 .. Len(before)
          /\ k + n <= Len(song)
          /\ \A r \in 1 .. height :
               window[r] = IF r \in gap + 1 .. gap + n THEN song[k + r - gap] ELSE Blank
          /\ Len(before) + Len(Top(group, height)) <= k + n
          /\ context = 0 /\ Len(song) >= height => n = height
      BY <2>28, <2>31, <2>32, <3>1
    <3> QED BY <3>2, Zenon DEF WindowIs
  <2>35. LET v == VisibleLines(lines, filter)
             a == PanelCurrent(lines, v, filter, e)
             b == GroupRows(lines, v, 1, a.first - 1)
             g == CurrentRows(lines, v, a, Counts(lines, filter, e, threshold), e)
             s == b \o g \o GroupRows(lines, v, a.last + 1, Len(v)) IN
         WindowIs(PanelWindow(lines, filter, e, height, context, threshold), s, b, g, height, context)
    BY <1>1, <2>2, <2>4, <2>6, <2>8, <2>29, <2>33, <2>34
  <2> QED BY <2>35, Zenon DEF PanelRight, WindowIs
<1> QED BY <1>2, <1>3

\* Whatever songs in order there are, and however they are looked at, the lyrics of a track
\* follow the song: the three theorems above (ActiveLines, panelWindow, buildLyricLinesJSON).
\* A song that parseSYLT left out of order is not one of them.
THEOREM LyricsFollowOrderedSong == Spec => []LyricsFollowSong
<1>1. EverySongSung
  BY ScreenAssumption, OrderedSongSungRight DEF EverySongSung
<1>2. EverySongSent
  BY ScreenAssumption, OrderedSongOnOverlay DEF EverySongSent
<1>3. EverySongShown
  BY ScreenAssumption, OrderedSongInPanel DEF EverySongShown
<1>4. LyricsFollowSong
  BY <1>1, <1>2, <1>3 DEF LyricsFollowSong
<1> QED BY <1>4, PTL

=============================================================================
