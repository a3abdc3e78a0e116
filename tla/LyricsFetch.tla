---------------------------- MODULE LyricsFetch ----------------------------
(***************************************************************************)
(* Online lyrics (internal/ui/update_lyrics_fetch.go, internal/lyrics/     *)
(* fetch).  The update loop starts a fetch, a goroutine asks the disk      *)
(* cache and then the provider, saves what it learned and reports back;    *)
(* meanwhile the listener changes tracks, asks again by hand, or leaves.   *)
(*                                                                         *)
(* A track is the signature of its tags (fetch.Sign).  A record on disk is *)
(* only what Load can tell of it.  Save is modelled by its system calls    *)
(* because every save of one signature uses one temporary name: a writer   *)
(* keeps the file it opened, wherever a rename takes that file.            *)
(***************************************************************************)
EXTENDS Naturals, FiniteSets

CONSTANTS
  Sigs,            \* signatures of the tracks the listener plays
  Fetches,         \* identities of fetches; bounds how many are started
  InitialRecords,  \* what the disk cache may hold when the program starts
  SearchAnswers    \* what the provider's search endpoint answers

None == "none"
Answers == {"hit", "instrumental", "missing", "limited", "failed"}
Whole   == {"found", "negative"}
Damaged == {"empty", "mixed"}

ASSUME FetchAssumption ==
  /\ Sigs # {} /\ None \notin Sigs /\ "local" \notin Sigs
  /\ IsFiniteSet(Fetches)
  /\ InitialRecords \subseteq {None, "stale"} \cup Whole
  /\ SearchAnswers \subseteq {"hit", "nomatch", "missing", "limited", "failed"}

VARIABLES
  current,   \* signature of the playing track, or None
  lyrics,    \* the mounted lyrics: None, "local", or the track they are for
  fetching,  \* Model.LyricsFetching
  cache,     \* the session cache
  cooling,   \* the provider cools down: RateLimit.until and ratelimit.json
  disk,      \* the record of each signature
  tmp,       \* its temporary file
  fetch      \* the fetches: signature, next step, outcome, file being written

ui     == <<current, lyrics, fetching>>
record == <<disk, tmp>>
vars   == <<ui, cache, cooling, record, fetch>>

Steps == {"idle", "load", "discard", "get", "getAgain", "search", "searchAgain", "create",
          "fill", "rename", "remove", "store", "report", "handled"}

TypeOK ==
  /\ current \in Sigs \cup {None}
  /\ lyrics \in Sigs \cup {None, "local"}
  /\ fetching \in BOOLEAN
  /\ cache \in [Sigs -> {None, "pending", "found", "notfound"}]
  /\ cooling \in BOOLEAN
  /\ disk \in [Sigs -> {None, "stale"} \cup Whole \cup Damaged]
  /\ tmp \in [Sigs -> {None} \cup Whole \cup Damaged]
  /\ fetch \in [Fetches -> [sig : Sigs \cup {None}, step : Steps,
                            outcome : {None, "found", "negative", "nothing", "failed"},
                            file : {None, "tmp", "disk"}]]

Idle == [sig |-> None, step |-> "idle", outcome |-> None, file |-> None]

Init ==
  /\ current = None /\ lyrics = None /\ fetching = FALSE
  /\ cache = [s \in Sigs |-> None]
  /\ cooling \in BOOLEAN
  /\ disk \in [Sigs -> InitialRecords]
  /\ tmp = [s \in Sigs |-> None]
  /\ fetch = [f \in Fetches |-> Idle]

At(f, step) == fetch[f].step = step
InFlight(f) == fetch[f].step \notin {"idle", "handled"}

-----------------------------------------------------------------------------
(* The update loop *)

\* Marks the signature pending, shows the indicator and starts the goroutine
\* that runs fetch.Lyrics; the callers cleared what the cache held.
Start(s) ==
  \E f \in Fetches :
    /\ At(f, "idle")
    /\ fetch' = [fetch EXCEPT ![f] = [Idle EXCEPT !.sig = s, !.step = "load"]]
    /\ cache' = [cache EXCEPT ![s] = "pending"]
    /\ fetching' = TRUE

\* A track is adopted; without a fetch of its own the indicator shows "idle".
AdoptWith(s, idle) ==
  /\ current' = s
  /\ \/ /\ lyrics' = "local" /\ fetching' = idle
        /\ UNCHANGED <<cache, fetch>>
     \/ /\ lyrics' = None
        /\ cooling \/ cache[s] # None
        /\ fetching' = idle
        /\ UNCHANGED <<cache, fetch>>
     \/ /\ lyrics' = None
        /\ ~cooling /\ cache[s] = None
        /\ Start(s)
  /\ UNCHANGED <<cooling, record>>

\* handleAudioLoaded: the track is adopted and, when it has no local lyrics,
\* fetched for unless the provider cools down or the session cache has a word
\* on it.  Tracks without tags are never fetched for, so they have no place here.
Adopt(s) == AdoptWith(s, FALSE)

\* An immediate switch, or a track that fails to play, leaves no track behind.
Unload ==
  /\ current' = None /\ lyrics' = None /\ fetching' = FALSE
  /\ UNCHANGED <<cache, cooling, record, fetch>>

\* :lrc on and :lrc switch <format> mount a sidecar.
MountLocal ==
  /\ current # None
  /\ lyrics' = "local"
  /\ UNCHANGED <<current, fetching, cache, cooling, record, fetch>>

\* :lrc switch online skips what the session cache holds, never the cooldown.
FetchManual ==
  /\ current # None /\ ~cooling
  /\ Start(current)
  /\ UNCHANGED <<current, lyrics, cooling, record>>

\* Whoever was writing a file that a rename or an unlink takes away keeps it.
Moved(s, from, to) ==
  [f \in Fetches |-> IF fetch[f].sig = s /\ fetch[f].file = from
                     THEN [fetch[f] EXCEPT !.file = to] ELSE fetch[f]]

\* :lrc refresh removes the record first, even when the cooldown then refuses. When the
\* record cannot be removed nothing changes.
Refresh ==
  /\ current # None
  /\ disk' = [disk EXCEPT ![current] = None]
  /\ \/ /\ cooling
        /\ fetch' = Moved(current, "disk", None)
        /\ UNCHANGED <<cache, fetching>>
     \/ /\ ~cooling
        /\ \E f \in Fetches :
             /\ At(f, "idle")
             /\ fetch' = [Moved(current, "disk", None) EXCEPT
                            ![f] = [Idle EXCEPT !.sig = current, !.step = "load"]]
        /\ cache' = [cache EXCEPT ![current] = "pending"]
        /\ fetching' = TRUE
  /\ UNCHANGED <<current, lyrics, cooling, tmp>>

\* A result arrives: clear its marker, stop the indicator, mount its lyrics.
Result(f, clear, stop, mount) ==
  /\ At(f, "report")
  /\ fetch' = [fetch EXCEPT ![f].step = "handled"]
  /\ cache' = IF clear THEN [cache EXCEPT ![fetch[f].sig] = None] ELSE cache
  /\ fetching' = (fetching /\ ~stop)
  /\ lyrics' = IF mount THEN fetch[f].sig ELSE lyrics
  /\ UNCHANGED <<current, cooling, record>>

Mine(f)   == fetch[f].sig = current
Found(f)  == fetch[f].outcome = "found"
Failed(f) == fetch[f].outcome = "failed"

\* Mistakes: tracks are not compared; a failure that is not for this track
\* returns before it clears the marker; an error leaves the indicator on.
HandleAnyTrack(f)    == Result(f, Failed(f), TRUE, Found(f))
HandleStaleFirst(f)  == Result(f, Mine(f) /\ Failed(f), Mine(f), Mine(f) /\ Found(f))
HandleErrorSilent(f) == Result(f, Failed(f), Mine(f) /\ Found(f), Mine(f) /\ Found(f))

\* handleFetchLyricsResult.  Only a transient failure clears the marker.
Handle(f) == Result(f, Failed(f), Mine(f), Mine(f) /\ Found(f))

-----------------------------------------------------------------------------
(* The goroutine: fetch.Lyrics *)

\* Moves on to another step with what is known so far.
Go(f, step, outcome) ==
  fetch' = [fetch EXCEPT ![f].step = step, ![f].outcome = outcome]

\* Load, first call: the record is read, and one that is stale or damaged is a miss.
LoadRecord(f) ==
  LET s == fetch[f].sig IN
  /\ At(f, "load")
  /\ \/ disk[s] \in Whole /\ Go(f, "store", disk[s])
     \/ disk[s] = None /\ Go(f, "get", None)
     \/ disk[s] \notin Whole \cup {None} /\ Go(f, "discard", None)
  /\ UNCHANGED <<ui, cache, cooling, record>>

\* Load, second call: what was read is unlinked, or what another save has put in its
\* place meanwhile. A record that cannot be unlinked stays.
Discard(f) ==
  LET s == fetch[f].sig IN
  /\ At(f, "discard")
  /\ \/ /\ disk' = [disk EXCEPT ![s] = None]
        /\ fetch' = [Moved(s, "disk", None) EXCEPT ![f].step = "get"]
     \/ Go(f, "get", None) /\ UNCHANGED disk
  /\ UNCHANGED <<ui, cache, cooling, tmp>>

\* What an answer that names a track, or fails for good, leads to.
Settle(f, answer) ==
  CASE answer = "hit" -> Go(f, "create", "found")
    [] answer \in {"instrumental", "nomatch"} -> Go(f, "create", "negative")
    [] answer = "failed" -> Go(f, "report", "failed")

\* Client.Get and Client.Search through Client.do: one 429 is waited out, the
\* second one starts the cooldown; a 404 leads to the step "lost" with "outcome".
Ask(f, step, again, answers, lost, outcome) ==
  \E answer \in answers :
    /\ fetch[f].step \in {step, again}
    /\ \/ /\ answer = "limited" /\ At(f, step)
          /\ Go(f, again, None) /\ UNCHANGED cooling
       \/ /\ answer = "limited" /\ At(f, again)
          /\ Go(f, "report", "failed") /\ cooling' = TRUE
       \/ /\ answer = "missing"
          /\ Go(f, lost, outcome) /\ UNCHANGED cooling
       \/ /\ answer \notin {"limited", "missing"}
          /\ Settle(f, answer) /\ UNCHANGED cooling
    /\ UNCHANGED <<ui, cache, record>>

\* A track the provider does not know is searched for.
Get(f) == Ask(f, "get", "getAgain", Answers, "search", None)

\* A 404 of the search itself is returned as it came: ErrNotFound, with
\* nothing stored.
Search(f) == Ask(f, "search", "searchAgain", SearchAnswers, "report", "nothing")

\* A mistake: the record itself is truncated, without a temporary file.
SaveInPlace(f) ==
  LET s == fetch[f].sig IN
  /\ At(f, "create")
  /\ disk' = [disk EXCEPT ![s] = "empty"]
  /\ fetch' = [fetch EXCEPT ![f].step = "fill", ![f].file = "disk"]
  /\ UNCHANGED <<ui, cache, cooling, tmp>>

\* Save, first call: O_CREATE|O_TRUNC of the temporary file, shared by every
\* save of this signature.  A directory that cannot be made ends the save.
SaveCreate(f) ==
  LET s == fetch[f].sig IN
  /\ At(f, "create")
  /\ \/ /\ tmp' = [tmp EXCEPT ![s] = "empty"]
        /\ fetch' = [fetch EXCEPT ![f].step = "fill", ![f].file = "tmp"]
     \/ /\ Go(f, "store", fetch[f].outcome)
        /\ UNCHANGED tmp
  /\ UNCHANGED <<ui, cache, cooling, disk>>

\* Writing over a file another save has filled leaves one of the two texts,
\* or a mixture of both.
Written(old, new) == IF old = "empty" THEN {new} ELSE {new, "mixed"}

\* Save, second call: the text goes to the opened file, wherever that is now.
\* A failed write ends the save and leaves the temporary file as it is.
SaveFill(f) ==
  LET s == fetch[f].sig
      text == fetch[f].outcome
  IN /\ At(f, "fill")
     /\ \/ /\ fetch[f].file = "tmp"
           /\ \E c \in Written(tmp[s], text) : tmp' = [tmp EXCEPT ![s] = c]
           /\ fetch' = [fetch EXCEPT ![f].step = "rename", ![f].file = None]
           /\ UNCHANGED disk
        \/ /\ fetch[f].file = "disk"
           /\ \E c \in Written(disk[s], text) : disk' = [disk EXCEPT ![s] = c]
           /\ fetch' = [fetch EXCEPT ![f].step = "rename", ![f].file = None]
           /\ UNCHANGED tmp
        \/ /\ fetch[f].file = None
           /\ fetch' = [fetch EXCEPT ![f].step = "rename"]
           /\ UNCHANGED record
        \/ /\ fetch' = [fetch EXCEPT ![f].step = "store", ![f].file = None]
           /\ UNCHANGED record
     /\ UNCHANGED <<ui, cache, cooling>>

\* Save, third call: whatever the temporary file holds becomes the record.
SaveRename(f) ==
  LET s == fetch[f].sig
      keep(g) == [g EXCEPT !.file = IF g.sig # s THEN @
                                    ELSE IF @ = "tmp" THEN "disk" ELSE None]
  IN /\ At(f, "rename")
     /\ \/ /\ tmp[s] # None
           /\ disk' = [disk EXCEPT ![s] = tmp[s]]
           /\ tmp' = [tmp EXCEPT ![s] = None]
           /\ fetch' = [g \in Fetches |->
                          IF g = f THEN [fetch[f] EXCEPT !.step = "store"]
                          ELSE keep(fetch[g])]
        \/ /\ Go(f, "remove", fetch[f].outcome)
           /\ UNCHANGED record
     /\ UNCHANGED <<ui, cache, cooling>>

\* Save, after a failed rename: the temporary file is unlinked, whosever it is.
SaveRemove(f) ==
  LET s == fetch[f].sig IN
  /\ At(f, "remove")
  /\ tmp' = [tmp EXCEPT ![s] = None]
  /\ fetch' = [Moved(s, "tmp", None) EXCEPT ![f].step = "store"]
  /\ UNCHANGED <<ui, cache, cooling, disk>>

\* Cache.Store, after which the result is on its way to the update loop.
StoreResult(f) ==
  /\ At(f, "store")
  /\ cache' = [cache EXCEPT ![fetch[f].sig] =
                 IF fetch[f].outcome = "found" THEN "found" ELSE "notfound"]
  /\ Go(f, "report", IF fetch[f].outcome = "found" THEN "found" ELSE "nothing")
  /\ UNCHANGED <<ui, cooling, record>>

-----------------------------------------------------------------------------
\* RateLimit.Blocked finds the deadline passed.
CooldownEnds ==
  /\ cooling /\ cooling' = FALSE
  /\ UNCHANGED <<ui, cache, record, fetch>>

\* The program exits, or is killed, and starts again: only files survive.
Restart ==
  /\ current' = None /\ lyrics' = None /\ fetching' = FALSE
  /\ cache' = [s \in Sigs |-> None]
  /\ fetch' = [f \in Fetches |-> IF InFlight(f)
                 THEN [fetch[f] EXCEPT !.step = "handled", !.file = None] ELSE fetch[f]]
  /\ UNCHANGED <<cooling, record>>

Run(f) ==
  \/ LoadRecord(f) \/ Discard(f) \/ Get(f) \/ Search(f)
  \/ SaveCreate(f) \/ SaveFill(f) \/ SaveRename(f) \/ SaveRemove(f)
  \/ StoreResult(f)

Next ==
  \/ \E s \in Sigs : Adopt(s)
  \/ Unload \/ MountLocal \/ FetchManual \/ Refresh
  \/ \E f \in Fetches : Run(f) \/ Handle(f)
  \/ CooldownEnds \/ Restart

Fairness == \A f \in Fetches : WF_vars(Run(f)) /\ WF_vars(Handle(f))

Spec == Init /\ [][Next]_vars /\ Fairness

-----------------------------------------------------------------------------
\* Online lyrics on screen are those of the track that plays: a result that
\* outlived its track is dropped (handleFetchLyricsResult).
LyricsOfCurrent == lyrics \in Sigs => lyrics = current

\* While the indicator turns, a fetch for the playing track is in flight; were
\* it of another track, no result would ever stop the indicator.
IndicatorIsReal ==
  fetching => \E f \in Fetches : InFlight(f) /\ fetch[f].sig = current

\* What is on screen is about the track that plays: the lyrics and the indicator, however
\* many tracks and fetches came between (update_lyrics_fetch.go, update_audio.go). Every
\* variable keeps its type meanwhile.
ScreenOfCurrent == TypeOK /\ LyricsOfCurrent /\ IndicatorIsReal

\* CachePending marks an in-flight request (cache.go).  A marker nobody will
\* clear keeps maybeFetchLyrics from the track for the rest of the session.
PendingIsReal ==
  \A s \in Sigs : cache[s] = "pending" =>
    \E f \in Fetches : InFlight(f) /\ fetch[f].sig = s

\* A crash at any point of Save leaves the old record or the new one: it takes
\* two fetches of one signature to damage a record.
DamageTakesTwo ==
  \A s \in Sigs : disk[s] \in Damaged =>
    Cardinality({f \in Fetches : fetch[f].sig = s}) > 1

\* Every fetch comes to an end the listener can see: the indicator stops.
IndicatorStops == fetching ~> ~fetching

=============================================================================
