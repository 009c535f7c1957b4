-------------------------------- MODULE Player --------------------------------
(***************************************************************************)
(* The player of the workspace: one audio element, the Track whose name it *)
(* shows, and the plays that have been asked for and wait for their answer *)
(* (src/components/shell/player-provider.tsx and the buttons that call     *)
(* it).  Nothing cancels an older play when a newer one begins or when the *)
(* player is closed, so answers are applied in the order they arrive.      *)
(*                                                                         *)
(* Grain: what JavaScript runs between two awaits is one step.  A preview  *)
(* becomes ready and a Track is withdrawn at any time, so the answer to a  *)
(* play is one of three, and so is what a page has seen before.  A Track   *)
(* has one source; volume, seeking and the focus are left out.             *)
(***************************************************************************)
EXTENDS Integers, Sequences, Functions

CONSTANTS
  PlayedTracks,  \* Tracks of the Library
  PageLength,    \* bound: Tracks on a page of the Library
  Plays,         \* bound: calls of playTrack under way at a time
  NoTrack        \* model value

ASSUME NoTrackAssumption == NoTrack \notin PlayedTracks \cup Plays
ASSUME PageAssumption == PageLength \in Nat \ {0}

\* What a page of the Library shows: published Tracks, each once.
ResultPages == UNION {Injection(1 .. n, PlayedTracks) : n \in 1 .. PageLength}

VARIABLES
  shownTrack,   \* descriptor
  shownSource,  \* source: "none", "preparing" or "ready"
  playQueue,    \* queue
  element,      \* the audio element: its src, the play that set it, is it playing
  playerError,  \* error is shown
  loading,      \* loading
  plays         \* per call: "idle", "fetch" (then its Track) or "start"

playerVars == <<shownTrack, shownSource, playQueue, element, playerError, loading, plays>>

IdlePlay == [step |-> "idle", track |-> NoTrack]

PlayerInit ==
  /\ shownTrack = NoTrack /\ shownSource = "none"
  /\ playQueue = <<>>
  /\ element = [src |-> NoTrack, by |-> NoTrack, playing |-> FALSE]
  /\ playerError = FALSE /\ loading = FALSE
  /\ plays = [p \in Plays |-> IdlePlay]

-----------------------------------------------------------------------------
(* playTrack.                                                               *)

\* Up to the fetch.
PlayTrack(p, t) ==
  /\ plays[p].step = "idle"
  /\ plays' = [plays EXCEPT ![p] = [step |-> "fetch", track |-> t]]
  /\ loading' = TRUE /\ playerError' = FALSE
  /\ UNCHANGED <<shownTrack, shownSource>>

\* The fetch throws or is not ok: withdrawn, no permission, no connection.
PlaybackRefused(p) ==
  /\ plays[p].step = "fetch"
  /\ playerError' = TRUE /\ loading' = FALSE
  /\ plays' = [plays EXCEPT ![p] = IdlePlay]
  /\ UNCHANGED <<shownTrack, shownSource, playQueue, element>>

\* Mutant: the Track is shown as one that plays.
ShowPreparingSilently(p) ==
  /\ plays[p].step = "fetch"
  /\ shownTrack' = plays[p].track /\ shownSource' = "preparing"
  /\ loading' = FALSE
  /\ plays' = [plays EXCEPT ![p] = IdlePlay]
  /\ UNCHANGED <<playQueue, element, playerError>>

\* The preview is not there yet: the Track is shown, the element goes on with what it has.
ShowPreparing(p) ==
  /\ plays[p].step = "fetch"
  /\ shownTrack' = plays[p].track /\ shownSource' = "preparing"
  /\ playerError' = TRUE /\ loading' = FALSE
  /\ plays' = [plays EXCEPT ![p] = IdlePlay]
  /\ UNCHANGED <<playQueue, element>>

\* selectSource: the element takes the new source and is asked to play.
SelectSource(p) ==
  /\ plays[p].step = "fetch"
  /\ shownTrack' = plays[p].track /\ shownSource' = "ready"
  /\ playerError' = FALSE
  /\ element' = [src |-> plays[p].track, by |-> p, playing |-> TRUE]
  /\ plays' = [plays EXCEPT ![p].step = "start"]
  /\ UNCHANGED <<playQueue, loading>>

\* The promise of play() settles: it is rejected when the browser refuses, and when the
\* element was paused or given another source meanwhile.
PlaySettles(p) ==
  /\ plays[p].step = "start"
  /\ \/ /\ element.by = p /\ element.playing
        /\ UNCHANGED <<element, playerError>>
     \/ /\ playerError' = TRUE
        /\ element' = IF element.by = p THEN [element EXCEPT !.playing = FALSE] ELSE element
  /\ loading' = FALSE
  /\ plays' = [plays EXCEPT ![p] = IdlePlay]
  /\ UNCHANGED <<shownTrack, shownSource, playQueue>>

-----------------------------------------------------------------------------
(* Who calls it.                                                            *)

\* A result of the Library: its button pauses the Track that is shown.
PlayFromLibrary(p, page, t) ==
  /\ ~loading /\ shownTrack # t /\ t \in Range(page)
  /\ playQueue' = page
  /\ PlayTrack(p, t) /\ UNCHANGED element

\* The page of a Track: its buttons do not wait for the player.
PlayFromTrackPage(p, t) ==
  /\ playQueue' = <<t>>
  /\ PlayTrack(p, t) /\ UNCHANGED element

\* findIndex: 0 here when the Track is not in the queue.
QueueIndex ==
  IF shownTrack \in Range(playQueue)
  THEN CHOOSE i \in DOMAIN playQueue : playQueue[i] = shownTrack
  ELSE 0

\* move, from a button that is enabled: there is a Track before or after the one shown.
Move(p, direction) ==
  /\ shownTrack # NoTrack /\ QueueIndex # 0
  /\ QueueIndex + direction \in DOMAIN playQueue
  /\ PlayTrack(p, playQueue[QueueIndex + direction]) /\ UNCHANGED <<playQueue, element>>

\* The list of the queue.
SelectQueueItem(p, i) ==
  /\ shownTrack # NoTrack /\ i \in DOMAIN playQueue /\ i # QueueIndex
  /\ PlayTrack(p, playQueue[i]) /\ UNCHANGED <<playQueue, element>>

\* onEnded: without a queue, or at its end, nothing follows.  A Track that another list
\* holds is followed by the first of this one.
TrackEnds(p) ==
  /\ element.playing /\ \A q \in Plays : plays[q].step = "start" => element.by # q
  /\ element' = [element EXCEPT !.playing = FALSE]
  /\ IF shownTrack # NoTrack /\ QueueIndex + 1 \in DOMAIN playQueue
       THEN PlayTrack(p, playQueue[QueueIndex + 1]) /\ UNCHANGED playQueue
       ELSE UNCHANGED <<shownTrack, shownSource, playQueue, playerError, loading, plays>>

-----------------------------------------------------------------------------
(* The other controls, and what the element reports.                        *)

\* togglePlayback.
TogglePlayback ==
  /\ shownTrack # NoTrack
  /\ \/ /\ element.playing \/ element.src # NoTrack
        /\ element' = [element EXCEPT !.playing = ~@]
        /\ UNCHANGED playerError
     \/ /\ ~element.playing
        /\ playerError' = TRUE /\ UNCHANGED element
  /\ UNCHANGED <<shownTrack, shownSource, playQueue, loading, plays>>

\* onError: the stream breaks off, for one because the Track is withdrawn.
AudioFails ==
  /\ element.playing
  /\ element' = [element EXCEPT !.playing = FALSE]
  /\ playerError' = TRUE
  /\ UNCHANGED <<shownTrack, shownSource, playQueue, loading, plays>>

\* Mutant: the element plays on.
ClosePlaying ==
  /\ shownTrack' = NoTrack /\ shownSource' = "none"
  /\ playQueue' = <<>> /\ playerError' = FALSE
  /\ UNCHANGED <<element, loading, plays>>

\* onClose's effects; a play that is under way opens the player again.
Close ==
  /\ element' = [element EXCEPT !.playing = FALSE]
  /\ shownTrack' = NoTrack /\ shownSource' = "none"
  /\ playQueue' = <<>> /\ playerError' = FALSE
  /\ UNCHANGED <<loading, plays>>

PlayerNext ==
  \/ \E p \in Plays :
       \/ PlaybackRefused(p) \/ ShowPreparing(p) \/ SelectSource(p) \/ PlaySettles(p)
       \/ \E t \in PlayedTracks :
            \/ PlayFromTrackPage(p, t)
            \/ \E page \in ResultPages : PlayFromLibrary(p, page, t)
       \/ \E direction \in {-1, 1} : Move(p, direction)
       \/ \E i \in DOMAIN playQueue : SelectQueueItem(p, i)
       \/ TrackEnds(p)
  \/ TogglePlayback \/ AudioFails
  \/ shownTrack # NoTrack /\ Close

PlayerSpec == PlayerInit /\ [][PlayerNext]_playerVars

-----------------------------------------------------------------------------
\* Every variable is in its domain.
PlayerTypeOK ==
  /\ shownTrack \in PlayedTracks \cup {NoTrack}
  /\ shownSource \in {"none", "preparing", "ready"}
  /\ playQueue = <<>> \/ playQueue \in ResultPages \cup {<<t>> : t \in PlayedTracks}
  /\ element \in [src : PlayedTracks \cup {NoTrack}, by : Plays \cup {NoTrack}, playing : BOOLEAN]
  /\ playerError \in BOOLEAN /\ loading \in BOOLEAN
  /\ plays \in [Plays -> [step : {"idle", "fetch", "start"}, track : PlayedTracks \cup {NoTrack}]]

\* Nothing sounds without a player to stop it, and what sounds is the Track whose name the
\* player shows, or else it says that there is a problem or is about to, whatever order the
\* answers come in; and the buttons that wait for the player are not left waiting
\* (player-provider.tsx, playTrack, selectSource, onClose).
PlayerTellsWhatSounds ==
  LET underWay == \E p \in Plays : plays[p].step # "idle" IN
  /\ element.playing => shownTrack # NoTrack
  /\ element.playing /\ element.src # shownTrack => playerError \/ underWay
  /\ loading => underWay
=============================================================================
