------------------------------ MODULE StoryPlayer ------------------------------
(***************************************************************************)
(* StoryExplorerViewController: plays the stories of one user in turn.     *)
(* A video is timed as soon as it is played, an image once it is loaded;   *)
(* a timer that runs out plays the next story.  Taps, long presses, swipes *)
(* and the sheet of viewers come between; each stops `self.timer`, which   *)
(* is the LAST timer started, and none of them stops an image from         *)
(* loading.                                                                *)
(***************************************************************************)
EXTENDS Integers, FiniteSets

CONSTANTS
  Total,        \* totalStories
  Kinds,        \* the media types the stories may have
  MaxGestures,  \* bound: taps, presses, swipes
  MaxFailures   \* bound: images that fail to load, presses that are cancelled

ASSUME TotalAssumption == Total \in Nat \ {0}
ASSUME KindsAssumption == Kinds \subseteq {"IMAGE", "VIDEO"} /\ Kinds # {}
ASSUME LimitsAssumption == MaxGestures \in Nat /\ MaxFailures \in Nat

Stories == 0..(Total - 1)

VARIABLES
  kind,      \* the media type of each story
  index,     \* the story playing, or the one a gesture left for: -1, Total
  stage,     \* what the user sees: a story, a story under his finger, the
             \* sheet of viewers; or the screen is gone, or the app stopped
  loading,   \* storyImageView has a load whose completion is still to come
  live,      \* self.timer is running
  orphans,   \* timers that run although self.timer no longer names them
  viewed,    \* stories reported as viewed (addViews)
  gestures, failures   \* counters against the bounds

vars == <<kind, index, stage, loading, live, orphans, viewed, gestures, failures>>

Stages == {"playing", "held", "viewers", "quit", "trapped"}

(***************************************************************************)
(* playStoryAt(i), called with `running` telling whether self.timer still  *)
(* runs, `others` the timers it does not name, `now` the stage.  Starting  *)
(* a timer (generateProgess) overwrites self.timer without stopping it; a  *)
(* new image load replaces the one before it, a video does not cancel it.  *)
(* The range test is `index == totalStories || index < 0`: beyond that,    *)
(* stories[index] is a runtime trap.                                       *)
(***************************************************************************)
Quits(i) == i = Total \/ i < 0

\* Mutant: the view is reported before the range test
PlayStoryAtViewedFirst(i, running, others, now) ==
  /\ index' = i /\ viewed' = viewed \cup {i}
  /\ \/ /\ Quits(i)
        /\ stage' = "quit" /\ live' = FALSE /\ orphans' = others /\ UNCHANGED loading
     \/ /\ i \in Stories
        /\ stage' = now /\ live' = TRUE /\ orphans' = others /\ UNCHANGED loading

PlayStoryAt(i, running, others, now) ==
  /\ index' = i
  /\ \/ /\ Quits(i)
        /\ stage' = "quit" /\ live' = FALSE /\ orphans' = others
        /\ UNCHANGED <<loading, viewed>>
     \/ /\ i > Total
        /\ stage' = "trapped" /\ live' = FALSE /\ orphans' = 0 /\ loading' = FALSE
        /\ UNCHANGED viewed
     \/ /\ i \in Stories /\ kind[i] = "IMAGE"
        /\ stage' = now /\ live' = running /\ orphans' = others /\ loading' = TRUE
        /\ viewed' = viewed \cup {i}
     \/ /\ i \in Stories /\ kind[i] = "VIDEO"
        /\ stage' = now /\ live' = TRUE
        /\ orphans' = IF running THEN others + 1 ELSE others
        /\ viewed' = viewed \cup {i}
        /\ UNCHANGED loading

\* viewDidLoad
Init ==
  /\ kind \in [Stories -> Kinds]
  /\ index = 0 /\ stage = "playing"
  /\ loading = (kind[0] = "IMAGE") /\ live = (kind[0] = "VIDEO")
  /\ orphans = 0 /\ viewed = {0}
  /\ gestures = 0 /\ failures = 0

-----------------------------------------------------------------------------
(* Gestures reach the controller while it is in front.                     *)

Gesture(from) ==
  /\ stage = from
  /\ gestures < MaxGestures /\ gestures' = gestures + 1

\* tapGestureHandler: left half back, right half on
Tap(step) ==
  /\ Gesture("playing")
  /\ PlayStoryAt(index + step, FALSE, orphans, "playing")
  /\ UNCHANGED <<kind, failures>>

\* Mutant: .began does not stop the timer
HoldRunning ==
  /\ Gesture("playing")
  /\ stage' = "held"
  /\ UNCHANGED <<kind, index, loading, live, orphans, viewed, failures>>

\* longPressHandler, .began and .ended
Hold ==
  /\ Gesture("playing")
  /\ stage' = "held" /\ live' = FALSE
  /\ UNCHANGED <<kind, index, loading, orphans, viewed, failures>>

Release ==
  /\ stage = "held"
  /\ PlayStoryAt(index, FALSE, orphans, "playing")
  /\ UNCHANGED <<kind, gestures, failures>>

\* The system takes the touch away: no branch is for .cancelled, the story is
\* no longer held and stays as paused as it was
HoldCancelled ==
  /\ stage = "held" /\ stage' = "playing"
  /\ failures < MaxFailures /\ failures' = failures + 1
  /\ UNCHANGED <<kind, index, loading, live, orphans, viewed, gestures>>

\* Mutant: quitThisView does not invalidate its resources
SwipeDownRunning ==
  /\ Gesture("playing")
  /\ stage' = "quit"
  /\ UNCHANGED <<kind, index, loading, live, orphans, viewed, failures>>

\* quitThisView
SwipeDown ==
  /\ Gesture("playing")
  /\ stage' = "quit" /\ live' = FALSE
  /\ UNCHANGED <<kind, index, loading, orphans, viewed, failures>>

\* showMyViews, on a story of one's own that somebody has viewed
SwipeUp ==
  /\ Gesture("playing")
  /\ stage' = "viewers" /\ live' = FALSE
  /\ UNCHANGED <<kind, index, loading, orphans, viewed, failures>>

\* StoryViewByViewController went away and calls resume
Resume ==
  /\ stage = "viewers"
  /\ PlayStoryAt(index, FALSE, orphans, "playing")
  /\ UNCHANGED <<kind, gestures, failures>>

-----------------------------------------------------------------------------
(* Completions and timers come in whatever stage the screen is in; once    *)
(* dismissed it is kept alive by the closures that refer to it.            *)

\* Mutant: the completion does not start the timer
ImageLoadedUntimed ==
  /\ loading /\ loading' = FALSE
  /\ UNCHANGED <<kind, index, stage, live, orphans, viewed, gestures, failures>>

ImageLoaded ==
  /\ loading /\ loading' = FALSE
  /\ live' = TRUE
  /\ orphans' = IF live THEN orphans + 1 ELSE orphans
  /\ UNCHANGED <<kind, index, stage, viewed, gestures, failures>>

\* No timer is started: the story stays until the user moves on
ImageFailed ==
  /\ loading /\ loading' = FALSE
  /\ failures < MaxFailures /\ failures' = failures + 1
  /\ UNCHANGED <<kind, index, stage, live, orphans, viewed, gestures>>

\* Mutant: the next story is counted on twice
TimerEndsSkipping ==
  /\ live
  /\ PlayStoryAt(index + 2, FALSE, orphans, stage)
  /\ UNCHANGED <<kind, gestures, failures>>

\* Mutant: the timer repeats after it has run out
TimerEndsRepeating ==
  /\ live
  /\ PlayStoryAt(index + 1, TRUE, orphans, stage)
  /\ UNCHANGED <<kind, gestures, failures>>

TimerEnds ==
  /\ live
  /\ PlayStoryAt(index + 1, FALSE, orphans, stage)
  /\ UNCHANGED <<kind, gestures, failures>>

OrphanEnds ==
  /\ orphans > 0
  /\ PlayStoryAt(index + 1, live, orphans - 1, stage)
  /\ UNCHANGED <<kind, gestures, failures>>

-----------------------------------------------------------------------------
User == Tap(-1) \/ Tap(1) \/ Hold \/ SwipeDown \/ SwipeUp

Next ==
  \/ User \/ Release \/ HoldCancelled \/ Resume
  \/ ImageLoaded \/ ImageFailed \/ TimerEnds \/ OrphanEnds

Spec == Init /\ [][Next]_vars

\* Timers run out and loads complete; fingers are lifted, sheets are closed
FairSpec ==
  Spec /\ WF_vars(Release) /\ WF_vars(Resume)
       /\ WF_vars(ImageLoaded \/ ImageFailed) /\ WF_vars(TimerEnds)

-----------------------------------------------------------------------------
(* Properties.                                                             *)

(* The views reported are of stories there are; the index may leave them,  *)
(* where a gesture left for -1 or Total.                                   *)
TypeOK ==
  /\ kind \in [Stories -> Kinds]
  /\ index \in Int /\ stage \in Stages
  /\ loading \in BOOLEAN /\ live \in BOOLEAN /\ orphans \in Nat
  /\ viewed \subseteq Stories
  /\ gestures \in 0..MaxGestures /\ failures \in 0..MaxFailures

(* Whatever gestures, loads and leftover timers do, nobody gets past a     *)
(* story without its view having been reported: at the end all are viewed. *)
NoStorySkipped == \A i \in Stories : i <= index => i \in viewed

AllImages == kind \in [Stories -> {"IMAGE"}]
AllVideos == kind \in [Stories -> {"VIDEO"}]

(* A load and a timer take turns as long as all stories are images: none   *)
(* is ever lost track of, whatever the user does while an image loads.     *)
OneTimer == AllImages => orphans = 0

(* Holding pauses: no timer runs under the finger.                         *)
HeldMeansPaused == stage = "held" => ~live /\ orphans = 0

(* The app does not stop on an index beyond the stories.                   *)
NeverTraps == stage # "trapped"

(* Dismissed means over: a view that was swiped away plays no further      *)
(* story and reports no further view.                                      *)
DismissedStaysDismissed == [][stage = "quit" => index' = index /\ viewed' = viewed]_vars

(* What README says of gestures holds of videos, which are timed as soon   *)
(* as they play, so that every gesture stops the only timer: a held story  *)
(* is paused, and no sequence of taps gets beyond the stories.             *)
VideosObeyGestures == AllVideos => HeldMeansPaused /\ NeverTraps

(* A dismissed player of videos plays and reports nothing any more.        *)
DismissedVideosStop ==
  [][AllVideos /\ stage = "quit" => index' = index /\ viewed' = viewed]_vars

(* Left alone, the player gets through: every story gives way to the next  *)
(* one or to the end, unless an image failed to load or a press was        *)
(* cancelled, after which nothing but a gesture goes on.                   *)
PlayerMovesOn ==
  \A i \in Stories :
    (stage = "playing" /\ index = i) ~> (index # i \/ stage = "quit" \/ failures > 0)
=============================================================================
