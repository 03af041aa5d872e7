--------------------------- MODULE StoryPlayerProofs ---------------------------
(***************************************************************************)
(* Proofs about StoryPlayer: its type invariant, and that no story is      *)
(* passed without its view having been reported, for every number of       *)
(* stories, every mix of images and videos and any number of gestures.     *)
(***************************************************************************)
EXTENDS StoryPlayer, TLAPS

IInv == TypeOK /\ NoStorySkipped

\* The stories up to i have all been viewed before story i itself is played.
Reached(i) == \A j \in Stories : j < i => j \in viewed

(* Playing a story one has reached keeps the invariant: the story itself   *)
(* is reported now.  Leaving at either end and the trap report nothing.    *)
LEMMA PlayKeeps ==
  ASSUME IInv, NEW i \in Int, Reached(i), NEW running \in BOOLEAN,
         NEW others \in Nat, NEW now \in Stages, PlayStoryAt(i, running, others, now)
  PROVE  /\ index' \in Int /\ stage' \in Stages /\ loading' \in BOOLEAN
         /\ live' \in BOOLEAN /\ orphans' \in Nat /\ viewed' \subseteq Stories
         /\ NoStorySkipped'
<1>0. /\ loading \in BOOLEAN /\ live \in BOOLEAN /\ viewed \subseteq Stories
      /\ TRUE \in BOOLEAN /\ FALSE \in BOOLEAN
      /\ {"quit", "trapped"} \subseteq Stages
      /\ 0 \in Nat /\ others + 1 \in Nat
  BY DEF IInv, TypeOK, Stages
<1>1. /\ index' \in Int /\ stage' \in Stages /\ loading' \in BOOLEAN
      /\ live' \in BOOLEAN /\ orphans' \in Nat /\ viewed' \subseteq Stories
  <2>1. CASE Quits(i) /\ stage' = "quit" /\ live' = FALSE /\ orphans' = others
             /\ UNCHANGED <<loading, viewed>>
    BY <1>0, <2>1 DEF PlayStoryAt
  <2>2. CASE stage' = "trapped" /\ live' = FALSE /\ orphans' = 0 /\ loading' = FALSE
             /\ UNCHANGED viewed
    BY <1>0, <2>2 DEF PlayStoryAt
  <2>3. CASE i \in Stories /\ stage' = now /\ live' = running /\ orphans' = others
             /\ loading' = TRUE /\ viewed' = viewed \cup {i}
    BY <1>0, <2>3 DEF PlayStoryAt
  <2>4. CASE i \in Stories /\ stage' = now /\ live' = TRUE
             /\ orphans' = (IF running THEN others + 1 ELSE others)
             /\ viewed' = viewed \cup {i} /\ UNCHANGED loading
    BY <1>0, <2>4 DEF PlayStoryAt
  <2>5. QED
    BY <2>1, <2>2, <2>3, <2>4 DEF PlayStoryAt
<1>2. viewed \subseteq viewed' /\ index' = i /\ (i \in Stories => i \in viewed')
  BY TotalAssumption DEF PlayStoryAt, Quits, Stories
<1>3. ASSUME NEW j \in Stories, j <= i
      PROVE  j \in viewed'
  <2>1. j \in Int
    BY DEF Stories
  <2>2. CASE j < i
    BY <1>2, <2>2 DEF Reached
  <2>3. CASE j = i
    BY <1>2, <2>3
  <2>4. QED
    BY <1>3, <2>1, <2>2, <2>3
<1>4. QED
  BY <1>1, <1>2, <1>3 DEF NoStorySkipped

(* The story that plays and the one after it have been reached.            *)
LEMMA NextReached ==
  ASSUME IInv
  PROVE  index \in Int /\ \A i \in Int : i <= index + 1 => Reached(i)
BY DEF IInv, TypeOK, NoStorySkipped, Reached, Stories

LEMMA InitIInv == Init => IInv
<1> SUFFICES ASSUME Init PROVE IInv
  OBVIOUS
<1>1. 0 \in Stories
  BY TotalAssumption DEF Stories
<1>2. TypeOK
  BY <1>1, LimitsAssumption DEF Init, TypeOK, Stages
<1>3. NoStorySkipped
  BY DEF Init, NoStorySkipped, Stories
<1>4. QED
  BY <1>2, <1>3 DEF IInv

LEMMA StepIInv == IInv /\ [Next]_vars => IInv'
<1> SUFFICES ASSUME IInv, [Next]_vars PROVE IInv'
  OBVIOUS
<1>0. /\ TypeOK /\ NoStorySkipped
      /\ index \in Int /\ \A i \in Int : i <= index + 1 => Reached(i)
  BY NextReached DEF IInv
<1>1. ASSUME NEW step \in {-1, 1}, Tap(step)
      PROVE  IInv'
  <2>1. Reached(index + step) /\ index + step \in Int
    BY <1>0
  <2>2. /\ PlayStoryAt(index + step, FALSE, orphans, "playing")
        /\ orphans \in Nat /\ "playing" \in Stages
    BY <1>0, <1>1 DEF Tap, TypeOK, Stages
  <2>3. gestures' \in 0..MaxGestures /\ kind' = kind /\ failures' = failures
    BY <1>0, <1>1, LimitsAssumption DEF Tap, Gesture, TypeOK
  <2>4. QED
    BY <1>0, <2>1, <2>2, <2>3, PlayKeeps DEF IInv, TypeOK
<1>2. CASE Hold \/ SwipeDown \/ SwipeUp
  <2>1. TypeOK'
    <3>1. gestures' \in 0..MaxGestures
      BY <1>0, <1>2, LimitsAssumption DEF Hold, SwipeDown, SwipeUp, Gesture, TypeOK
    <3>2. stage' \in Stages /\ live' \in BOOLEAN
      BY <1>2 DEF Hold, SwipeDown, SwipeUp, Stages
    <3>3. UNCHANGED <<kind, index, loading, orphans, viewed, failures>>
      BY <1>2 DEF Hold, SwipeDown, SwipeUp
    <3>4. QED
      BY <1>0, <3>1, <3>2, <3>3, Zenon DEF TypeOK, Stories
  <2>2. NoStorySkipped'
    BY <1>0, <1>2 DEF Hold, SwipeDown, SwipeUp, NoStorySkipped
  <2>3. QED
    BY <2>1, <2>2 DEF IInv
<1>3. CASE Release \/ Resume
  <2>1. Reached(index)
    BY <1>0
  <2>2. /\ PlayStoryAt(index, FALSE, orphans, "playing")
        /\ orphans \in Nat /\ "playing" \in Stages
        /\ UNCHANGED <<kind, gestures, failures>>
    BY <1>0, <1>3 DEF Release, Resume, TypeOK, Stages
  <2>3. QED
    BY <1>0, <2>1, <2>2, PlayKeeps DEF IInv, TypeOK
<1>4. CASE ImageLoaded \/ ImageFailed
  <2>1. TypeOK'
    <3>1. failures' \in 0..MaxFailures /\ orphans' \in Nat
      BY <1>0, <1>4, LimitsAssumption DEF ImageLoaded, ImageFailed, TypeOK
    <3>2. loading' \in BOOLEAN /\ live' \in BOOLEAN
      BY <1>0, <1>4, Zenon DEF ImageLoaded, ImageFailed, TypeOK
    <3>3. UNCHANGED <<kind, index, stage, viewed, gestures>>
      BY <1>4 DEF ImageLoaded, ImageFailed
    <3>4. QED
      BY <1>0, <3>1, <3>2, <3>3, Zenon DEF TypeOK, Stories
  <2>2. NoStorySkipped'
    BY <1>0, <1>4 DEF ImageLoaded, ImageFailed, NoStorySkipped
  <2>3. QED
    BY <2>1, <2>2 DEF IInv
<1>5. CASE TimerEnds
  <2>1. Reached(index + 1) /\ index + 1 \in Int
    BY <1>0
  <2>2. /\ PlayStoryAt(index + 1, FALSE, orphans, stage)
        /\ orphans \in Nat /\ stage \in Stages
        /\ UNCHANGED <<kind, gestures, failures>>
    BY <1>0, <1>5 DEF TimerEnds, TypeOK
  <2>3. QED
    BY <1>0, <2>1, <2>2, PlayKeeps DEF IInv, TypeOK
<1>6. CASE OrphanEnds
  <2>1. Reached(index + 1) /\ index + 1 \in Int
    BY <1>0
  <2>2. /\ PlayStoryAt(index + 1, live, orphans - 1, stage)
        /\ live \in BOOLEAN /\ orphans - 1 \in Nat /\ stage \in Stages
        /\ UNCHANGED <<kind, gestures, failures>>
    BY <1>0, <1>6 DEF OrphanEnds, TypeOK
  <2>3. QED
    BY <1>0, <2>1, <2>2, PlayKeeps DEF IInv, TypeOK
<1>7. CASE HoldCancelled
  <2>1. TypeOK'
    <3>1. failures' \in 0..MaxFailures /\ stage' \in Stages
      BY <1>0, <1>7, LimitsAssumption DEF HoldCancelled, TypeOK, Stages
    <3>2. UNCHANGED <<kind, index, loading, live, orphans, viewed, gestures>>
      BY <1>7 DEF HoldCancelled
    <3>3. QED
      BY <1>0, <3>1, <3>2, Zenon DEF TypeOK, Stories
  <2>2. NoStorySkipped'
    BY <1>0, <1>7 DEF HoldCancelled, NoStorySkipped
  <2>3. QED
    BY <2>1, <2>2 DEF IInv
<1>8. CASE UNCHANGED vars
  BY <1>0, <1>8 DEF vars, IInv, TypeOK, NoStorySkipped
<1>9. QED
  BY <1>1, <1>2, <1>3, <1>4, <1>5, <1>6, <1>7, <1>8 DEF Next, User

-----------------------------------------------------------------------------
(* Both parts of the invariant hold in every reachable state.              *)
THEOREM Invariance == Spec => []IInv
<1>1. Init => IInv
  BY InitIInv
<1>2. IInv /\ [Next]_vars => IInv'
  BY StepIInv
<1>3. QED
  BY <1>1, <1>2, PTL DEF Spec

(* Every variable keeps its type.                                          *)
THEOREM TypeCorrect == Spec => []TypeOK
<1>1. IInv => TypeOK
  BY DEF IInv
<1>2. QED
  BY <1>1, Invariance, PTL

(* No story is passed, by tap, timer or leftover timer, before a view of   *)
(* it was reported; whoever reaches the end has been counted everywhere.   *)
THEOREM AllStoriesViewed == Spec => []NoStorySkipped
<1>1. IInv => NoStorySkipped
  BY DEF IInv
<1>2. QED
  BY <1>1, Invariance, PTL

(* No step changes the media types.                                        *)
LEMMA KindsStay == [Next]_vars => kind' = kind
  BY DEF Next, User, Tap, Hold, Release, HoldCancelled, SwipeDown, SwipeUp, Resume, ImageLoaded,
         ImageFailed, TimerEnds, OrphanEnds, vars

-----------------------------------------------------------------------------
(* Stories of images only.  A load and a timer take turns, so the timer    *)
(* that a finished load starts never overwrites a running one.             *)

ImageInv == TypeOK /\ AllImages /\ orphans = 0 /\ (loading => ~live)

(* At first either the image of story 0 loads or its timer runs.           *)
LEMMA ImageInit == Init /\ AllImages => ImageInv
<1> SUFFICES ASSUME Init, AllImages PROVE ImageInv
  OBVIOUS
<1>1. TypeOK
  BY InitIInv DEF IInv
<1>2. 0 \in Stories
  BY TotalAssumption DEF Stories
<1>3. QED
  BY <1>1, <1>2 DEF Init, ImageInv, AllImages

LEMMA ImagePlay ==
  ASSUME ImageInv, NEW i, NEW now, PlayStoryAt(i, FALSE, orphans, now)
  PROVE  orphans' = 0 /\ ~live'
<1>1. CASE i \in Stories /\ kind[i] = "VIDEO"
  BY <1>1 DEF ImageInv, AllImages
<1>2. QED
  BY <1>1 DEF PlayStoryAt, ImageInv, AllImages

LEMMA ImageStep ==
  ASSUME IInv, ImageInv, [Next]_vars
  PROVE  ImageInv'
<1>1. TypeOK'
  BY StepIInv DEF IInv
<1>2. kind' = kind
  BY KindsStay
<1>3. orphans' = 0 /\ (loading' => ~live')
  <2>1. ASSUME NEW step \in {-1, 1}, Tap(step)
        PROVE  orphans' = 0 /\ ~live'
    BY <2>1, ImagePlay DEF Tap
  <2>2. CASE Hold \/ SwipeDown \/ SwipeUp
    BY <2>2 DEF Hold, SwipeDown, SwipeUp, ImageInv
  <2>3. CASE Release \/ Resume
    BY <2>3, ImagePlay DEF Release, Resume
  <2>4. CASE ImageLoaded
    BY <2>4 DEF ImageLoaded, ImageInv
  <2>5. CASE ImageFailed
    BY <2>5 DEF ImageFailed, ImageInv
  <2>6. CASE TimerEnds
    BY <2>6, ImagePlay DEF TimerEnds
  <2>7. CASE OrphanEnds
    BY <2>7 DEF OrphanEnds, ImageInv
  <2>8. CASE HoldCancelled
    BY <2>8 DEF HoldCancelled, ImageInv
  <2>9. CASE UNCHANGED vars
    BY <2>9 DEF vars, ImageInv
  <2>10. QED
    BY <2>1, <2>2, <2>3, <2>4, <2>5, <2>6, <2>7, <2>8, <2>9 DEF Next, User
<1>4. QED
  BY <1>1, <1>2, <1>3 DEF ImageInv, AllImages

(* With images only, no timer is ever lost track of, whatever the user     *)
(* does while an image loads.                                              *)
THEOREM ImagesOneTimer == Spec => []OneTimer
<1>1. Init => (AllImages => ImageInv)
  BY ImageInit
<1>2. IInv /\ (AllImages => ImageInv) /\ [Next]_vars => (AllImages => ImageInv)'
  BY ImageStep, KindsStay DEF AllImages
<1>3. (AllImages => ImageInv) => OneTimer
  BY DEF ImageInv, OneTimer
<1>4. QED
  BY <1>1, <1>2, <1>3, Invariance, PTL DEF Spec

-----------------------------------------------------------------------------
(* Stories of videos only.  Nothing loads, so the one timer runs only      *)
(* while a story plays and every gesture stops it.                         *)

VideoInv ==
  /\ TypeOK /\ AllVideos /\ ~loading /\ orphans = 0
  /\ live => stage = "playing"
  /\ stage # "trapped"
  /\ stage # "quit" => index \in Stories

(* At first the timer of story 0 runs and nothing loads.                   *)
LEMMA VideoInit == Init /\ AllVideos => VideoInv
<1> SUFFICES ASSUME Init, AllVideos PROVE VideoInv
  OBVIOUS
<1>1. TypeOK
  BY InitIInv DEF IInv
<1>2. 0 \in Stories
  BY TotalAssumption DEF Stories
<1>3. QED
  BY <1>1, <1>2 DEF Init, VideoInv, AllVideos

\* What a step must establish besides the types
VideoNow ==
  /\ ~loading /\ orphans = 0 /\ (live => stage = "playing")
  /\ stage # "trapped" /\ (stage # "quit" => index \in Stories)

LEMMA VideoPlay ==
  ASSUME VideoInv, NEW i \in -1..Total, PlayStoryAt(i, FALSE, orphans, "playing")
  PROVE  VideoNow'
<1>1. i \in Int /\ ~(i > Total) /\ (~Quits(i) => i \in Stories)
  BY TotalAssumption DEF Quits, Stories
<1>2. CASE Quits(i) /\ index' = i /\ stage' = "quit" /\ live' = FALSE /\ orphans' = orphans
           /\ UNCHANGED loading
  BY <1>2 DEF VideoNow, VideoInv
<1>3. CASE i \in Stories /\ index' = i /\ stage' = "playing" /\ orphans' = orphans
           /\ UNCHANGED loading
  BY <1>3 DEF VideoNow, VideoInv
<1>4. CASE i \in Stories /\ kind[i] = "IMAGE"
  BY <1>4 DEF VideoInv, AllVideos
<1>5. QED
  BY <1>1, <1>2, <1>3, <1>4 DEF PlayStoryAt

LEMMA VideoStep ==
  ASSUME IInv, VideoInv, [Next]_vars
  PROVE  /\ VideoInv'
         /\ stage = "quit" => UNCHANGED vars
<1>1. TypeOK'
  BY StepIInv DEF IInv
<1>2. kind' = kind
  BY KindsStay
<1>3. stage # "quit" => index \in Int /\ {index - 1, index, index + 1} \subseteq -1..Total
  BY TotalAssumption DEF VideoInv, Stories
<1>4. VideoNow' /\ (stage = "quit" => UNCHANGED vars)
  <2>1. ASSUME NEW step \in {-1, 1}, Tap(step)
        PROVE  VideoNow' /\ stage # "quit"
    <3>1. stage = "playing" /\ PlayStoryAt(index + step, FALSE, orphans, "playing")
      BY <2>1 DEF Tap, Gesture
    <3>2. index + step \in -1..Total
      BY <1>3, <3>1
    <3>3. QED
      BY <3>1, <3>2, VideoPlay
  <2>2. CASE Hold \/ SwipeDown \/ SwipeUp
    BY <2>2 DEF Hold, SwipeDown, SwipeUp, Gesture, VideoInv, VideoNow
  <2>3. CASE Release \/ Resume
    <3>1. stage # "quit" /\ PlayStoryAt(index, FALSE, orphans, "playing")
      BY <2>3 DEF Release, Resume
    <3>2. index \in -1..Total
      BY <1>3, <3>1
    <3>3. QED
      BY <3>1, <3>2, VideoPlay
  <2>4. CASE ImageLoaded \/ ImageFailed
    BY <2>4 DEF ImageLoaded, ImageFailed, VideoInv
  <2>5. CASE TimerEnds
    <3>1. stage = "playing" /\ PlayStoryAt(index + 1, FALSE, orphans, "playing")
      BY <2>5 DEF TimerEnds, VideoInv
    <3>2. index + 1 \in -1..Total
      BY <1>3, <3>1
    <3>3. QED
      BY <3>1, <3>2, VideoPlay
  <2>6. CASE OrphanEnds
    BY <2>6 DEF OrphanEnds, VideoInv
  <2>7. CASE HoldCancelled
    BY <2>7 DEF HoldCancelled, VideoInv, VideoNow
  <2>8. CASE UNCHANGED vars
    BY <2>8 DEF vars, VideoInv, VideoNow
  <2>9. QED
    BY <2>1, <2>2, <2>3, <2>4, <2>5, <2>6, <2>7, <2>8 DEF Next, User
<1>5. QED
  BY <1>1, <1>2, <1>4 DEF VideoInv, VideoNow, AllVideos

(* Among videos the invariant above is kept.                               *)
LEMMA VideoInvariance == Spec => [](AllVideos => VideoInv)
<1>1. Init => (AllVideos => VideoInv)
  BY VideoInit
<1>2. IInv /\ (AllVideos => VideoInv) /\ [Next]_vars => (AllVideos => VideoInv)'
  BY VideoStep, KindsStay DEF AllVideos
<1>3. QED
  BY <1>1, <1>2, Invariance, PTL DEF Spec

(* With videos only, a story held by the finger is paused, and no sequence *)
(* of taps gets beyond the stories.                                        *)
THEOREM VideosObey == Spec => []VideosObeyGestures
<1>1. (AllVideos => VideoInv) => VideosObeyGestures
  BY DEF VideoInv, VideosObeyGestures, HeldMeansPaused, NeverTraps
<1>2. QED
  BY <1>1, VideoInvariance, PTL

(* With videos only, a dismissed view is over: nothing plays any more.     *)
THEOREM VideosStayDismissed == Spec => DismissedVideosStop
<1>1. IInv /\ (AllVideos => VideoInv) /\ [Next]_vars
        => [AllVideos /\ stage = "quit" => index' = index /\ viewed' = viewed]_vars
  BY VideoStep DEF vars
<1>2. QED
  BY <1>1, VideoInvariance, Invariance, PTL DEF Spec, DismissedVideosStop
=============================================================================
