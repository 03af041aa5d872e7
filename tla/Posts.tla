--------------------------------- MODULE Posts ---------------------------------
(***************************************************************************)
(* Pictures and videos that are posted: to a friend, by                    *)
(* SendMediaMessageViewController, as a story, by                          *)
(* UploadImageStoryViewController.  The asset is uploaded, its URL asked   *)
(* for, and the message or story saved with it; a video for a friend first *)
(* gets a thumbnail, made from the uploaded video and uploaded as well.    *)
(* The buttons stay enabled, so the same post may be begun again.          *)
(***************************************************************************)
EXTENDS Bucket

CONSTANT Slots   \* the posts there may be, in the order they are begun

VARIABLES
  post,    \* post[p]: the closure of the send that p stands for
  pics     \* history: pics[p], the uploads of its asset and its thumbnail

postVars == <<post, pics>>

Folders == {"stories", "media"}   \* STORY_REF, MEDIA_REF
MediaTypes == {"IMAGE", "VIDEO"}

Unused == [stage |-> "unused"]
NotYet == <<>>   \* a URL that was not asked for

\* uid: the receiver of a message, the owner of a story
Draft == [stage : {"put"}, folder : Folders, uid : Uids, title : Titles, type : MediaTypes,
          url : {NotYet}, thumb : {NotYet}]

PostsInit ==
  /\ post = [p \in Slots |-> Unused]
  /\ pics = [p \in Slots |-> [asset |-> 0, thumb |-> 0]]

Step(p, r) == post' = [post EXCEPT ![p] = r]

\* "Send" or "Upload" with a title that is not empty
Tap(p) ==
  /\ Begin
  /\ post[p] = Unused /\ \A q \in Slots : q < p => post[q] # Unused
  /\ \E r \in Draft : Step(p, r)
  /\ UNCHANGED <<files, uploads, failures, pics>>

FileOf(r) == AssetName(r.folder, r.uid, r.title, r.type)
ThumbnailOf(r) == AssetName("media", r.uid, Thumbnail(r.title), "IMAGE")

AssetPut(p) ==
  /\ post[p].stage = "put"
  /\ Put(FileOf(post[p]))
  /\ pics' = [pics EXCEPT ![p].asset = uploads']
  /\ Step(p, [post[p] EXCEPT !.stage = "url"])
  /\ UNCHANGED <<begun, failures>>

ForFriend(r, type) == r.folder = "media" /\ r.type = type

\* A story is saved, a picture too, its own thumbnail; a video is not yet
AssetURL(p) ==
  LET r == post[p]
      u == URLOf(FileOf(r))
  IN  /\ r.stage = "url"
      /\ IF ForFriend(r, "VIDEO")
           THEN Step(p, [r EXCEPT !.stage = "thumbnail", !.url = u])
           ELSE Step(p, [r EXCEPT !.stage = "saved", !.url = u, !.thumb = u])
      /\ pics' = IF ForFriend(r, "VIDEO") THEN pics
                                          ELSE [pics EXCEPT ![p].thumb = pics[p].asset]
      /\ UNCHANGED <<files, uploads, begun, failures>>

\* copyCGImage of the video behind the URL
ThumbnailMade(p) ==
  /\ post[p].stage = "thumbnail"
  /\ Opens(post[p].url)
  /\ Step(p, [post[p] EXCEPT !.stage = "put thumbnail"])
  /\ UNCHANGED <<files, uploads, begun, failures, pics>>

\* It throws: the error is printed, and the indicator turns for ever
ThumbnailFailed(p) ==
  /\ post[p].stage = "thumbnail"
  /\ IF Opens(post[p].url) THEN Fail ELSE UNCHANGED failures
  /\ Step(p, [post[p] EXCEPT !.stage = "silent"])
  /\ UNCHANGED <<files, uploads, begun, pics>>

ThumbnailPut(p) ==
  /\ post[p].stage = "put thumbnail"
  /\ Put(ThumbnailOf(post[p]))
  /\ pics' = [pics EXCEPT ![p].thumb = uploads']
  /\ Step(p, [post[p] EXCEPT !.stage = "url of thumbnail"])
  /\ UNCHANGED <<begun, failures>>

ThumbnailURL(p) ==
  /\ post[p].stage = "url of thumbnail"
  /\ Step(p, [post[p] EXCEPT !.stage = "saved", !.thumb = URLOf(ThumbnailOf(post[p]))])
  /\ UNCHANGED <<files, uploads, begun, failures, pics>>

\* An upload or the request of its URL fails: an alert
PostFailed(p) ==
  /\ post[p].stage \in {"put", "url", "put thumbnail", "url of thumbnail"}
  /\ Fail
  /\ Step(p, [post[p] EXCEPT !.stage = "alerted"])
  /\ UNCHANGED <<files, uploads, begun, pics>>

PostAnswer(p) ==
  \/ AssetPut(p) \/ AssetURL(p)
  \/ ThumbnailMade(p) \/ ThumbnailFailed(p)
  \/ ThumbnailPut(p) \/ ThumbnailURL(p)

PostsNext == \E p \in Slots : Tap(p) \/ PostAnswer(p) \/ PostFailed(p)
================================================================================
