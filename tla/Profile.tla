-------------------------------- MODULE Profile --------------------------------
(***************************************************************************)
(* The settings page: changes of name and of profile picture, on the       *)
(* devices of one user (SettingsService, SettingsViewController).  Either  *)
(* reads the profile and writes all of it back; a new picture first        *)
(* deletes the old file, uploads the new one under the same name, and asks *)
(* for its URL.                                                            *)
(***************************************************************************)
EXTENDS Bucket

CONSTANTS
  Owner,     \* the user
  Devices    \* where he is signed in

ASSUME OwnerAssumption == Owner \in Uids

VARIABLES
  profile,   \* the document: name and picture
  shown,     \* shown[d]: what the page of d shows: <<>> or <<profile>>
  asked,     \* asked[d]: profiles that the page of d has asked for
  job,       \* job[d][k]: the change of name, of picture under way on d
  written,   \* history: the last name and picture that a change wrote
  raced,     \* history: a profile was read between another's read and write
  crossed    \* history: a picture was changed during the change of another

profileVars == <<profile, shown, asked, job, written, raced, crossed>>

Kinds == {"name", "photo"}

\* No change is under way.  One that is holds the name typed or the URL to
\* delete and then to save, and the copy of the profile once it was read
None == [stage |-> "none"]
Unread == <<>>

\* Mutant: the old picture is deleted when the new one is there
UploadFirst == <<"upload", "delete", "url", "read", "write">>

\* changeProfilePhoto and uploadSuccessFull: the requests of a new picture
PhotoStages == <<"delete", "upload", "url", "read", "write">>

After(stage) ==
  PhotoStages[1 + CHOOSE i \in 1 .. Len(PhotoStages) - 1 : PhotoStages[i] = stage]

Running(k) == {d \in Devices : job[d][k] # None}

\* A change that holds a copy of the profile it will write back
Holding == {c \in Devices \X Kinds : job[c[1]][c[2]].stage = "write"}

\* The account was made: a first picture, and pages that have just opened
ProfileInit ==
  /\ uploads = 1
  /\ files = [n \in {PictureName(Owner)} |-> 1]
  /\ profile = [name |-> 0, url |-> [file |-> PictureName(Owner), upload |-> 1]]
  /\ shown = [d \in Devices |-> <<>>]
  /\ asked = [d \in Devices |-> 1]
  /\ job = [d \in Devices |-> [k \in Kinds |-> None]]
  /\ written = profile
  /\ raced = FALSE /\ crossed = FALSE

To(d, k, j) == job' = [job EXCEPT ![d][k] = j]

\* "Change" in the alert, with a name that is not empty
ChangeName(d) ==
  /\ Begin
  /\ job[d]["name"] = None
  /\ To(d, "name", [stage |-> "read", name |-> begun', copy |-> Unread])
  /\ UNCHANGED <<files, uploads, failures, profile, shown, asked, written, raced, crossed>>

\* A picture is picked once the page shows a profile: its URL is the one deleted
ChangePicture(d) ==
  /\ Begin
  /\ job[d]["photo"] = None /\ shown[d] # <<>>
  /\ To(d, "photo", [stage |-> PhotoStages[1], url |-> shown[d][1].url, copy |-> Unread])
  /\ crossed' = (crossed \/ Running("photo") # {})
  /\ UNCHANGED <<files, uploads, failures, profile, shown, asked, written, raced>>

At(d, k, stage) == job[d][k].stage = stage

Advance(d, j) == To(d, "photo", [j EXCEPT !.stage = After(j.stage)])

Deleted(d) ==
  /\ At(d, "photo", "delete")
  /\ Remove(job[d]["photo"].url.file)
  /\ Advance(d, job[d]["photo"])
  /\ UNCHANGED <<begun, failures, profile, shown, asked, written, raced, crossed>>

Uploaded(d) ==
  /\ At(d, "photo", "upload")
  /\ Put(PictureName(Owner))
  /\ Advance(d, job[d]["photo"])
  /\ UNCHANGED <<begun, failures, profile, shown, asked, written, raced, crossed>>

GotURL(d) ==
  /\ At(d, "photo", "url")
  /\ PictureName(Owner) \in DOMAIN files
  /\ Advance(d, [job[d]["photo"] EXCEPT !.url = URLOf(PictureName(Owner))])
  /\ UNCHANGED <<files, uploads, begun, failures, profile, shown, asked, written, raced, crossed>>

\* The file to delete, or to ask the URL of, is not there: an alert, and no more
NoSuchFile(d) ==
  /\ \/ At(d, "photo", "delete") /\ job[d]["photo"].url.file \notin DOMAIN files
     \/ At(d, "photo", "url") /\ PictureName(Owner) \notin DOMAIN files
  /\ To(d, "photo", None)
  /\ UNCHANGED <<files, uploads, begun, failures, profile, shown, asked, written, raced, crossed>>

\* changeName and updateProfileURL: the profile has been fetched
ProfileRead(d, k) ==
  /\ At(d, k, "read")
  /\ To(d, k, [job[d][k] EXCEPT !.stage = "write", !.copy = profile])
  /\ raced' = (raced \/ Holding # {})
  /\ UNCHANGED <<files, uploads, begun, failures, profile, shown, asked, written, crossed>>

\* Mutant: what is written back is the profile that the page shows
EditedOfPage(d, k) ==
  LET page == IF shown[d] = <<>> THEN job[d][k].copy ELSE shown[d][1]
  IN  IF k = "name" THEN [page EXCEPT !.name = job[d][k].name]
                    ELSE [page EXCEPT !.url = job[d][k].url]

Edited(d, k) ==
  IF k = "name" THEN [job[d][k].copy EXCEPT !.name = job[d][k].name]
                ELSE [job[d][k].copy EXCEPT !.url = job[d][k].url]

\* uploadImageStatus, changeNameStatus: fetchUserProfile
Refetch(d) == [asked EXCEPT ![d] = @ + 1]

\* All of it is written back; the page, told of a success, asks for it again
ProfileWritten(d, k) ==
  /\ At(d, k, "write")
  /\ profile' = Edited(d, k)
  /\ written' = IF k = "name" THEN [written EXCEPT !.name = job[d][k].name]
                              ELSE [written EXCEPT !.url = job[d][k].url]
  /\ asked' = Refetch(d)
  /\ To(d, k, None)
  /\ UNCHANGED <<files, uploads, begun, failures, shown, raced, crossed>>

\* fetchUserProfileSuccess
ProfileShown(d) ==
  /\ asked[d] > 0
  /\ shown' = [shown EXCEPT ![d] = <<profile>>]
  /\ asked' = [asked EXCEPT ![d] = @ - 1]
  /\ UNCHANGED <<files, uploads, begun, failures, profile, job, written, raced, crossed>>

\* A request fails: an alert, and the change is over
ChangeFailed(d, k) ==
  /\ job[d][k].stage \in {"delete", "upload", "url", "read"}
  /\ Fail
  /\ To(d, k, None)
  /\ UNCHANGED <<files, uploads, begun, profile, shown, asked, written, raced, crossed>>

\* fetchUserProfile fails: nothing is said and nothing shown
ShowFailed(d) ==
  /\ asked[d] > 0
  /\ Fail
  /\ asked' = [asked EXCEPT ![d] = @ - 1]
  /\ UNCHANGED <<files, uploads, begun, profile, shown, job, written, raced, crossed>>

ProfileAnswer(d) ==
  \/ Deleted(d) \/ Uploaded(d) \/ GotURL(d) \/ NoSuchFile(d)
  \/ \E k \in Kinds : ProfileRead(d, k) \/ ProfileWritten(d, k)
  \/ ProfileShown(d)

ProfileNext ==
  \E d \in Devices :
    \/ ChangeName(d) \/ ChangePicture(d) \/ ProfileAnswer(d)
    \/ \E k \in Kinds : ChangeFailed(d, k)
    \/ ShowFailed(d)
================================================================================
