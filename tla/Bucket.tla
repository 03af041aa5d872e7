-------------------------------- MODULE Bucket --------------------------------
(***************************************************************************)
(* The files of StorageService.  A file's name is made of the user it is   *)
(* for, a CONSTANT that was meant to be the time (NSTimeIntervalSince1970), *)
(* a title and an extension, so one user's files of one title are one file. *)
(* A download URL carries the token of the upload it was asked for, and    *)
(* opens nothing once that file was deleted or uploaded anew.              *)
(***************************************************************************)
EXTENDS Naturals, Sequences, Functions

CONSTANTS
  Uids,         \* the users that files are for
  Titles,       \* the titles users type: sequences of words
  MaxBegun,     \* bound: changes and posts that users begin
  MaxFailures   \* bound: requests that fail

ASSUME BucketBounds == MaxBegun \in Nat /\ MaxFailures \in Nat

VARIABLES
  files,     \* the files there are: name -> number of the upload it holds
  uploads,   \* number of the last upload
  begun, failures   \* counters against the bounds

Thumbnail(title) == title \o <<"thumbnail">>
ProfilePic == <<"profile_pic">>

PictureName(uid) == [folder |-> "images", uid |-> uid, title |-> ProfilePic, ext |-> "jpg"]

Ext(type) == IF type = "IMAGE" THEN "jpg" ELSE "mp4"

\* Mutant: the name does not say whom the file is for
AssetNameForAll(folder, uid, title, type) ==
  [folder |-> folder, uid |-> CHOOSE u \in Uids : TRUE, title |-> title, ext |-> Ext(type)]

\* uploadStory and uploadMedia
AssetName(folder, uid, title, type) ==
  [folder |-> folder, uid |-> uid, title |-> title, ext |-> Ext(type)]

\* What a URL, a file and the upload whose token it carries, was asked for can
\* still be opened with it
Opens(url) == url.file \in DOMAIN files /\ files[url.file] = url.upload

\* putData: whatever the name held before is replaced
Put(name) ==
  /\ uploads' = uploads + 1
  /\ files' = [n \in DOMAIN files \cup {name} |-> IF n = name THEN uploads' ELSE files[n]]

\* delete
Remove(name) ==
  /\ name \in DOMAIN files
  /\ files' = Restrict(files, DOMAIN files \ {name})
  /\ UNCHANGED uploads

\* downloadURL: of the file as it is now
URLOf(name) == [file |-> name, upload |-> files[name]]

\* A user begins something
Begin == begun < MaxBegun /\ begun' = begun + 1

\* A request ends with an error
Fail == failures < MaxFailures /\ failures' = failures + 1
=============================================================================
