-------------------------------- MODULE Uploads --------------------------------
(***************************************************************************)
(* The settings pages of one user and the posts of all, over the files     *)
(* they share.                                                             *)
(***************************************************************************)
EXTENDS Profile, Posts

vars == <<files, uploads, begun, failures, profileVars, postVars>>

Init == ProfileInit /\ PostsInit /\ begun = 0 /\ failures = 0

Next ==
  \/ ProfileNext /\ UNCHANGED postVars
  \/ PostsNext /\ UNCHANGED profileVars

Spec == Init /\ [][Next]_vars

\* Every request is answered in the end, and a page that asked is told
FairSpec ==
  /\ Spec
  /\ \A d \in Devices : WF_vars(ProfileAnswer(d) /\ UNCHANGED postVars)
  /\ \A p \in Slots : WF_vars(PostAnswer(p) /\ UNCHANGED profileVars)

-------------------------------------------------------------------------------
AllPosts == {p \in Slots : post[p] # Unused}

\* Two posts that a user would not take for one: for different users, or with
\* different titles, a thumbnail's title being one as well
Apart(r, s) ==
  \/ r.folder # s.folder \/ r.uid # s.uid
  \/ {r.title, Thumbnail(r.title)} \cap {s.title, Thumbnail(s.title)} = {}

OwnTitle(p) ==
  p \in AllPosts /\ \A q \in AllPosts \ {p} : Apart(post[p], post[q])

PictureSafe == failures = 0 /\ ~crossed /\ ~raced

\* SettingsService.changeProfilePhoto takes the old file away before the new one
\* is there.  While requests succeed and one picture is changed at a time, names
\* and other devices' pages whatever they do, the profile has a picture that
\* opens whenever no picture is being changed.
PictureOpens ==
  PictureSafe /\ Running("photo") = {} => Opens(profile.url)

\* changeName and updateProfileURL write the whole profile back.  Unless one
\* reads between another's read and write, the profile has the last name and
\* the last picture that were set, also from devices that show neither.
FieldsKept == ~raced => profile = written

\* uploadMedia and uploadStory name a file after a user and a title.  A post that
\* was saved shows its own asset and its own thumbnail, and goes on doing so,
\* if no other post has its user and its title.
PostsShowTheirs ==
  \A p \in AllPosts :
    post[p].stage = "saved" /\ OwnTitle(p) =>
      /\ Opens(post[p].url) /\ post[p].url.upload = pics[p].asset
      /\ Opens(post[p].thumb) /\ post[p].thumb.upload = pics[p].thumb

\* onSendButtonTapped, uploadTapped: without errors a post with a title of its own
\* is saved; it never ends in the silence of a thumbnail that is not made.
PostIsSaved ==
  \A p \in Slots :
    (post[p].stage = "put") ~>
      (post[p].stage = "saved" \/ failures > 0 \/ ~OwnTitle(p))
-------------------------------------------------------------------------------
\* What the code does not keep; README.md tells how.

\* An upload that fails leaves the old picture, or a picture that can be changed.
PictureCanChange == Running("photo") = {} => profile.url.file \in DOMAIN files

\* No change is undone by another one.
NoFieldLost == profile = written

\* Every post that was saved shows its own asset.
EveryPostShowsItsOwn ==
  \A p \in AllPosts : post[p].stage = "saved" => Opens(post[p].url)

\* Whatever ends a post is said.
NoPostEndsSilently == \A p \in AllPosts : post[p].stage # "silent"
================================================================================
