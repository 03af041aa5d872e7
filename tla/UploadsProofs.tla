----------------------------- MODULE UploadsProofs -----------------------------
(***************************************************************************)
(* Proofs about Uploads, for any users, titles, devices and posts.  Every  *)
(* file has one name, so the argument is about who may touch a name: the   *)
(* picture is touched by changes of the picture only, the files of a post  *)
(* with a title of its own by that post only.                              *)
(***************************************************************************)
EXTENDS Uploads, TLAPS

Pic == PictureName(Owner)

\* A name is there and holds that upload
Holds(name, upload) == name \in DOMAIN files /\ files[name] = upload

\* A step leaves a name alone
Kept(name) ==
  /\ name \in DOMAIN files' <=> name \in DOMAIN files
  /\ name \in DOMAIN files => files'[name] = files[name]

\* A profile, as the document, a page or a change has it: its picture has the one
\* name there is
IsDoc(p) == DOMAIN p = {"name", "url"} /\ p.url.file = Pic

\* A change of kind k under way
IsJob(k, j) ==
  /\ {"stage", "copy", IF k = "name" THEN "name" ELSE "url"} \subseteq DOMAIN j
  /\ j.stage \in IF k = "name" THEN {"read", "write"}
                               ELSE {"delete", "upload", "url", "read", "write"}
  /\ k = "photo" => j.url.file = Pic
  /\ j.stage = "write" => IsDoc(j.copy)

CountersOK == failures \in Nat /\ raced \in BOOLEAN /\ crossed \in BOOLEAN

DocsOK ==
  /\ IsDoc(profile)
  /\ DOMAIN shown = Devices
  /\ \A d \in Devices : shown[d] # <<>> => IsDoc(shown[d][1])

JobsOK ==
  /\ DOMAIN job = Devices /\ \A d \in Devices : DOMAIN job[d] = Kinds
  /\ \A d \in Devices, k \in Kinds : job[d][k] = None \/ IsJob(k, job[d][k])

\* Until a read falls between another's read and write, there is at most one copy
\* to be written back, it is the profile, and nothing was lost
RaceOK ==
  ~raced =>
    /\ profile = written
    /\ \A b, c \in Holding : b = c
    /\ \A c \in Holding : job[c[1]][c[2]].copy = profile

\* A change of the picture has the file in the state that its stage says
PictureAt(j) ==
  /\ j.stage = "delete" => Opens(profile.url)
  /\ j.stage = "url" => Pic \in DOMAIN files
  /\ j.stage \in {"read", "write"} => Opens(j.url)

PictureOK ==
  PictureSafe =>
    /\ \A d, e \in Running("photo") : d = e
    /\ \A d \in Running("photo") : PictureAt(job[d]["photo"])
    /\ Running("photo") = {} => Opens(profile.url)

ProfileInv == CountersOK /\ DocsOK /\ JobsOK /\ RaceOK /\ PictureOK

\* The names that a post puts
Names(r) == {FileOf(r)} \cup (IF ForFriend(r, "VIDEO") THEN {ThumbnailOf(r)} ELSE {})

IsPost(r) ==
  /\ {"stage", "folder", "uid", "title", "type", "url", "thumb"} \subseteq DOMAIN r
  /\ r.folder \in Folders /\ r.type \in MediaTypes
  /\ r.stage \in {"put", "url", "thumbnail", "put thumbnail", "url of thumbnail",
                  "saved", "silent", "alerted"}
  /\ r.stage \in {"thumbnail", "put thumbnail", "url of thumbnail"} =>
       ForFriend(r, "VIDEO")

\* A post is where its stage says, when nobody else puts its names
PostAt(r, h) ==
  /\ r.stage \in {"url", "thumbnail", "put thumbnail", "url of thumbnail", "saved"} =>
       Holds(FileOf(r), h.asset)
  /\ r.stage \in {"thumbnail", "put thumbnail", "url of thumbnail", "saved"} =>
       r.url.file = FileOf(r) /\ r.url.upload = h.asset
  /\ r.stage = "url of thumbnail" => Holds(ThumbnailOf(r), h.thumb)
  /\ r.stage = "saved" =>
       /\ r.thumb.file \in Names(r) /\ r.thumb.upload = h.thumb
       /\ Holds(r.thumb.file, h.thumb)

PostsInv ==
  /\ DOMAIN post = Slots /\ DOMAIN pics = Slots
  /\ \A p \in Slots : DOMAIN pics[p] = {"asset", "thumb"}
  /\ \A p \in AllPosts : IsPost(post[p])
  /\ \A p \in AllPosts : OwnTitle(p) => PostAt(post[p], pics[p])

IInv == ProfileInv /\ PostsInv

-----------------------------------------------------------------------------
\* The invariant has the three properties in it.
LEMMA IInvImplies == IInv => PictureOpens /\ FieldsKept /\ PostsShowTheirs
  <1> SUFFICES ASSUME IInv PROVE PictureOpens /\ FieldsKept /\ PostsShowTheirs
    OBVIOUS
  <1>1. PictureOpens
    BY DEF IInv, ProfileInv, PictureOK, PictureOpens
  <1>2. FieldsKept
    BY DEF IInv, ProfileInv, RaceOK, FieldsKept
  <1>3. PostsShowTheirs
    BY DEF IInv, PostsInv, PostAt, PostsShowTheirs, Holds, Opens
  <1> QED BY <1>1, <1>2, <1>3

(* Files.                                                                  *)

\* putData touches one name.
LEMMA PutKeeps ==
  ASSUME NEW name, Put(name)
  PROVE  /\ name \in DOMAIN files' /\ files'[name] = uploads'
         /\ \A n : n # name => Kept(n)
  BY DEF Put, Kept

\* So does delete.
LEMMA RemoveKeeps ==
  ASSUME NEW name, Remove(name)
  PROVE  \A n : n # name => Kept(n)
  BY DEF Remove, Restrict, Kept

\* The stages of a change of the picture follow each other.
LEMMA Stages ==
  /\ PhotoStages[1] = "delete"
  /\ After("delete") = "upload" /\ After("upload") = "url"
  /\ After("url") = "read"
  <1> DEFINE n(s) == CHOOSE i \in 1 .. 4 : PhotoStages[i] = s
  <1>1. /\ PhotoStages[1] = "delete" /\ PhotoStages[2] = "upload" /\ PhotoStages[3] = "url"
        /\ PhotoStages[4] = "read" /\ Len(PhotoStages) = 5
    BY DEF PhotoStages
  <1>2. \A i \in 1 .. 4 : i = 1 \/ i = 2 \/ i = 3 \/ i = 4
    OBVIOUS
  <1>3. n("delete") = 1 /\ n("upload") = 2 /\ n("url") = 3
    BY <1>1, <1>2
  <1>4. \A s : After(s) = PhotoStages[1 + n(s)]
    BY <1>1 DEF After
  <1> HIDE DEF n
  <1> QED BY <1>1, <1>3, <1>4

\* Posts of two users, or with two titles, put different names; none is a picture.
LEMMA NamesApart ==
  /\ \A r, s : r.folder \in Folders /\ s.folder \in Folders /\ Apart(r, s) =>
       Names(r) \cap Names(s) = {}
  /\ \A r : r.folder \in Folders => Pic \notin Names(r)
  <1>1. \A r : \A n \in Names(r) : /\ n.folder = r.folder /\ n.uid = r.uid
                                   /\ n.title \in {r.title, Thumbnail(r.title)}
    BY DEF Names, FileOf, ThumbnailOf, ForFriend, AssetName
  <1>2. Pic.folder = "images" /\ \A f \in Folders : f # "images"
    BY DEF Pic, PictureName, Folders
  <1>3. ASSUME NEW r, NEW s, Apart(r, s), NEW n \in Names(r), n \in Names(s)
        PROVE  FALSE
    <2>1. n.folder = r.folder /\ n.uid = r.uid /\ n.title \in {r.title, Thumbnail(r.title)}
      BY <1>1
    <2>2. n.folder = s.folder /\ n.uid = s.uid /\ n.title \in {s.title, Thumbnail(s.title)}
      BY <1>1, <1>3
    <2> QED BY <1>3, <2>1, <2>2 DEF Apart
  <1>4. \A r : r.folder \in Folders => Pic \notin Names(r)
    BY <1>1, <1>2
  <1> QED BY <1>3, <1>4

-----------------------------------------------------------------------------
(* The settings pages.                                                     *)

LEMMA InitInv == Init => IInv
  <1> SUFFICES ASSUME Init PROVE IInv
    OBVIOUS
  <1>1. /\ files = [n \in {Pic} |-> 1] /\ profile = [name |-> 0, url |-> [file |-> Pic, upload |-> 1]]
        /\ shown = [d \in Devices |-> <<>>] /\ written = profile
        /\ job = [d \in Devices |-> [k \in Kinds |-> None]] /\ raced = FALSE /\ crossed = FALSE
        /\ failures = 0
    BY DEF Init, ProfileInit, Pic
  <1>2. \A c \in Devices \X Kinds : job[c[1]][c[2]] = None
    BY <1>1
  <1>3. Holding = {} /\ Running("photo") = {}
    BY <1>1, <1>2 DEF Holding, Running, Kinds, None
  <1>4. CountersOK /\ DocsOK /\ JobsOK
    BY <1>1 DEF CountersOK, DocsOK, JobsOK, IsDoc
  <1>5. RaceOK
    BY <1>1, <1>3 DEF RaceOK
  <1>6. Opens(profile.url)
    BY <1>1 DEF Opens
  <1>7. PictureOK
    BY <1>3, <1>6 DEF PictureOK
  <1>8. AllPosts = {}
    BY DEF Init, PostsInit, AllPosts
  <1>9. PostsInv
    BY <1>8 DEF Init, PostsInit, PostsInv
  <1> QED BY <1>4, <1>5, <1>7, <1>9 DEF IInv, ProfileInv

\* A change goes on, begins or ends; the others do not move.
LEMMA JobMoves ==
  ASSUME JobsOK, NEW d \in Devices, NEW k \in Kinds, NEW j, To(d, k, j),
         j = None \/ IsJob(k, j)
  PROVE  /\ JobsOK'
         /\ job'[d][k] = j
         /\ \A e \in Devices, l \in Kinds : <<e, l>> # <<d, k>> => job'[e][l] = job[e][l]
  <1>1. /\ DOMAIN job' = Devices /\ \A e \in Devices : DOMAIN job'[e] = Kinds
        /\ job'[d][k] = j
        /\ \A e \in Devices, l \in Kinds : <<e, l>> # <<d, k>> => job'[e][l] = job[e][l]
    BY DEF To, JobsOK
  <1> QED BY <1>1 DEF JobsOK, IsJob, IsDoc, Pic

\* What is running and held then.
LEMMA RunningMoves ==
  ASSUME NEW d \in Devices, NEW k \in Kinds, NEW j, job'[d][k] = j,
         \A e \in Devices, l \in Kinds : <<e, l>> # <<d, k>> => job'[e][l] = job[e][l]
  PROVE  /\ k = "name" => Running("photo")' = Running("photo")
         /\ k = "photo" => Running("photo")' = IF j = None THEN Running("photo") \ {d}
                                                         ELSE Running("photo") \cup {d}
         /\ Holding' = IF j.stage = "write" THEN Holding \cup {<<d, k>>}
                                             ELSE Holding \ {<<d, k>>}
  <1>1. "photo" \in Kinds /\ "name" # "photo"
    BY DEF Kinds
  <1>2. \A e \in Devices : e \in Running("photo")' <=> job'[e]["photo"] # None
    BY DEF Running, None
  <1>3. k = "name" => Running("photo")' = Running("photo")
    BY <1>1, <1>2 DEF Running
  <1>4. k = "photo" => Running("photo")' = IF j = None THEN Running("photo") \ {d}
                                                        ELSE Running("photo") \cup {d}
    BY <1>1, <1>2 DEF Running
  <1>5. \A c \in Devices \X Kinds : c = <<c[1], c[2]>> /\ c[1] \in Devices /\ c[2] \in Kinds
    OBVIOUS
  <1>6. Holding' = IF j.stage = "write" THEN Holding \cup {<<d, k>>}
                                        ELSE Holding \ {<<d, k>>}
    BY <1>5 DEF Holding
  <1> QED BY <1>3, <1>4, <1>6

\* No copy is read or written back: nothing is lost.
LEMMA RaceStays ==
  ASSUME RaceOK, UNCHANGED <<profile, written, raced>>,
         NEW d \in Devices, NEW k \in Kinds, NEW j, job'[d][k] = j,
         \A e \in Devices, l \in Kinds : <<e, l>> # <<d, k>> => job'[e][l] = job[e][l],
         j.stage # "write", job[d][k].stage # "write"
  PROVE  RaceOK'
  <1>1. Holding' = Holding \ {<<d, k>>} /\ <<d, k>> \notin Holding
    BY RunningMoves DEF Holding
  <1>2. \A c \in Holding : /\ c[1] \in Devices /\ c[2] \in Kinds /\ <<c[1], c[2]>> = c
                           /\ job'[c[1]][c[2]] = job[c[1]][c[2]]
    BY <1>1 DEF Holding
  <1> QED BY <1>1, <1>2 DEF RaceOK

\* Other jobs, the files and the documents rest: pictures stay as they are.
LEMMA PictureStays ==
  ASSUME PictureOK, UNCHANGED <<files, profile>>, PictureSafe' => PictureSafe,
         UNCHANGED Running("photo"),
         \A e \in Devices : job'[e]["photo"] = job[e]["photo"]
  PROVE  PictureOK'
  <1>1. \A e \in Running("photo") : e \in Devices
    BY DEF Running
  <1> QED BY <1>1 DEF PictureOK, PictureAt, Opens

\* One picture alone is being changed, or none.
LEMMA PictureAlone ==
  ASSUME PictureOK, PictureSafe, NEW d \in Running("photo")
  PROVE  Running("photo") = {d} /\ PictureAt(job[d]["photo"])
  BY DEF PictureOK

LEMMA KindsAre == "name" \in Kinds /\ "photo" \in Kinds /\ \A k \in Kinds : k = "name" \/ k = "photo"
  BY DEF Kinds

\* A change of the name begins.
LEMMA ChangeNameInv ==
  ASSUME ProfileInv, NEW d \in Devices, ChangeName(d)
  PROVE  ProfileInv' /\ UNCHANGED files
  <1> DEFINE j == [stage |-> "read", name |-> begun', copy |-> Unread]
  <1>1. /\ UNCHANGED <<files, failures, profile, shown, asked, written, raced, crossed>>
        /\ To(d, "name", j) /\ job[d]["name"] = None
    BY DEF ChangeName
  <1>2. IsJob("name", j) /\ j.stage = "read" /\ None.stage = "none"
    BY DEF IsJob, None
  <1> HIDE DEF j
  <1>3. /\ JobsOK' /\ job'[d]["name"] = j
        /\ \A e \in Devices, l \in Kinds : <<e, l>> # <<d, "name">> => job'[e][l] = job[e][l]
    BY <1>1, <1>2, JobMoves, KindsAre DEF ProfileInv
  <1>4. RaceOK'
    BY <1>1, <1>2, <1>3, RaceStays, KindsAre DEF ProfileInv
  <1>5. Running("photo")' = Running("photo") /\ \A e \in Devices : job'[e]["photo"] = job[e]["photo"]
    BY <1>3, RunningMoves, KindsAre
  <1>6. PictureOK'
    BY <1>1, <1>5, PictureStays DEF ProfileInv, PictureSafe
  <1> QED BY <1>1, <1>3, <1>4, <1>6 DEF ProfileInv, CountersOK, DocsOK, IsDoc, Pic

\* What the steps of a change of the picture have in common
LEMMA PhotoMoves ==
  ASSUME ProfileInv, NEW d \in Devices, NEW j, To(d, "photo", j), j = None \/ IsJob("photo", j),
         UNCHANGED <<profile, shown, written, raced>>,
         j.stage # "write", job[d]["photo"].stage # "write"
  PROVE  /\ DocsOK' /\ JobsOK' /\ RaceOK'
         /\ job'[d]["photo"] = j
         /\ \A e \in Devices \ {d} : job'[e]["photo"] = job[e]["photo"]
         /\ Running("photo")' = IF j = None THEN Running("photo") \ {d}
                                            ELSE Running("photo") \cup {d}
  <1>1. /\ JobsOK' /\ job'[d]["photo"] = j
        /\ \A e \in Devices, l \in Kinds : <<e, l>> # <<d, "photo">> => job'[e][l] = job[e][l]
    BY JobMoves, KindsAre DEF ProfileInv
  <1>2. RaceOK'
    BY <1>1, RaceStays, KindsAre DEF ProfileInv
  <1>3. Running("photo")' = IF j = None THEN Running("photo") \ {d}
                                       ELSE Running("photo") \cup {d}
    BY <1>1, RunningMoves, KindsAre
  <1>4. \A e \in Devices \ {d} : job'[e]["photo"] = job[e]["photo"]
    BY <1>1, KindsAre
  <1> QED BY <1>1, <1>2, <1>3, <1>4 DEF ProfileInv, DocsOK, IsDoc, Pic

\* A change of the picture begins.
LEMMA ChangePictureInv ==
  ASSUME ProfileInv, NEW d \in Devices, ChangePicture(d)
  PROVE  ProfileInv' /\ UNCHANGED files
  <1> DEFINE j == [stage |-> PhotoStages[1], url |-> shown[d][1].url, copy |-> Unread]
  <1>1. /\ UNCHANGED <<files, failures, profile, shown, asked, written, raced>>
        /\ To(d, "photo", j) /\ job[d]["photo"] = None /\ shown[d] # <<>>
        /\ crossed' = (crossed \/ Running("photo") # {})
    BY DEF ChangePicture
  <1>2. j.stage = "delete" /\ j.url.file = Pic /\ None.stage = "none" /\ j # None
    BY <1>1, Stages DEF ProfileInv, DocsOK, IsDoc, None
  <1>3. IsJob("photo", j)
    BY <1>2 DEF IsJob
  <1> HIDE DEF j
  <1>4. /\ DocsOK' /\ JobsOK' /\ RaceOK' /\ job'[d]["photo"] = j
        /\ Running("photo")' = Running("photo") \cup {d}
    BY <1>1, <1>2, <1>3, PhotoMoves
  <1>5. PictureSafe' => PictureSafe /\ Running("photo") = {}
    BY <1>1 DEF PictureSafe, ProfileInv, CountersOK
  <1>6. ASSUME PictureSafe'
        PROVE  PictureAt(job[d]["photo"])' /\ Running("photo")' = {d}
    <2>1. Opens(profile.url)
      BY <1>5, <1>6 DEF ProfileInv, PictureOK
    <2>2. Opens(profile.url)'
      BY <1>1, <2>1 DEF Opens
    <2> QED BY <1>2, <1>4, <1>5, <1>6, <2>2 DEF PictureAt
  <1>7. PictureOK'
    BY <1>6 DEF PictureOK
  <1>8. CountersOK'
    BY <1>1 DEF ProfileInv, CountersOK
  <1> QED BY <1>1, <1>4, <1>7, <1>8 DEF ProfileInv

\* What the job of a change of the picture looks like before its next request
LEMMA PhotoJob ==
  ASSUME ProfileInv, NEW d \in Devices, job[d]["photo"].stage # "none"
  PROVE  IsJob("photo", job[d]["photo"]) /\ d \in Running("photo") /\ None.stage = "none"
  BY KindsAre DEF ProfileInv, JobsOK, Running, None

\* ... and after it
LEMMA NextStage ==
  ASSUME NEW j, IsJob("photo", j), NEW stage \in {"upload", "url", "read"}
  PROVE  /\ IsJob("photo", [j EXCEPT !.stage = stage])
         /\ [j EXCEPT !.stage = stage].stage = stage
         /\ [j EXCEPT !.stage = stage].url = j.url
  BY DEF IsJob

\* The step of a change of the picture after which it still runs
LEMMA PictureGoesOn ==
  ASSUME ProfileInv, NEW d \in Running("photo"),
         \A e \in Devices \ {d} : job'[e]["photo"] = job[e]["photo"],
         Running("photo")' = Running("photo"),
         PictureSafe' => PictureSafe,
         PictureSafe /\ PictureAt(job[d]["photo"]) => PictureAt(job[d]["photo"])'
  PROVE  PictureOK'
  <1>1. ASSUME PictureSafe'
        PROVE  Running("photo")' = {d} /\ PictureAt(job[d]["photo"])'
    BY <1>1, PictureAlone DEF ProfileInv
  <1> QED BY <1>1 DEF PictureOK

LEMMA DeletedInv ==
  ASSUME ProfileInv, NEW d \in Devices, Deleted(d)
  PROVE  ProfileInv' /\ \A n : n # Pic => Kept(n)
  <1> DEFINE j == [job[d]["photo"] EXCEPT !.stage = "upload"]
  <1>1. /\ UNCHANGED <<failures, profile, shown, asked, written, raced, crossed>>
        /\ To(d, "photo", j) /\ Remove(job[d]["photo"].url.file)
        /\ job[d]["photo"].stage = "delete"
    BY Stages DEF Deleted, At, Advance
  <1>2. IsJob("photo", job[d]["photo"]) /\ d \in Running("photo") /\ None.stage = "none"
    BY <1>1, PhotoJob
  <1>3. IsJob("photo", j) /\ j.stage = "upload" /\ j # None
    BY <1>2, NextStage
  <1> HIDE DEF j
  <1> /\ UNCHANGED <<profile, shown, written, raced>> /\ To(d, "photo", j)
      /\ j.stage # "write" /\ job[d]["photo"].stage # "write"
    BY <1>1, <1>3
  <1>4. /\ DocsOK' /\ JobsOK' /\ RaceOK' /\ job'[d]["photo"] = j
        /\ \A e \in Devices \ {d} : job'[e]["photo"] = job[e]["photo"]
        /\ Running("photo")' = Running("photo")
    <2>1. DocsOK' /\ JobsOK' /\ RaceOK' /\ job'[d]["photo"] = j
      BY <1>3, PhotoMoves
    <2>2. \A e \in Devices \ {d} : job'[e]["photo"] = job[e]["photo"]
      BY <1>3, PhotoMoves
    <2>3. Running("photo")' = Running("photo") \cup {d}
      BY <1>3, PhotoMoves
    <2> QED BY <1>2, <2>1, <2>2, <2>3
  <1>5. PictureAt(job[d]["photo"])'
    BY <1>3, <1>4 DEF PictureAt
  <1>6. PictureOK'
    BY <1>1, <1>2, <1>4, <1>5, PictureGoesOn DEF PictureSafe
  <1>7. \A n : n # Pic => Kept(n)
    BY <1>1, <1>2, RemoveKeeps DEF IsJob
  <1> QED BY <1>1, <1>4, <1>6, <1>7 DEF ProfileInv, CountersOK

LEMMA UploadedInv ==
  ASSUME ProfileInv, NEW d \in Devices, Uploaded(d)
  PROVE  ProfileInv' /\ \A n : n # Pic => Kept(n)
  <1> DEFINE j == [job[d]["photo"] EXCEPT !.stage = "url"]
  <1>1. /\ UNCHANGED <<failures, profile, shown, asked, written, raced, crossed>>
        /\ To(d, "photo", j) /\ Put(Pic) /\ job[d]["photo"].stage = "upload"
    BY Stages DEF Uploaded, At, Advance, Pic
  <1>2. IsJob("photo", job[d]["photo"]) /\ d \in Running("photo") /\ None.stage = "none"
    BY <1>1, PhotoJob
  <1>3. IsJob("photo", j) /\ j.stage = "url" /\ j # None
    BY <1>2, NextStage
  <1> HIDE DEF j
  <1> /\ UNCHANGED <<profile, shown, written, raced>> /\ To(d, "photo", j)
      /\ j.stage # "write" /\ job[d]["photo"].stage # "write"
    BY <1>1, <1>3
  <1>4. /\ DocsOK' /\ JobsOK' /\ RaceOK' /\ job'[d]["photo"] = j
        /\ \A e \in Devices \ {d} : job'[e]["photo"] = job[e]["photo"]
        /\ Running("photo")' = Running("photo")
    <2>1. DocsOK' /\ JobsOK' /\ RaceOK' /\ job'[d]["photo"] = j
      BY <1>3, PhotoMoves
    <2>2. \A e \in Devices \ {d} : job'[e]["photo"] = job[e]["photo"]
      BY <1>3, PhotoMoves
    <2>3. Running("photo")' = Running("photo") \cup {d}
      BY <1>3, PhotoMoves
    <2> QED BY <1>2, <2>1, <2>2, <2>3
  <1>5. Pic \in DOMAIN files' /\ \A n : n # Pic => Kept(n)
    BY <1>1, PutKeeps
  <1>6. PictureAt(job[d]["photo"])'
    BY <1>3, <1>4, <1>5 DEF PictureAt, Pic
  <1>7. PictureOK'
    BY <1>1, <1>2, <1>4, <1>6, PictureGoesOn DEF PictureSafe
  <1> QED BY <1>1, <1>4, <1>5, <1>7 DEF ProfileInv, CountersOK

LEMMA GotURLInv ==
  ASSUME ProfileInv, NEW d \in Devices, GotURL(d)
  PROVE  ProfileInv' /\ UNCHANGED files
  <1> DEFINE i == [job[d]["photo"] EXCEPT !.url = URLOf(Pic)]
             j == [i EXCEPT !.stage = "read"]
  <1>1. /\ UNCHANGED <<files, failures, profile, shown, asked, written, raced, crossed>>
        /\ Pic \in DOMAIN files /\ job[d]["photo"].stage = "url"
        /\ Advance(d, i)
    BY DEF GotURL, At, Pic
  <1>2. IsJob("photo", job[d]["photo"]) /\ d \in Running("photo") /\ None.stage = "none"
    BY <1>1, PhotoJob
  <1>3. i.url = [file |-> Pic, upload |-> files[Pic]] /\ i.stage = "url" /\ IsJob("photo", i)
    BY <1>1, <1>2 DEF IsJob, URLOf
  <1> HIDE DEF i
  <1>4. To(d, "photo", j)
    BY <1>1, <1>3, Stages DEF Advance
  <1>5. IsJob("photo", j) /\ j.stage = "read" /\ j.url = i.url
    BY <1>3, NextStage
  <1> HIDE DEF j
  <1>6. /\ DocsOK' /\ JobsOK' /\ RaceOK' /\ job'[d]["photo"] = j
        /\ \A e \in Devices \ {d} : job'[e]["photo"] = job[e]["photo"]
        /\ Running("photo")' = Running("photo")
    BY <1>1, <1>2, <1>4, <1>5, PhotoMoves
  <1>7. job'[d]["photo"].url = [file |-> Pic, upload |-> files[Pic]]
    BY <1>3, <1>5, <1>6
  <1>8. PictureAt(job[d]["photo"])'
    BY <1>1, <1>5, <1>6, <1>7 DEF PictureAt, Opens
  <1>9. PictureOK'
    BY <1>1, <1>2, <1>6, <1>8, PictureGoesOn DEF PictureSafe
  <1> QED BY <1>1, <1>6, <1>9 DEF ProfileInv, CountersOK

\* Without failures and overlapping pictures the file is there.
LEMMA NoSuchFileInv ==
  ASSUME ProfileInv, NEW d \in Devices, NoSuchFile(d)
  PROVE  ProfileInv' /\ UNCHANGED files
  <1>1. /\ UNCHANGED <<files, failures, profile, shown, asked, written, raced, crossed>>
        /\ To(d, "photo", None) /\ job[d]["photo"].stage \in {"delete", "url"}
        /\ job[d]["photo"].stage = "delete" => job[d]["photo"].url.file \notin DOMAIN files
        /\ job[d]["photo"].stage = "url" => Pic \notin DOMAIN files
    BY DEF NoSuchFile, At, Pic
  <1>2. IsJob("photo", job[d]["photo"]) /\ d \in Running("photo") /\ None.stage = "none"
    BY <1>1, PhotoJob
  <1>3. DocsOK' /\ JobsOK' /\ RaceOK'
    BY <1>1, <1>2, PhotoMoves
  <1>4. ~PictureSafe
    BY <1>1, <1>2, PictureAlone DEF ProfileInv, DocsOK, IsDoc, IsJob, PictureAt, Opens
  <1>5. PictureOK'
    BY <1>1, <1>4 DEF PictureOK, PictureSafe
  <1> QED BY <1>1, <1>3, <1>5 DEF ProfileInv, CountersOK

\* A page shows the profile, or does not.
LEMMA PageInv ==
  ASSUME ProfileInv, NEW d \in Devices, ProfileShown(d) \/ ShowFailed(d)
  PROVE  ProfileInv' /\ UNCHANGED files
  <1>1. /\ UNCHANGED <<files, profile, job, written, raced, crossed>>
        /\ shown' = [shown EXCEPT ![d] = <<profile>>] \/ shown' = shown
        /\ failures' = failures \/ failures' = failures + 1
    BY DEF ProfileShown, ShowFailed, Fail
  <1>2. DocsOK'
    BY <1>1 DEF ProfileInv, DocsOK, IsDoc, Pic
  <1>3. JobsOK' /\ RaceOK'
    BY <1>1 DEF ProfileInv, JobsOK, IsJob, IsDoc, Pic, RaceOK, Holding
  <1>4. CountersOK' /\ (PictureSafe' => PictureSafe)
    BY <1>1 DEF ProfileInv, CountersOK, PictureSafe
  <1>5. PictureOK'
    BY <1>1, <1>4, PictureStays DEF ProfileInv, Running, None
  <1> QED BY <1>1, <1>2, <1>3, <1>4, <1>5 DEF ProfileInv

\* A request fails before anything is written back.
LEMMA ChangeFailedInv ==
  ASSUME ProfileInv, NEW d \in Devices, NEW k \in Kinds, ChangeFailed(d, k)
  PROVE  ProfileInv' /\ UNCHANGED files
  <1>1. /\ UNCHANGED <<files, profile, shown, asked, written, raced, crossed>>
        /\ To(d, k, None) /\ failures' = failures + 1
        /\ job[d][k].stage # "write" /\ None.stage = "none"
    BY DEF ChangeFailed, Fail, None
  <1>2. /\ JobsOK' /\ job'[d][k] = None
        /\ \A e \in Devices, l \in Kinds : <<e, l>> # <<d, k>> => job'[e][l] = job[e][l]
    BY <1>1, JobMoves DEF ProfileInv
  <1>3. RaceOK'
    BY <1>1, <1>2, RaceStays DEF ProfileInv
  <1>4. ~PictureSafe' /\ CountersOK'
    BY <1>1 DEF ProfileInv, CountersOK, PictureSafe
  <1> QED
    BY <1>1, <1>2, <1>3, <1>4 DEF ProfileInv, DocsOK, IsDoc, Pic, PictureOK

\* The profile is read.  Nobody else holds a copy, or it is a race.
LEMMA ProfileReadInv ==
  ASSUME ProfileInv, NEW d \in Devices, NEW k \in Kinds, ProfileRead(d, k)
  PROVE  ProfileInv' /\ UNCHANGED files
  <1> DEFINE j == [job[d][k] EXCEPT !.stage = "write", !.copy = profile]
  <1>1. /\ UNCHANGED <<files, failures, profile, shown, asked, written, crossed>>
        /\ raced' = (raced \/ Holding # {}) /\ To(d, k, j)
        /\ job[d][k].stage = "read" /\ None.stage = "none"
    BY DEF ProfileRead, At, None
  <1>2. IsJob(k, job[d][k])
    BY <1>1 DEF ProfileInv, JobsOK
  <1>3. /\ IsJob(k, j) /\ j.stage = "write" /\ j.copy = profile /\ j # None
        /\ k = "photo" => j.url = job[d][k].url
    BY <1>1, <1>2 DEF IsJob, ProfileInv, DocsOK
  <1> HIDE DEF j
  <1>4. /\ JobsOK' /\ job'[d][k] = j
        /\ \A e \in Devices, l \in Kinds : <<e, l>> # <<d, k>> => job'[e][l] = job[e][l]
    BY <1>1, <1>3, JobMoves DEF ProfileInv
  <1>5. Holding' = Holding \cup {<<d, k>>}
    BY <1>3, <1>4, RunningMoves
  <1>6. RaceOK'
    <2> SUFFICES ASSUME ~raced' PROVE RaceOK'
      BY DEF RaceOK
    <2>1. ~raced /\ Holding = {} /\ profile' = written'
      BY <1>1 DEF ProfileInv, CountersOK, RaceOK
    <2>2. Holding' = {<<d, k>>}
      BY <1>5, <2>1
    <2>3. job'[<<d, k>>[1]][<<d, k>>[2]].copy = profile'
      BY <1>1, <1>3, <1>4
    <2> QED BY <2>1, <2>2, <2>3 DEF RaceOK
  <1>7. CountersOK' /\ (PictureSafe' => PictureSafe)
    BY <1>1 DEF ProfileInv, CountersOK, PictureSafe
  <1>8. PictureOK'
    <2>1. CASE k = "name"
      <3>1. /\ Running("photo")' = Running("photo")
            /\ \A e \in Devices : job'[e]["photo"] = job[e]["photo"]
        BY <1>3, <1>4, <2>1, RunningMoves, KindsAre
      <3> QED BY <1>1, <1>7, <3>1, PictureStays DEF ProfileInv
    <2>2. CASE k = "photo"
      <3>1. d \in Running("photo")
        BY <1>1, <2>2 DEF Running, None
      <3>2. Running("photo")' = Running("photo") \cup {d}
        BY <1>3, <1>4, <2>2, RunningMoves
      <3>3. \A e \in Devices \ {d} : job'[e]["photo"] = job[e]["photo"]
        BY <1>4, KindsAre
      <3>4. PictureAt(job[d]["photo"]) => PictureAt(job[d]["photo"])'
        BY <1>1, <1>3, <1>4, <2>2 DEF PictureAt, Opens
      <3> QED BY <1>7, <3>1, <3>2, <3>3, <3>4, PictureGoesOn
    <2> QED BY <2>1, <2>2, KindsAre
  <1> QED BY <1>1, <1>4, <1>6, <1>7, <1>8 DEF ProfileInv, DocsOK, IsDoc, Pic

\* The copy is written back.  It is the profile, unless there was a race.
LEMMA ProfileWrittenInv ==
  ASSUME ProfileInv, NEW d \in Devices, NEW k \in Kinds, ProfileWritten(d, k)
  PROVE  ProfileInv' /\ UNCHANGED files
  <1>1. /\ UNCHANGED <<files, failures, shown, raced, crossed>>
        /\ profile' = Edited(d, k) /\ To(d, k, None)
        /\ written' = IF k = "name" THEN [written EXCEPT !.name = job[d][k].name]
                                    ELSE [written EXCEPT !.url = job[d][k].url]
        /\ job[d][k].stage = "write" /\ None.stage = "none"
    BY DEF ProfileWritten, At, None
  <1>2. IsJob(k, job[d][k]) /\ IsDoc(job[d][k].copy)
    BY <1>1 DEF ProfileInv, JobsOK, IsJob
  <1>3. /\ IsDoc(profile')
        /\ k = "name" => profile'.url = job[d][k].copy.url
        /\ k = "photo" => profile'.url = job[d][k].url
    BY <1>1, <1>2, KindsAre DEF Edited, IsDoc, IsJob
  <1>4. DocsOK'
    BY <1>1, <1>3 DEF ProfileInv, DocsOK, IsDoc, Pic
  <1>5. /\ JobsOK' /\ job'[d][k] = None
        /\ \A e \in Devices, l \in Kinds : <<e, l>> # <<d, k>> => job'[e][l] = job[e][l]
    BY <1>1, JobMoves DEF ProfileInv
  <1>6. Holding' = Holding \ {<<d, k>>} /\ <<d, k>> \in Holding
    BY <1>1, <1>5, RunningMoves DEF Holding
  <1>7. ~raced => job[d][k].copy = profile /\ profile = written /\ Holding = {<<d, k>>}
    BY <1>6 DEF ProfileInv, RaceOK
  <1>8. RaceOK'
    <2>1. ASSUME ~raced'
          PROVE  profile' = written' /\ Holding' = {}
      <3>1. job[d][k].copy = written /\ Holding = {<<d, k>>}
        BY <1>1, <1>7, <2>1
      <3> QED BY <1>1, <1>6, <3>1 DEF Edited
    <2> QED BY <2>1 DEF RaceOK
  <1>9. PictureOK'
    <2> SUFFICES ASSUME PictureSafe' PROVE PictureOK'
      BY DEF PictureOK
    <2>1. PictureSafe /\ job[d][k].copy = profile
      BY <1>1, <1>7 DEF PictureSafe
    <2>2. CASE k = "name"
      <3>1. /\ Running("photo")' = Running("photo")
            /\ \A e \in Devices : job'[e]["photo"] = job[e]["photo"]
        BY <1>5, <2>2, RunningMoves, KindsAre
      <3>2. Opens(profile.url)' <=> Opens(profile.url)
        BY <1>1, <1>3, <2>1, <2>2 DEF Opens
      <3>3. \A e \in Running("photo") : e \in Devices
        BY DEF Running
      <3>4. \A e \in Running("photo") : PictureAt(job[e]["photo"])'
        BY <1>1, <2>1, <3>1, <3>2, <3>3 DEF ProfileInv, PictureOK, PictureAt, Opens
      <3> QED BY <2>1, <3>1, <3>2, <3>4 DEF ProfileInv, PictureOK
    <2>3. CASE k = "photo"
      <3>1. d \in Running("photo")
        BY <1>1, <2>3 DEF Running, None
      <3>2. Running("photo") = {d} /\ PictureAt(job[d]["photo"])
        BY <2>1, <3>1, PictureAlone DEF ProfileInv
      <3>3. Running("photo")' = {}
        BY <1>5, <2>3, <3>2, RunningMoves
      <3>4. Opens(job[d]["photo"].url)
        BY <1>1, <2>3, <3>2 DEF PictureAt
      <3>5. Opens(profile.url)'
        BY <1>1, <1>3, <2>3, <3>4 DEF Opens
      <3> QED BY <3>3, <3>5 DEF PictureOK
    <2> QED BY <2>2, <2>3, KindsAre
  <1> QED BY <1>1, <1>4, <1>5, <1>8, <1>9 DEF ProfileInv, CountersOK

\* All steps of the pages; they leave the names of posts alone.
LEMMA ProfileNextInv ==
  ASSUME ProfileInv, ProfileNext
  PROVE  ProfileInv' /\ \A n : n # Pic => Kept(n)
  <1>1. UNCHANGED files => \A n : n # Pic => Kept(n)
    BY DEF Kept
  <1>2. PICK d \in Devices :
          \/ ChangeName(d) \/ ChangePicture(d) \/ ProfileAnswer(d)
          \/ \E k \in Kinds : ChangeFailed(d, k)
          \/ ShowFailed(d)
    BY DEF ProfileNext
  <1> QED
    BY <1>1, <1>2, ChangeNameInv, ChangePictureInv, DeletedInv, UploadedInv, GotURLInv,
       NoSuchFileInv, PageInv, ChangeFailedInv, ProfileReadInv, ProfileWrittenInv
       DEF ProfileAnswer

-----------------------------------------------------------------------------
(* The posts.                                                              *)

\* A post whose names are left alone stays where it is.
LEMMA PostStays ==
  ASSUME NEW r, NEW h, IsPost(r), PostAt(r, h), \A n \in Names(r) : Kept(n)
  PROVE  PostAt(r, h)'
  <1>1. FileOf(r) \in Names(r) /\ (r.stage = "url of thumbnail" => ThumbnailOf(r) \in Names(r))
    BY DEF Names, IsPost
  <1>2. \A n \in Names(r) : \A k : Holds(n, k) => Holds(n, k)'
    BY DEF Holds, Kept
  <1>3. Names(r)' = Names(r) /\ FileOf(r)' = FileOf(r) /\ ThumbnailOf(r)' = ThumbnailOf(r)
    OBVIOUS
  <1> QED BY <1>1, <1>2, <1>3 DEF PostAt

\* Pages do not touch the files of posts.
LEMMA PostsRest ==
  ASSUME PostsInv, UNCHANGED postVars, \A n : n # Pic => Kept(n)
  PROVE  PostsInv'
  <1>1. UNCHANGED <<post, pics>>
    BY DEF postVars
  <1>2. AllPosts' = AllPosts /\ \A p \in AllPosts : OwnTitle(p)' <=> OwnTitle(p)
    BY <1>1 DEF AllPosts, OwnTitle, Apart
  <1>3. \A p \in AllPosts : IsPost(post[p])'
    BY <1>1 DEF PostsInv, IsPost, ForFriend
  <1>4. \A p \in AllPosts : \A n \in Names(post[p]) : Kept(n)
    BY NamesApart DEF PostsInv, IsPost
  <1>5. ASSUME NEW p \in AllPosts, OwnTitle(p)
        PROVE  PostAt(post[p], pics[p])'
    <2>1. IsPost(post[p]) /\ PostAt(post[p], pics[p])
      BY <1>5 DEF PostsInv
    <2>2. PICK r, h : r = post[p] /\ h = pics[p]
      OBVIOUS
    <2>3. PostAt(r, h)'
      BY <1>4, <2>1, <2>2, PostStays
    <2> QED BY <1>1, <2>2, <2>3
  <1> QED BY <1>1, <1>2, <1>3, <1>5 DEF PostsInv

\* One post goes on, touching its own names only: the others stay where they are.
LEMMA PostMoves ==
  ASSUME PostsInv, NEW q \in AllPosts, NEW r, Step(q, r), IsPost(r),
         r.folder = post[q].folder, r.uid = post[q].uid, r.title = post[q].title,
         \A n : n \notin Names(post[q]) => Kept(n),
         DOMAIN pics' = Slots, DOMAIN pics'[q] = {"asset", "thumb"},
         \A p \in Slots \ {q} : pics'[p] = pics[p],
         PostAt(post[q], pics[q]) => PostAt(post[q], pics[q])'
  PROVE  PostsInv'
  <1>1. /\ q \in Slots /\ DOMAIN post' = Slots /\ post'[q] = r
        /\ \A p \in Slots \ {q} : post'[p] = post[p]
    BY DEF Step, PostsInv, AllPosts
  <1>2. r # Unused
    BY DEF IsPost, Unused
  <1>3. AllPosts' = AllPosts
    BY <1>1, <1>2 DEF AllPosts, Unused
  <1>4. \A p \in AllPosts : /\ post'[p].folder = post[p].folder /\ post'[p].uid = post[p].uid
                            /\ post'[p].title = post[p].title
    BY <1>1 DEF AllPosts
  <1>5. ASSUME NEW p \in AllPosts, OwnTitle(p)'
        PROVE  OwnTitle(p)
    BY <1>3, <1>4, <1>5 DEF OwnTitle, Apart, Thumbnail
  <1>6. \A p \in AllPosts : IsPost(post[p])'
    <2>1. IsPost(r)'
      BY DEF IsPost, ForFriend
    <2>2. ASSUME NEW p \in AllPosts, p # q
          PROVE  IsPost(post[p])'
      <3>1. IsPost(post[p]) /\ post'[p] = post[p]
        BY <1>1, <2>2 DEF PostsInv, AllPosts
      <3> QED BY <3>1 DEF IsPost, ForFriend
    <2> QED BY <1>1, <2>1, <2>2
  <1>7. ASSUME NEW p \in AllPosts, p # q, OwnTitle(p)
        PROVE  PostAt(post[p], pics[p])'
    <2>1. IsPost(post[p]) /\ PostAt(post[p], pics[p]) /\ IsPost(post[q])
      BY <1>7 DEF PostsInv
    <2>2. Names(post[p]) \cap Names(post[q]) = {}
      BY <1>7, <2>1, NamesApart DEF OwnTitle, IsPost
    <2>3. PICK s, h : s = post[p] /\ h = pics[p]
      OBVIOUS
    <2>4. PostAt(s, h)'
      BY <2>1, <2>2, <2>3, PostStays
    <2>5. s = post'[p] /\ h = pics'[p]
      BY <1>1, <1>7, <2>3 DEF AllPosts
    <2> QED BY <2>4, <2>5
  <1>8. OwnTitle(q) => PostAt(post[q], pics[q])'
    BY DEF PostsInv
  <1>9. \A p \in AllPosts : OwnTitle(p)' => PostAt(post[p], pics[p])'
    BY <1>5, <1>7, <1>8
  <1>10. \A p \in Slots : DOMAIN pics'[p] = {"asset", "thumb"}
    BY <1>1 DEF PostsInv
  <1> QED BY <1>1, <1>3, <1>6, <1>9, <1>10 DEF PostsInv

\* A step that touches no file and makes no picture.
LEMMA PostMovesOn ==
  ASSUME PostsInv, NEW q \in AllPosts, NEW r, Step(q, r), IsPost(r),
         r.folder = post[q].folder, r.uid = post[q].uid, r.title = post[q].title,
         UNCHANGED <<files, pics>>,
         PostAt(post[q], pics[q]) => PostAt(r, pics[q])
  PROVE  PostsInv'
  <1>1. /\ \A n : Kept(n)
        /\ DOMAIN pics' = Slots /\ DOMAIN pics'[q] = {"asset", "thumb"}
        /\ \A p \in Slots \ {q} : pics'[p] = pics[p]
    BY DEF Kept, PostsInv, AllPosts
  <1>2. post'[q] = r
    BY DEF Step, PostsInv, AllPosts
  <1>3. PostAt(post[q], pics[q]) => PostAt(post[q], pics[q])'
    <2>1. PICK h : h = pics[q]
      OBVIOUS
    <2>2. ASSUME PostAt(r, h)
          PROVE  PostAt(r, h)'
      BY <1>1, <2>2, PostStays
    <2> QED BY <1>2, <2>1, <2>2
  <1> QED BY <1>1, <1>3, PostMoves

\* A post is begun.
LEMMA TapInv ==
  ASSUME PostsInv, NEW q \in Slots, Tap(q)
  PROVE  PostsInv'
  <1>1. PICK r \in Draft : Step(q, r)
    BY DEF Tap
  <1>2. UNCHANGED <<files, pics>> /\ post[q] = Unused
    BY DEF Tap
  <1>3. IsPost(r) /\ r.stage = "put" /\ r # Unused
    <2>1. DOMAIN r = {"stage", "folder", "uid", "title", "type", "url", "thumb"}
      BY DEF Draft
    <2>2. r.stage = "put" /\ r.folder \in Folders /\ r.type \in MediaTypes
      BY DEF Draft
    <2> QED BY <2>1, <2>2 DEF IsPost, Unused
  <1>4. DOMAIN post' = Slots /\ post'[q] = r /\ \A p \in Slots \ {q} : post'[p] = post[p]
    BY <1>1 DEF Step, PostsInv
  <1>5. AllPosts' = AllPosts \cup {q} /\ q \notin AllPosts
    BY <1>2, <1>3, <1>4 DEF AllPosts, Unused
  <1>6. \A p \in AllPosts : post'[p] = post[p] /\ p # q
    BY <1>4, <1>5 DEF AllPosts
  <1>7. \A p \in AllPosts' : IsPost(post[p])'
    <2>1. \A p \in AllPosts' : IsPost(post'[p])
      BY <1>3, <1>4, <1>5, <1>6 DEF PostsInv
    <2> QED BY <2>1 DEF IsPost, ForFriend
  <1>8. PostAt(post[q], pics[q])'
    BY <1>3, <1>4 DEF PostAt
  <1>9. ASSUME NEW p \in AllPosts, OwnTitle(p)'
        PROVE  PostAt(post[p], pics[p])'
    <2>1. OwnTitle(p)
      BY <1>5, <1>6, <1>9 DEF OwnTitle, Apart, Thumbnail
    <2>2. PICK s, h : s = post[p] /\ h = pics[p]
      OBVIOUS
    <2>3. IsPost(s) /\ PostAt(s, h)
      BY <2>1, <2>2 DEF PostsInv
    <2>4. PostAt(s, h)'
      BY <1>2, <2>3, PostStays DEF Kept
    <2> QED BY <1>2, <1>6, <2>2, <2>4
  <1> QED BY <1>2, <1>4, <1>5, <1>7, <1>8, <1>9 DEF PostsInv

\* A post that has a stage was begun.
LEMMA IsBegun ==
  ASSUME PostsInv, NEW q \in Slots, post[q].stage # "unused"
  PROVE  q \in AllPosts /\ IsPost(post[q])
  BY DEF PostsInv, AllPosts, Unused

\* The steps without a file
LEMMA QuietInv ==
  ASSUME PostsInv, NEW q \in Slots,
         ThumbnailMade(q) \/ ThumbnailFailed(q) \/ PostFailed(q)
  PROVE  PostsInv'
  <1>1. PICK stage \in {"put thumbnail", "silent", "alerted"} :
          /\ Step(q, [post[q] EXCEPT !.stage = stage])
          /\ stage = "put thumbnail" => post[q].stage = "thumbnail"
    BY DEF ThumbnailMade, ThumbnailFailed, PostFailed
  <1>2. UNCHANGED <<files, pics>> /\ post[q].stage # "unused"
    BY DEF ThumbnailMade, ThumbnailFailed, PostFailed
  <1>3. q \in AllPosts /\ IsPost(post[q])
    BY <1>2, IsBegun
  <1>4. PICK r : r = [post[q] EXCEPT !.stage = stage]
    OBVIOUS
  <1>5. /\ DOMAIN r = DOMAIN post[q] /\ r.stage = stage
        /\ r.folder = post[q].folder /\ r.uid = post[q].uid /\ r.title = post[q].title
        /\ r.type = post[q].type /\ r.url = post[q].url
    BY <1>3, <1>4 DEF IsPost
  <1>6. IsPost(r)
    BY <1>1, <1>3, <1>5 DEF IsPost, ForFriend
  <1>7. FileOf(r) = FileOf(post[q])
    BY <1>5 DEF FileOf
  <1>8. PostAt(post[q], pics[q]) => PostAt(r, pics[q])
    BY <1>1, <1>5, <1>7 DEF PostAt
  <1> QED BY <1>1, <1>2, <1>3, <1>4, <1>5, <1>6, <1>8, PostMovesOn

\* The asset has a name of its own among the names of the post.
LEMMA OwnNames ==
  ASSUME NEW r, IsPost(r)
  PROVE  /\ FileOf(r) \in Names(r)
         /\ ForFriend(r, "VIDEO") => ThumbnailOf(r) \in Names(r) /\ ThumbnailOf(r) # FileOf(r)
  BY DEF Names, FileOf, ThumbnailOf, AssetName, Ext, ForFriend

\* What does not change of a post with its stage and its URLs
LEMMA SamePost ==
  ASSUME NEW s, IsPost(s), NEW r, DOMAIN r = DOMAIN s, r.stage \in {"url", "url of thumbnail", "thumbnail", "saved"},
         r.folder = s.folder, r.uid = s.uid, r.title = s.title, r.type = s.type,
         r.stage \in {"url of thumbnail", "thumbnail"} => ForFriend(s, "VIDEO")
  PROVE  IsPost(r) /\ Names(r) = Names(s) /\ FileOf(r) = FileOf(s) /\ ThumbnailOf(r) = ThumbnailOf(s)
  <1>1. FileOf(r) = FileOf(s) /\ ThumbnailOf(r) = ThumbnailOf(s)
    BY DEF FileOf, ThumbnailOf
  <1>2. ForFriend(r, "VIDEO") <=> ForFriend(s, "VIDEO")
    BY DEF ForFriend
  <1> QED BY <1>1, <1>2 DEF IsPost, Names

LEMMA AssetPutInv ==
  ASSUME PostsInv, NEW q \in Slots, AssetPut(q)
  PROVE  PostsInv'
  <1>1. PICK r : r = [post[q] EXCEPT !.stage = "url"]
    OBVIOUS
  <1>2. /\ Step(q, r) /\ Put(FileOf(post[q])) /\ post[q].stage = "put"
        /\ pics' = [pics EXCEPT ![q].asset = uploads']
    BY <1>1 DEF AssetPut
  <1>3. q \in AllPosts /\ IsPost(post[q])
    BY <1>2, IsBegun
  <1>4. /\ DOMAIN r = DOMAIN post[q] /\ r.stage = "url" /\ r.folder = post[q].folder
        /\ r.uid = post[q].uid /\ r.title = post[q].title /\ r.type = post[q].type
    BY <1>1, <1>3 DEF IsPost
  <1>5. IsPost(r) /\ FileOf(r) = FileOf(post[q])
    BY <1>3, <1>4, SamePost
  <1>6. /\ DOMAIN pics' = Slots /\ DOMAIN pics'[q] = {"asset", "thumb"}
        /\ pics'[q].asset = uploads' /\ \A p \in Slots \ {q} : pics'[p] = pics[p]
    BY <1>2 DEF PostsInv
  <1>7. /\ FileOf(r) \in DOMAIN files' /\ files'[FileOf(r)] = uploads'
        /\ \A n : n \notin Names(post[q]) => Kept(n)
    BY <1>2, <1>3, <1>5, PutKeeps, OwnNames
  <1>8. post'[q] = r
    BY <1>2 DEF Step, PostsInv
  <1>9. PostAt(post[q], pics[q])'
    <2>1. Holds(FileOf(post[q]), pics[q].asset)'
      BY <1>6, <1>7, <1>8 DEF Holds, FileOf
    <2> QED BY <1>4, <1>8, <2>1 DEF PostAt
  <1> QED BY <1>2, <1>3, <1>4, <1>5, <1>6, <1>7, <1>9, PostMoves

LEMMA ThumbnailPutInv ==
  ASSUME PostsInv, NEW q \in Slots, ThumbnailPut(q)
  PROVE  PostsInv'
  <1>1. PICK r : r = [post[q] EXCEPT !.stage = "url of thumbnail"]
    OBVIOUS
  <1>2. /\ Step(q, r) /\ Put(ThumbnailOf(post[q])) /\ post[q].stage = "put thumbnail"
        /\ pics' = [pics EXCEPT ![q].thumb = uploads']
    BY <1>1 DEF ThumbnailPut
  <1>3. q \in AllPosts /\ IsPost(post[q]) /\ ForFriend(post[q], "VIDEO")
    BY <1>2, IsBegun DEF IsPost
  <1>4. /\ DOMAIN r = DOMAIN post[q] /\ r.stage = "url of thumbnail" /\ r.folder = post[q].folder
        /\ r.uid = post[q].uid /\ r.title = post[q].title /\ r.type = post[q].type
        /\ r.url = post[q].url
    BY <1>1, <1>3 DEF IsPost
  <1>5. IsPost(r) /\ FileOf(r) = FileOf(post[q]) /\ ThumbnailOf(r) = ThumbnailOf(post[q])
    BY <1>3, <1>4, SamePost
  <1>6. /\ DOMAIN pics' = Slots /\ DOMAIN pics'[q] = {"asset", "thumb"}
        /\ pics'[q].thumb = uploads' /\ pics'[q].asset = pics[q].asset
        /\ \A p \in Slots \ {q} : pics'[p] = pics[p]
    BY <1>2 DEF PostsInv
  <1>7. /\ ThumbnailOf(r) \in DOMAIN files' /\ files'[ThumbnailOf(r)] = uploads'
        /\ \A n : n \notin Names(post[q]) => Kept(n)
        /\ Kept(FileOf(r))
    <2>1. /\ ThumbnailOf(r) \in DOMAIN files' /\ files'[ThumbnailOf(r)] = uploads'
          /\ \A n : n # ThumbnailOf(r) => Kept(n)
      BY <1>2, <1>5, PutKeeps
    <2>2. ThumbnailOf(r) \in Names(post[q]) /\ ThumbnailOf(r) # FileOf(r)
      BY <1>3, <1>5, OwnNames
    <2> QED BY <2>1, <2>2
  <1>8. post'[q] = r
    BY <1>2 DEF Step, PostsInv
  <1>9. ASSUME PostAt(post[q], pics[q])
        PROVE  PostAt(post[q], pics[q])'
    <2>1. Holds(ThumbnailOf(post[q]), pics[q].thumb)'
      BY <1>6, <1>7, <1>8 DEF Holds, ThumbnailOf
    <2>2. /\ Holds(FileOf(r), pics[q].asset)
          /\ post[q].url.file = FileOf(r) /\ post[q].url.upload = pics[q].asset
      BY <1>2, <1>5, <1>9 DEF PostAt
    <2>3. /\ Holds(FileOf(post[q]), pics[q].asset)'
          /\ post'[q].url.file = FileOf(post'[q]) /\ post'[q].url.upload = pics'[q].asset
      BY <1>4, <1>6, <1>7, <1>8, <2>2 DEF Holds, Kept, FileOf
    <2> QED BY <1>4, <1>8, <2>1, <2>3 DEF PostAt, FileOf
  <1> QED BY <1>2, <1>3, <1>4, <1>5, <1>6, <1>7, <1>9, PostMoves

LEMMA ThumbnailURLInv ==
  ASSUME PostsInv, NEW q \in Slots, ThumbnailURL(q)
  PROVE  PostsInv'
  <1>1. PICK r : r = [post[q] EXCEPT !.stage = "saved", !.thumb = URLOf(ThumbnailOf(post[q]))]
    OBVIOUS
  <1>2. Step(q, r) /\ UNCHANGED <<files, pics>> /\ post[q].stage = "url of thumbnail"
    BY <1>1 DEF ThumbnailURL
  <1>3. q \in AllPosts /\ IsPost(post[q]) /\ ForFriend(post[q], "VIDEO")
    BY <1>2, IsBegun DEF IsPost
  <1>4. /\ DOMAIN r = DOMAIN post[q] /\ r.stage = "saved" /\ r.folder = post[q].folder
        /\ r.uid = post[q].uid /\ r.title = post[q].title /\ r.type = post[q].type
        /\ r.url = post[q].url /\ r.thumb = URLOf(ThumbnailOf(post[q]))
    BY <1>1, <1>3 DEF IsPost
  <1>5. IsPost(r) /\ FileOf(r) = FileOf(post[q]) /\ ThumbnailOf(r) = ThumbnailOf(post[q])
    BY <1>3, <1>4, SamePost
  <1>6. ThumbnailOf(r) \in Names(r)
    <2>1. ThumbnailOf(post[q]) \in Names(post[q])
      BY <1>3, OwnNames
    <2>2. Names(r) = Names(post[q])
      BY <1>3, <1>4, SamePost
    <2> QED BY <1>5, <2>1, <2>2
  <1>7. ASSUME PostAt(post[q], pics[q])
        PROVE  PostAt(r, pics[q])
    <2>1. /\ r.thumb.file = ThumbnailOf(r) /\ r.thumb.upload = files[ThumbnailOf(r)]
      BY <1>4, <1>5 DEF URLOf
    <2>2. /\ Holds(FileOf(r), pics[q].asset) /\ Holds(ThumbnailOf(r), pics[q].thumb)
          /\ r.url.file = FileOf(r) /\ r.url.upload = pics[q].asset
      BY <1>2, <1>4, <1>5, <1>7 DEF PostAt
    <2> QED BY <1>4, <1>6, <2>1, <2>2 DEF PostAt, Holds
  <1> QED BY <1>2, <1>3, <1>4, <1>5, <1>7, PostMovesOn

LEMMA AssetURLInv ==
  ASSUME PostsInv, NEW q \in Slots, AssetURL(q)
  PROVE  PostsInv'
  <1> DEFINE u == URLOf(FileOf(post[q]))
  <1>1. q \in AllPosts /\ IsPost(post[q]) /\ post[q].stage = "url"
    BY IsBegun DEF AssetURL
  <1>2. CASE ForFriend(post[q], "VIDEO")
    <2>1. PICK r : r = [post[q] EXCEPT !.stage = "thumbnail", !.url = u]
      OBVIOUS
    <2>2. Step(q, r) /\ UNCHANGED <<files, pics>>
      BY <1>2, <2>1 DEF AssetURL
    <2>3. /\ DOMAIN r = DOMAIN post[q] /\ r.stage = "thumbnail" /\ r.folder = post[q].folder
          /\ r.uid = post[q].uid /\ r.title = post[q].title /\ r.type = post[q].type
          /\ r.url = u
      BY <1>1, <2>1 DEF IsPost
    <2>4. IsPost(r) /\ FileOf(r) = FileOf(post[q])
      BY <1>1, <1>2, <2>3, SamePost
    <2>5. PostAt(post[q], pics[q]) => PostAt(r, pics[q])
      BY <1>1, <2>3, <2>4 DEF PostAt, URLOf, Holds
    <2> QED BY <1>1, <2>2, <2>3, <2>4, <2>5, PostMovesOn
  <1>3. CASE ~ForFriend(post[q], "VIDEO")
    <2>1. PICK r : r = [post[q] EXCEPT !.stage = "saved", !.url = u, !.thumb = u]
      OBVIOUS
    <2>2. /\ Step(q, r) /\ UNCHANGED files
          /\ pics' = [pics EXCEPT ![q].thumb = pics[q].asset]
      BY <1>3, <2>1 DEF AssetURL
    <2>3. /\ DOMAIN r = DOMAIN post[q] /\ r.stage = "saved" /\ r.folder = post[q].folder
          /\ r.uid = post[q].uid /\ r.title = post[q].title /\ r.type = post[q].type
          /\ r.url = u /\ r.thumb = u
      BY <1>1, <2>1 DEF IsPost
    <2>4. IsPost(r) /\ FileOf(r) = FileOf(post[q])
      BY <1>1, <2>3, SamePost
    <2>5. /\ DOMAIN pics' = Slots /\ DOMAIN pics'[q] = {"asset", "thumb"}
          /\ pics'[q].thumb = pics[q].asset /\ pics'[q].asset = pics[q].asset
          /\ \A p \in Slots \ {q} : pics'[p] = pics[p]
      BY <2>2 DEF PostsInv
    <2>6. \A n : Kept(n)
      BY <2>2 DEF Kept
    <2>7. post'[q] = r
      BY <2>2 DEF Step, PostsInv
    <2>8. ASSUME PostAt(post[q], pics[q])
          PROVE  PostAt(post[q], pics[q])'
      <3>1. PICK h : h = pics'[q]
        OBVIOUS
      <3>2. Holds(FileOf(r), h.asset) /\ h.thumb = h.asset
        BY <1>1, <2>4, <2>5, <2>8, <3>1 DEF PostAt
      <3>3. FileOf(r) \in Names(r) /\ u.file = FileOf(r) /\ u.upload = files[FileOf(r)]
        BY <2>4, OwnNames DEF URLOf
      <3>4. PostAt(r, h)
        BY <2>3, <3>2, <3>3 DEF PostAt, Holds
      <3>5. PostAt(r, h)'
        BY <2>4, <2>6, <3>4, PostStays
      <3> QED BY <2>7, <3>1, <3>5
    <2> QED BY <1>1, <2>2, <2>3, <2>4, <2>5, <2>6, <2>8, PostMoves
  <1> QED BY <1>2, <1>3

\* All steps of the posts.
LEMMA PostsNextInv ==
  ASSUME PostsInv, PostsNext
  PROVE  PostsInv'
  <1>1. PICK q \in Slots : Tap(q) \/ PostAnswer(q) \/ PostFailed(q)
    BY DEF PostsNext
  <1> QED
    BY <1>1, TapInv, AssetPutInv, AssetURLInv, ThumbnailPutInv, ThumbnailURLInv, QuietInv
       DEF PostAnswer

\* Posts do not touch the picture.
LEMMA PagesRest ==
  ASSUME ProfileInv, PostsInv, PostsNext, UNCHANGED profileVars
  PROVE  ProfileInv'
  <1>1. UNCHANGED <<profile, shown, job, written, raced, crossed>>
    BY DEF profileVars
  <1>2. PICK q \in Slots : Tap(q) \/ PostAnswer(q) \/ PostFailed(q)
    BY DEF PostsNext
  <1>3. failures' = failures \/ failures' = failures + 1
    BY <1>2 DEF Tap, PostAnswer, PostFailed, AssetPut, AssetURL, ThumbnailMade, ThumbnailFailed,
                ThumbnailPut, ThumbnailURL, Fail, Put
  <1>4. Kept(Pic)
    <2>1. ASSUME IsPost(post[q])
          PROVE  Pic # FileOf(post[q]) /\ (ForFriend(post[q], "VIDEO") => Pic # ThumbnailOf(post[q]))
      <3>1. Pic \notin Names(post[q])
        BY <2>1, NamesApart DEF IsPost
      <3>2. /\ FileOf(post[q]) \in Names(post[q])
            /\ ForFriend(post[q], "VIDEO") => ThumbnailOf(post[q]) \in Names(post[q])
        BY <2>1, OwnNames
      <3> QED BY <3>1, <3>2
    <2>2. CASE AssetPut(q)
      <3>1. Put(FileOf(post[q])) /\ IsPost(post[q])
        BY <2>2, IsBegun DEF AssetPut
      <3> QED BY <2>1, <3>1, PutKeeps
    <2>3. CASE ThumbnailPut(q)
      <3>1. Put(ThumbnailOf(post[q])) /\ IsPost(post[q]) /\ ForFriend(post[q], "VIDEO")
        BY <2>3, IsBegun DEF ThumbnailPut, IsPost
      <3> QED BY <2>1, <3>1, PutKeeps
    <2>4. CASE UNCHANGED files
      BY <2>4 DEF Kept
    <2> QED
      BY <1>2, <2>2, <2>3, <2>4 DEF Tap, PostAnswer, PostFailed, AssetURL, ThumbnailMade,
                                    ThumbnailFailed, ThumbnailURL
  <1>5. CountersOK' /\ (PictureSafe' => PictureSafe)
    BY <1>1, <1>3 DEF ProfileInv, CountersOK, PictureSafe
  <1>6. DocsOK' /\ JobsOK' /\ RaceOK'
    BY <1>1 DEF ProfileInv, DocsOK, JobsOK, IsJob, IsDoc, Pic, RaceOK, Holding
  <1>7. Running("photo")' = Running("photo") /\ \A d \in Running("photo") : d \in Devices
    BY <1>1 DEF Running, None
  <1>8. \A url : url.file = Pic /\ Opens(url) => Opens(url)'
    BY <1>4 DEF Opens, Kept
  <1>9. \A d \in Running("photo") : IsJob("photo", job[d]["photo"])
    BY <1>7, KindsAre DEF ProfileInv, JobsOK, Running
  <1>10. PictureOK'
    <2> SUFFICES ASSUME PictureSafe' PROVE PictureOK'
      BY DEF PictureOK
    <2>1. profile.url.file = Pic
      BY DEF ProfileInv, DocsOK, IsDoc
    <2>2. \A d \in Running("photo") : PictureAt(job[d]["photo"])
      BY <1>5 DEF ProfileInv, PictureOK
    <2>3. ASSUME NEW d \in Running("photo")
          PROVE  PictureAt(job[d]["photo"])'
      <3>1. PICK j : j = job[d]["photo"]
        OBVIOUS
      <3>2. IsJob("photo", j) /\ PictureAt(j)
        BY <1>9, <2>2, <3>1
      <3>3. Opens(profile.url) => Opens(profile.url)'
        BY <1>1, <2>1, <1>4 DEF Opens, Kept
      <3>4. j.stage = "delete" => Opens(profile.url)'
        BY <3>2, <3>3 DEF PictureAt
      <3>5. j.stage = "url" => Pic \in DOMAIN files'
        BY <1>4, <3>2 DEF PictureAt, Kept
      <3>6. j.stage \in {"read", "write"} => Opens(j.url)'
        BY <1>8, <3>2 DEF PictureAt, IsJob
      <3>7. PictureAt(j)'
        BY <3>4, <3>5, <3>6 DEF PictureAt, Pic
      <3> QED BY <1>1, <3>1, <3>7
    <2>4. Running("photo") = {} => Opens(profile.url)'
      BY <1>1, <1>4, <1>5, <2>1 DEF ProfileInv, PictureOK, Opens, Kept
    <2> QED BY <1>5, <1>7, <2>3, <2>4 DEF ProfileInv, PictureOK
  <1> QED BY <1>5, <1>6, <1>10 DEF ProfileInv

\* Every step.
LEMMA StepInv == IInv /\ [Next]_vars => IInv'
  <1> SUFFICES ASSUME IInv, [Next]_vars PROVE IInv'
    OBVIOUS
  <1>1. CASE UNCHANGED vars
    <2>1. UNCHANGED <<files, failures, profile, shown, job, written, raced, crossed, postVars>>
      BY <1>1 DEF vars, profileVars
    <2>2. PostsInv'
      BY <2>1, PostsRest DEF IInv, Kept
    <2>3. Running("photo")' = Running("photo")
      BY <2>1 DEF Running, None
    <2>4. PictureOK'
      BY <2>1, <2>3, PictureStays DEF IInv, ProfileInv, PictureSafe
    <2>5. CountersOK' /\ DocsOK' /\ JobsOK' /\ RaceOK'
      BY <2>1 DEF IInv, ProfileInv, CountersOK, DocsOK, JobsOK, IsJob, IsDoc, Pic, RaceOK, Holding
    <2> QED BY <2>2, <2>4, <2>5 DEF IInv, ProfileInv
  <1>2. CASE ProfileNext /\ UNCHANGED postVars
    BY <1>2, ProfileNextInv, PostsRest DEF IInv
  <1>3. CASE PostsNext /\ UNCHANGED profileVars
    BY <1>3, PostsNextInv, PagesRest DEF IInv
  <1> QED BY <1>1, <1>2, <1>3 DEF Next

\* The claim about names, jobs and copies holds along every behaviour.
THEOREM NamesHeld == Spec => []IInv
  BY InitInv, StepInv, PTL DEF Spec

\* changeProfilePhoto: without failures, races and overlapping pictures the profile
\* has a picture that opens whenever none is being changed.
THEOREM PictureStaysOpen == Spec => []PictureOpens
  BY NamesHeld, IInvImplies, PTL

\* changeName, updateProfileURL: as long as nobody reads between another's read and
\* write, the profile has the last name and the last picture.
THEOREM NothingLost == Spec => []FieldsKept
  BY NamesHeld, IInvImplies, PTL

\* uploadMedia, uploadStory: a saved post with a title of its own shows its asset and
\* its thumbnail, whatever fails, is posted or is changed besides.
THEOREM PostsKeepTheirs == Spec => []PostsShowTheirs
  BY NamesHeld, IInvImplies, PTL
================================================================================
