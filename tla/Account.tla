-------------------------------- MODULE Account --------------------------------
(***************************************************************************)
(* Signing up, signing in and logging out on one device.  Three services   *)
(* keep the state: Firebase Auth (accounts, and the one current user of    *)
(* the device), the users collection (profiles) and Core Data (one stored  *)
(* credential).  Every tap on Create or Login starts a chain of requests   *)
(* whose closures outlive the screen, and no button waits for an answer.   *)
(***************************************************************************)
EXTENDS Naturals

CONSTANTS
  Accounts,   \* e-mail addresses, each of at most one account
  Slots,      \* bound: chains of requests in flight at a time
  None,       \* no user, no credential
  MaxTaps,    \* bound: chains ever started
  MaxErrors,  \* bound: requests that fail
  MaxKills,   \* bound: times the app is ended
  MaxResets,  \* bound: password resets
  MaxEdits,   \* bound: times the text fields change under a request
  MaxCovers   \* bound: full-screen presentations over the home screen

ASSUME AccountBounds ==
  /\ None \notin Accounts
  /\ \A b \in {MaxTaps, MaxErrors, MaxKills, MaxResets, MaxEdits, MaxCovers} : b \in Nat

VARIABLES
  auth,         \* auth[a]: a's account in Firebase Auth
  pw,           \* pw[a]: the version of a's password
  mailed,       \* accounts that were sent a verification mail
  profiles,     \* the users collection: [userID, userEmail]
  current,      \* Auth.auth().currentUser; persistent
  credential,   \* the Credential in Core Data; persistent
  screen,       \* the screen in front
  prompt,       \* LoginViewController asks for the face or the finger
  homeListener, \* HomeTabController listens to the auth state
  chain,        \* chain[s]: a sign-up or sign-in in flight
  accepted,     \* history: e-mail and password pairs Auth has accepted
  taps, errors, kills, resets, edits, covers   \* counters against the bounds

counters == <<taps, errors, kills, resets, edits, covers>>
server == <<auth, pw, mailed, profiles>>
device == <<current, credential, screen, prompt, homeListener, chain, accepted>>
vars == <<server, device, counters>>

Screens == {"landing", "signup", "login", "home"}
Typed == [acct : Accounts, pw : 0 .. MaxResets]

\* acct, pw: what was sent.  field: the text fields of the chain's screen by
\* now.  front: that screen is still in front.  verified: isEmailVerified of the
\* user that signIn answered with.  uid: whose profile is asked for.
Chain == [stage : {"create", "mail", "upload", "signin", "callback", "profile"},
          sent : Typed, field : Typed, front : BOOLEAN, verified : BOOLEAN,
          uid : Accounts \cup {None}]
Idle == [stage |-> "idle"]

Flying(s) == chain[s] # Idle
HasProfile(a) == \E p \in profiles : p.userID = a

Init ==
  /\ auth = [a \in Accounts |-> "none"] /\ pw = [a \in Accounts |-> 0]
  /\ mailed = {} /\ profiles = {} /\ accepted = {}
  /\ current = None /\ credential = None
  /\ screen = "landing" /\ prompt = FALSE /\ homeListener = FALSE
  /\ chain = [s \in Slots |-> Idle]
  /\ taps = 0 /\ errors = 0 /\ kills = 0 /\ resets = 0 /\ edits = 0 /\ covers = 0

-----------------------------------------------------------------------------
(* Screens.  All are presented over each other in full; none is dismissed, *)
(* and the closures of a covered one still run.                            *)

\* Mutant: a screen does not know that it is covered
CoveredUnknown(c) == c

Covered(c) == [s \in Slots |-> IF c[s] = Idle THEN Idle ELSE [c[s] EXCEPT !.front = FALSE]]

Retyped(c, f) ==
  [s \in Slots |-> IF c[s] # Idle /\ c[s].front THEN [c[s] EXCEPT !.field = f] ELSE c[s]]

\* Mutant: the home screen does not listen to the auth state
PresentDeaf(to, c) ==
  /\ screen' = to /\ chain' = Covered(c)
  /\ prompt' = (to = "login" /\ credential # None)
  /\ homeListener' = FALSE

\* A new LoginViewController asks for biometrics if there is a credential
Present(to, c) ==
  /\ screen' = to /\ chain' = Covered(c)
  /\ prompt' = (to = "login" /\ credential # None)
  /\ homeListener' = (to = "home")

Go(to) ==
  /\ to \in CASE screen = "landing" -> {"signup", "login"}
              [] screen = "login"   -> {"signup", "landing"}
              [] screen = "signup"  -> {"landing"}
              [] screen = "home"    -> {}
  /\ ~prompt
  /\ Present(to, chain)
  /\ UNCHANGED <<server, current, credential, accepted, counters>>

Starts(s, stage, sent, field) ==
  /\ ~Flying(s) /\ taps < MaxTaps /\ taps' = taps + 1
  /\ chain' = [Retyped(chain, field) EXCEPT ![s] =
                 [stage |-> stage, sent |-> sent, field |-> field, front |-> TRUE,
                  verified |-> FALSE, uid |-> None]]

\* createButtonTapped with fields that validate
TapCreate(s, a) ==
  /\ screen = "signup"
  /\ LET f == [acct |-> a, pw |-> 0] IN Starts(s, "create", f, f)
  /\ UNCHANGED <<server, current, credential, screen, prompt, homeListener, accepted,
                 errors, kills, resets, edits, covers>>

TapLogin(s, f) ==
  /\ screen = "login" /\ ~prompt
  /\ Starts(s, "signin", f, f)
  /\ UNCHANGED <<server, current, credential, screen, prompt, homeListener, accepted,
                 errors, kills, resets, edits, covers>>

\* initiateAuthentication: the face is recognised, or the prompt is cancelled
Recognised(s) ==
  /\ prompt /\ prompt' = FALSE
  /\ Starts(s, "signin", credential, credential)
  /\ UNCHANGED <<server, current, credential, screen, homeListener, accepted,
                 errors, kills, resets, edits, covers>>

NotRecognised ==
  /\ prompt /\ prompt' = FALSE
  /\ UNCHANGED <<server, current, credential, screen, homeListener, chain, accepted, counters>>

\* Text fields changed while a request of their screen is in flight
Edit(f) ==
  /\ edits < MaxEdits /\ edits' = edits + 1
  /\ Retyped(chain, f) # chain /\ chain' = Retyped(chain, f)
  /\ UNCHANGED <<server, current, credential, screen, prompt, homeListener, accepted,
                 taps, errors, kills, resets, covers>>

-----------------------------------------------------------------------------
(* Signing up.                                                             *)

At(s, stage) == Flying(s) /\ chain[s].stage = stage

\* createUser signs the new user in; the mail goes to that user
UserCreated(s) ==
  /\ At(s, "create")
  /\ LET a == chain[s].sent.acct IN
       /\ auth[a] = "none"
       /\ auth' = [auth EXCEPT ![a] = "unverified"] /\ current' = a
  /\ chain' = [chain EXCEPT ![s].stage = "mail"]
  /\ UNCHANGED <<pw, mailed, profiles, credential, screen, prompt, homeListener, accepted,
                 counters>>

EmailInUse(s) ==
  /\ At(s, "create") /\ auth[chain[s].sent.acct] # "none"
  /\ chain' = [chain EXCEPT ![s] = Idle]
  /\ UNCHANGED <<server, current, credential, screen, prompt, homeListener, accepted, counters>>

\* createUserAccountSuccess uploads the picture
MailSent(s) ==
  /\ At(s, "mail")
  /\ mailed' = mailed \cup {chain[s].sent.acct}
  /\ chain' = [chain EXCEPT ![s].stage = "upload"]
  /\ UNCHANGED <<auth, pw, profiles, current, credential, screen, prompt, homeListener,
                 accepted, counters>>

\* The profile gets the CURRENT user's ID and the CURRENT text of the e-mail field;
\* with no current user nothing is saved.  OK leads to the login screen.
Uploaded(s) ==
  /\ At(s, "upload")
  /\ LET rest == [chain EXCEPT ![s] = Idle] IN
       IF current = None
       THEN /\ chain' = rest /\ UNCHANGED <<profiles, screen, prompt, homeListener>>
       ELSE /\ profiles' = profiles \cup {[userID |-> current, userEmail |-> chain[s].field.acct]}
            /\ IF chain[s].front THEN Present("login", rest)
               ELSE chain' = rest /\ UNCHANGED <<screen, prompt, homeListener>>
  /\ UNCHANGED <<auth, pw, mailed, current, credential, accepted, counters>>

\* Any request of either chain fails: an alert, or nothing at all
Fails(s) ==
  /\ Flying(s) /\ chain[s].stage # "callback"
  /\ errors < MaxErrors /\ errors' = errors + 1
  /\ chain' = [chain EXCEPT ![s] = Idle]
  /\ UNCHANGED <<server, current, credential, screen, prompt, homeListener, accepted,
                 taps, kills, resets, edits, covers>>

-----------------------------------------------------------------------------
(* Signing in.                                                             *)

Accepts(f) == auth[f.acct] # "none" /\ pw[f.acct] = f.pw

\* signIn: Auth has a new current user, and only then calls back
SignedIn(s) ==
  /\ At(s, "signin") /\ Accepts(chain[s].sent)
  /\ current' = chain[s].sent.acct
  /\ accepted' = accepted \cup {chain[s].sent}
  /\ chain' = [chain EXCEPT ![s].stage = "callback",
                            ![s].verified = (auth[chain[s].sent.acct] = "verified")]
  /\ UNCHANGED <<server, credential, screen, prompt, homeListener, counters>>

\* Mutant: the fields are stored although they were refused
RefusedStoring(s) ==
  /\ At(s, "signin") /\ ~Accepts(chain[s].sent)
  /\ credential' = IF credential = None THEN chain[s].field ELSE credential
  /\ chain' = [chain EXCEPT ![s] = Idle]
  /\ UNCHANGED <<server, current, screen, prompt, homeListener, accepted, counters>>

Refused(s) ==
  /\ At(s, "signin") /\ ~Accepts(chain[s].sent)
  /\ chain' = [chain EXCEPT ![s] = Idle]
  /\ UNCHANGED <<server, current, credential, screen, prompt, homeListener, accepted, counters>>

\* signInToUserAccountSuccess, not verified: a new mail to the current user, if it can be sent
Unverified(s) ==
  /\ At(s, "callback") /\ ~chain[s].verified
  /\ mailed' \in {mailed, mailed \cup ({current} \ {None})}
  /\ chain' = [chain EXCEPT ![s] = Idle]
  /\ UNCHANGED <<auth, pw, profiles, current, credential, screen, prompt, homeListener,
                 accepted, counters>>

\* Mutant: isVerified is not looked at
VerifiedUnchecked(s) ==
  /\ At(s, "callback")
  /\ credential' = IF credential = None THEN chain[s].field ELSE credential
  /\ chain' = [chain EXCEPT ![s].stage = "profile", ![s].uid = current]
  /\ UNCHANGED <<server, current, screen, prompt, homeListener, accepted, counters>>

\* Mutant: the profile is asked for only after storing a new credential
VerifiedOnce(s) ==
  /\ At(s, "callback") /\ chain[s].verified
  /\ credential' = IF credential = None THEN chain[s].field ELSE credential
  /\ chain' = IF credential = None
              THEN [chain EXCEPT ![s].stage = "profile", ![s].uid = current]
              ELSE [chain EXCEPT ![s] = Idle]
  /\ UNCHANGED <<server, current, screen, prompt, homeListener, accepted, counters>>

\* ... verified: the text fields are stored if nothing is, and the current
\* user's profile is asked for
Verified(s) ==
  /\ At(s, "callback") /\ chain[s].verified
  /\ credential' = IF credential = None THEN chain[s].field ELSE credential
  /\ chain' = [chain EXCEPT ![s].stage = "profile", ![s].uid = current]
  /\ UNCHANGED <<server, current, screen, prompt, homeListener, accepted, counters>>

\* goToHomeScreen, if there is a profile and UIKit can present from this screen
ProfileFetched(s) ==
  /\ At(s, "profile")
  /\ LET rest == [chain EXCEPT ![s] = Idle] IN
       IF chain[s].front /\ HasProfile(chain[s].uid) THEN Present("home", rest)
       ELSE chain' = rest /\ UNCHANGED <<screen, prompt, homeListener>>
  /\ UNCHANGED <<server, current, credential, accepted, counters>>

-----------------------------------------------------------------------------
(* The home screen, and the world.                                         *)

Logout ==
  /\ screen = "home" /\ current # None
  /\ current' = None
  /\ UNCHANGED <<server, credential, screen, prompt, homeListener, chain, accepted, counters>>

\* userChangeDetected(status: true)
AuthChanged ==
  /\ screen = "home" /\ homeListener /\ current = None
  /\ Present("landing", chain)
  /\ UNCHANGED <<server, current, credential, accepted, counters>>

\* A chat, a story or a media picker in full screen over the tabs:
\* viewWillDisappear removes the listener, and viewDidLoad does not run again
CoverHome ==
  /\ screen = "home" /\ covers < MaxCovers /\ covers' = covers + 1
  /\ homeListener' = FALSE
  /\ UNCHANGED <<server, current, credential, screen, prompt, chain, accepted,
                 taps, errors, kills, resets, edits>>

Kill ==
  /\ kills < MaxKills /\ kills' = kills + 1
  /\ screen' = "landing" /\ prompt' = FALSE /\ homeListener' = FALSE
  /\ chain' = [s \in Slots |-> Idle]
  /\ UNCHANGED <<server, current, credential, accepted, taps, errors, resets, edits, covers>>

\* The link of a verification mail is followed
Verify(a) ==
  /\ a \in mailed /\ auth[a] = "unverified"
  /\ auth' = [auth EXCEPT ![a] = "verified"]
  /\ UNCHANGED <<pw, mailed, profiles, device, counters>>

\* forgotPassword, then the link of its mail
ResetPassword(a) ==
  /\ auth[a] # "none" /\ resets < MaxResets /\ resets' = resets + 1
  /\ pw' = [pw EXCEPT ![a] = @ + 1]
  /\ UNCHANGED <<auth, mailed, profiles, device, taps, errors, kills, edits, covers>>

SignUp(s) == UserCreated(s) \/ EmailInUse(s) \/ MailSent(s) \/ Uploaded(s)

SignIn(s) == SignedIn(s) \/ Refused(s) \/ Unverified(s) \/ Verified(s) \/ ProfileFetched(s)

Person ==
  \/ \E to \in Screens : Go(to)
  \/ \E s \in Slots, a \in Accounts : TapCreate(s, a)
  \/ \E s \in Slots, f \in Typed : TapLogin(s, f)
  \/ \E s \in Slots : Recognised(s)
  \/ NotRecognised
  \/ \E f \in Typed : Edit(f)
  \/ Logout \/ CoverHome

World ==
  \/ \E s \in Slots : Fails(s)
  \/ Kill
  \/ \E a \in Accounts : Verify(a) \/ ResetPassword(a)

Next == (\E s \in Slots : SignUp(s) \/ SignIn(s)) \/ AuthChanged \/ Person \/ World

Spec == Init /\ [][Next]_vars

\* Requests are answered and listeners called; nobody has to tap
FairSpec == Spec /\ (\A s \in Slots : WF_vars(SignUp(s) \/ SignIn(s))) /\ WF_vars(AuthChanged)

-----------------------------------------------------------------------------
(* Properties.                                                             *)

\* Auth, the profiles and the device hold what the models say; the chains in
\* flight are of a screen that has such a button.
TypeOK ==
  /\ auth \in [Accounts -> {"none", "unverified", "verified"}]
  /\ pw \in [Accounts -> 0 .. MaxResets] /\ mailed \subseteq Accounts
  /\ profiles \subseteq [userID : Accounts, userEmail : Accounts]
  /\ current \in Accounts \cup {None} /\ credential \in Typed \cup {None}
  /\ screen \in Screens /\ prompt \in BOOLEAN /\ homeListener \in BOOLEAN
  /\ accepted \subseteq Typed
  /\ \A s \in Slots : Flying(s) => chain[s] \in Chain /\
       (chain[s].front => screen = IF chain[s].stage \in {"create", "mail", "upload"}
                                   THEN "signup" ELSE "login")

\* The e-mail of a new profile, its ID and the credential that is stored are read
\* when answers come, long after the tap.  If no text was edited under a request, a
\* profile is under the ID of the account with its e-mail (uploadSuccessFull), and
\* what is stored for the automatic login is a pair that Auth has accepted.
LateReadsAgree ==
  edits = 0 =>
    /\ \A p \in profiles : p.userEmail = p.userID
    /\ credential # None => credential \in accepted

\* README: "user should be verified before logging in".  Whoever the services
\* take for the user of the home screen (getUserID) has a verified address and a
\* profile, which every tab takes for granted.
\* (With two chains in flight it can be another one: see README.md.)
HomeIsRegistered ==
  screen = "home" /\ current # None => auth[current] = "verified" /\ HasProfile(current)

\* Once nobody is signed in the home screen goes away, if nothing was presented
\* over the tabs in full.
LogoutLeaves ==
  (screen = "home" /\ current = None /\ covers = 0) ~> (screen # "home" \/ covers > 0)

\* An accepted sign-in of a verified account with a profile opens the home screen,
\* unless its login screen was left or the profile could not be fetched.
SignInEnters ==
  \A s \in Slots :
    (At(s, "callback") /\ chain[s].verified /\ HasProfile(current) /\ chain[s].front)
      ~> (screen # "login" \/ errors > 0)

-----------------------------------------------------------------------------
(* What one would expect of logging in and out,                             *)
(* but the code does not keep: TLC finds each violated, at the instance    *)
(* that README.md names.                                                   *)

\* README: a user can log out from the application.  Once nobody is signed in the
\* home screen goes away.  (It stays after a full-screen cover: viewWillDisappear
\* removed the listener and viewDidLoad does not run again.)
LogoutAlwaysLeaves == (screen = "home" /\ current = None) ~> (screen # "home" \/ current # None)

\* README: "if login is successful, application will store credentials [...] and
\* later use it to automatically login the user".  A login that opens the home
\* screen leaves its own e-mail and password stored.  (It does not: a credential
\* that is there is never replaced.)
LoginIsRemembered ==
  [][\A s \in Slots :
       At(s, "profile") /\ chain'[s] = Idle /\ screen # "home" /\ screen' = "home"
         => credential = chain[s].sent]_vars

=============================================================================
