----------------------------- MODULE AccountProofs -----------------------------
(***************************************************************************)
(* Proofs about Account: its types, for any number of chains, and, as long *)
(* as one chain runs at a time, what late answers write and who gets home. *)
(***************************************************************************)
EXTENDS Account, TLAPS

\* The screen that a chain's button is on
ScreenOf(stage) == IF stage \in {"create", "mail", "upload"} THEN "signup" ELSE "login"

\* A chain in flight is of its screen
OnItsScreen(c, scr) == c # Idle /\ c.front => scr = ScreenOf(c.stage)

\* Auth and the profiles; no password is ahead of the resets
ServerShape ==
  /\ auth \in [Accounts -> {"none", "unverified", "verified"}]
  /\ pw \in [Accounts -> 0 .. MaxResets] /\ \A a \in Accounts : pw[a] <= resets
  /\ mailed \subseteq Accounts
  /\ profiles \subseteq [userID : Accounts, userEmail : Accounts]

\* What is read late: current user, credential; the counters that matter
LateShape ==
  /\ current \in Accounts \cup {None} /\ credential \in Typed \cup {None}
  /\ accepted \subseteq Typed
  /\ resets \in 0 .. MaxResets /\ edits \in Nat

\* The screen; a prompt has a credential to send
ScreenShape ==
  /\ screen \in Screens /\ prompt \in BOOLEAN /\ homeListener \in BOOLEAN
  /\ prompt => credential # None /\ screen = "login"

ChainsShape ==
  /\ chain \in [Slots -> Chain \cup {Idle}]
  /\ \A s \in Slots : OnItsScreen(chain[s], screen)

\* TypeOK and what it rests on
Shape == ServerShape /\ LateShape /\ ScreenShape /\ ChainsShape

-----------------------------------------------------------------------------
\* TypeOK follows.
LEMMA ShapeIsTyped == Shape => TypeOK
  <1> SUFFICES ASSUME Shape PROVE TypeOK
    OBVIOUS
  <1>1. \A s \in Slots : Flying(s) => chain[s] \in Chain /\
          (chain[s].front => screen = IF chain[s].stage \in {"create", "mail", "upload"}
                                      THEN "signup" ELSE "login")
    BY DEF Shape, ChainsShape, Flying, OnItsScreen, ScreenOf
  <1> QED BY <1>1 DEF Shape, ServerShape, LateShape, ScreenShape, TypeOK

\* No chain in flight is taken for none.
LEMMA ChainNotIdle == \A c \in Chain : c # Idle /\ c.stage # "idle"
  BY DEF Chain, Idle

\* Before anything was tapped.
LEMMA InitShape == Init => Shape
  <1> SUFFICES ASSUME Init PROVE Shape
    OBVIOUS
  <1>1. MaxResets \in Nat
    BY AccountBounds
  <1>2. ServerShape
    BY <1>1 DEF Init, ServerShape
  <1>3. ChainsShape
    BY DEF Init, OnItsScreen, ChainsShape
  <1>4. LateShape
    BY <1>1 DEF Init, LateShape
  <1>5. ScreenShape
    BY DEF Init, ScreenShape, Screens
  <1> QED BY <1>2, <1>3, <1>4, <1>5 DEF Shape

\* Covering the screens leaves no chain in front.
LEMMA CoveredChains ==
  ASSUME NEW c \in [Slots -> Chain \cup {Idle}]
  PROVE  /\ Covered(c) \in [Slots -> Chain \cup {Idle}]
         /\ \A s \in Slots : \A scr : OnItsScreen(Covered(c)[s], scr)
         /\ \A s \in Slots : c[s] = Idle => Covered(c)[s] = Idle
         /\ \A s \in Slots : c[s] # Idle =>
              /\ Covered(c)[s] # Idle /\ c[s] \in Chain
              /\ Covered(c)[s].stage = c[s].stage /\ Covered(c)[s].sent = c[s].sent
              /\ Covered(c)[s].field = c[s].field /\ Covered(c)[s].uid = c[s].uid
              /\ Covered(c)[s].verified = c[s].verified
  <1> DEFINE Back(r) == [r EXCEPT !.front = FALSE]
  <1>1. \A r \in Chain : /\ Back(r) \in Chain /\ ~Back(r).front /\ Back(r).stage = r.stage
                         /\ Back(r).sent = r.sent /\ Back(r).field = r.field
                         /\ Back(r).uid = r.uid /\ Back(r).verified = r.verified
    BY DEF Chain
  <1>2. Covered(c) = [s \in Slots |-> IF c[s] = Idle THEN Idle ELSE Back(c[s])]
    BY DEF Covered
  <1> HIDE DEF Back
  <1>3. \A s \in Slots : c[s] # Idle => c[s] \in Chain /\ Covered(c)[s] = Back(c[s])
    BY <1>2
  <1>4. \A s \in Slots : c[s] = Idle => Covered(c)[s] = Idle
    BY <1>2
  <1>5. \A s \in Slots : Covered(c)[s] \in Chain \cup {Idle}
    BY <1>1, <1>3, <1>4
  <1>6. Covered(c) \in [Slots -> Chain \cup {Idle}]
    BY <1>2, <1>5
  <1>7. \A s \in Slots : \A scr : OnItsScreen(Covered(c)[s], scr)
    BY <1>1, <1>3, <1>4 DEF OnItsScreen
  <1> QED BY <1>1, <1>3, <1>4, <1>6, <1>7, ChainNotIdle

\* Text typed on a screen changes the fields of its chains and nothing else of them.
LEMMA RetypedChains ==
  ASSUME NEW c \in [Slots -> Chain \cup {Idle}], NEW f \in Typed
  PROVE  /\ Retyped(c, f) \in [Slots -> Chain \cup {Idle}]
         /\ \A s \in Slots : \A scr : OnItsScreen(c[s], scr) => OnItsScreen(Retyped(c, f)[s], scr)
         /\ \A s \in Slots : c[s] = Idle => Retyped(c, f)[s] = Idle
         /\ \A s \in Slots : c[s] # Idle =>
              /\ Retyped(c, f)[s] # Idle
              /\ Retyped(c, f)[s].stage = c[s].stage /\ Retyped(c, f)[s].sent = c[s].sent
              /\ Retyped(c, f)[s].uid = c[s].uid
              /\ Retyped(c, f)[s].verified = c[s].verified
  <1> DEFINE Anew(r) == [r EXCEPT !.field = f]
  <1>1. \A r \in Chain : /\ Anew(r) \in Chain /\ Anew(r).front = r.front
                         /\ Anew(r).stage = r.stage /\ Anew(r).sent = r.sent
                         /\ Anew(r).uid = r.uid /\ Anew(r).verified = r.verified
    BY DEF Chain
  <1>2. Retyped(c, f) =
          [s \in Slots |-> IF c[s] # Idle /\ c[s].front THEN Anew(c[s]) ELSE c[s]]
    BY DEF Retyped
  <1> HIDE DEF Anew
  <1>3. \A s \in Slots : c[s] = Idle => Retyped(c, f)[s] = Idle
    BY <1>2
  <1>4. \A s \in Slots : c[s] # Idle => /\ c[s] \in Chain
                                       /\ Retyped(c, f)[s] \in {c[s], Anew(c[s])}
    BY <1>2
  <1>5. \A s \in Slots : Retyped(c, f)[s] \in Chain \cup {Idle}
    BY <1>1, <1>3, <1>4
  <1>6. Retyped(c, f) \in [Slots -> Chain \cup {Idle}]
    BY <1>2, <1>5
  <1>7. \A s \in Slots : \A scr : OnItsScreen(c[s], scr) => OnItsScreen(Retyped(c, f)[s], scr)
    BY <1>1, <1>3, <1>4 DEF OnItsScreen
  <1> QED BY <1>1, <1>3, <1>4, <1>6, <1>7, ChainNotIdle

\* A new chain is in front, on the screen it was started from.
LEMMA StartsShape ==
  ASSUME Shape, NEW s \in Slots, NEW stage \in {"create", "signin"},
         NEW f \in Typed, Starts(s, stage, f, f), screen = ScreenOf(stage), UNCHANGED screen
  PROVE  ChainsShape'
  <1>1. chain \in [Slots -> Chain \cup {Idle}] /\ \A t \in Slots : OnItsScreen(chain[t], screen)
    BY DEF Shape, ChainsShape
  <1> DEFINE new == [stage |-> stage, sent |-> f, field |-> f, front |-> TRUE,
                     verified |-> FALSE, uid |-> None]
  <1>2. new \in Chain /\ OnItsScreen(new, screen)
    BY DEF Chain, OnItsScreen
  <1>3. chain' = [Retyped(chain, f) EXCEPT ![s] = new]
    BY DEF Starts
  <1> HIDE DEF new
  <1> QED BY <1>1, <1>2, <1>3, RetypedChains DEF ChainsShape

\* A screen that is presented is above all chains.
LEMMA PresentShape ==
  ASSUME Shape, NEW to \in Screens, NEW c \in [Slots -> Chain \cup {Idle}], Present(to, c),
         UNCHANGED credential
  PROVE  ScreenShape' /\ ChainsShape'
  BY CoveredChains DEF Present, ScreenShape, ChainsShape

\* One chain goes on or ends, without a change of its screen.
LEMMA ChainGoesOn ==
  ASSUME Shape, NEW s \in Slots, NEW c \in Chain \cup {Idle},
         c # Idle /\ c.front => chain[s] # Idle /\ chain[s].front
                                /\ ScreenOf(c.stage) = ScreenOf(chain[s].stage),
         chain' = [chain EXCEPT ![s] = c], UNCHANGED screen
  PROVE  ChainsShape'
  BY DEF Shape, ChainsShape, OnItsScreen

\* A chain goes on to another request of the same screen.
LEMMA ToStage ==
  ASSUME Shape, NEW s \in Slots, Flying(s),
         NEW stage \in {"mail", "upload", "callback", "profile"},
         ScreenOf(stage) = ScreenOf(chain[s].stage)
  PROVE  /\ chain[s] \in Chain
         /\ [chain[s] EXCEPT !.stage = stage] \in Chain
         /\ chain' = [chain EXCEPT ![s].stage = stage] /\ UNCHANGED screen => ChainsShape'
  <1>1. chain[s] \in Chain /\ chain[s] # Idle
    BY DEF Flying, Shape, ChainsShape
  <1> DEFINE c == [chain[s] EXCEPT !.stage = stage]
  <1>2. c \in Chain /\ c.front = chain[s].front /\ c.stage = stage
    BY <1>1 DEF Chain
  <1>3. chain' = [chain EXCEPT ![s].stage = stage] => chain' = [chain EXCEPT ![s] = c]
    OBVIOUS
  <1> HIDE DEF c
  <1>4. ASSUME chain' = [chain EXCEPT ![s].stage = stage], UNCHANGED screen
        PROVE  ChainsShape'
    BY <1>1, <1>2, <1>3, <1>4, ChainGoesOn
  <1> QED BY <1>1, <1>2, <1>4 DEF c

\* A chain ends.
LEMMA EndsShape ==
  ASSUME Shape, NEW s \in Slots
  PROVE  /\ [chain EXCEPT ![s] = Idle] \in [Slots -> Chain \cup {Idle}]
         /\ chain' = [chain EXCEPT ![s] = Idle] /\ UNCHANGED screen => ChainsShape'
  <1>1. chain' = [chain EXCEPT ![s] = Idle] /\ UNCHANGED screen => ChainsShape'
    BY ChainGoesOn
  <1> QED BY <1>1 DEF Shape, ChainsShape

-----------------------------------------------------------------------------
\* The steps of a sign-up.
LEMMA SignUpShape ==
  ASSUME Shape, NEW s \in Slots, SignUp(s)
  PROVE  Shape'
  <1>1. CASE UserCreated(s)
    <2>1. Flying(s) /\ chain[s].stage = "create" /\ chain[s] \in Chain
      BY <1>1 DEF UserCreated, At, Flying, Shape, ChainsShape
    <2>2. ChainsShape'
      BY <1>1, <2>1, ToStage DEF UserCreated, ScreenOf
    <2>3. chain[s].sent.acct \in Accounts
      BY <2>1 DEF Chain, Typed
    <2>4. ServerShape' /\ LateShape' /\ ScreenShape'
      BY <1>1, <2>3 DEF UserCreated, Shape, ServerShape, LateShape, ScreenShape, counters
    <2> QED BY <2>2, <2>4 DEF Shape
  <1>2. CASE EmailInUse(s)
    BY <1>2, EndsShape DEF EmailInUse, Shape, ServerShape, LateShape, ScreenShape, server, counters
  <1>3. CASE MailSent(s)
    <2>1. Flying(s) /\ chain[s].stage = "mail" /\ chain[s] \in Chain
      BY <1>3 DEF MailSent, At, Flying, Shape, ChainsShape
    <2>2. ChainsShape'
      BY <1>3, <2>1, ToStage DEF MailSent, ScreenOf
    <2>3. chain[s].sent.acct \in Accounts
      BY <2>1 DEF Chain, Typed
    <2>4. ServerShape' /\ LateShape' /\ ScreenShape'
      BY <1>3, <2>3 DEF MailSent, Shape, ServerShape, LateShape, ScreenShape, counters
    <2> QED BY <2>2, <2>4 DEF Shape
  <1>4. CASE Uploaded(s)
    <2>1. chain[s] \in Chain
      BY <1>4 DEF Uploaded, At, Flying, Shape, ChainsShape
    <2>2. chain[s].field.acct \in Accounts
      BY <2>1 DEF Chain, Typed
    <2>3. ServerShape'
      BY <1>4, <2>2 DEF Uploaded, Shape, ServerShape, LateShape, counters
    <2>4. LateShape'
      BY <1>4 DEF Uploaded, Shape, LateShape, counters
    <2>5. \/ Present("login", [chain EXCEPT ![s] = Idle])
          \/ chain' = [chain EXCEPT ![s] = Idle] /\ UNCHANGED <<screen, prompt, homeListener>>
      BY <1>4 DEF Uploaded
    <2>6. UNCHANGED credential
      BY <1>4 DEF Uploaded
    <2>7. ScreenShape' /\ ChainsShape'
      BY <2>5, <2>6, EndsShape, PresentShape DEF Shape, ScreenShape, Screens
    <2> QED BY <2>3, <2>4, <2>7 DEF Shape
  <1> QED BY <1>1, <1>2, <1>3, <1>4 DEF SignUp

\* The steps of a sign-in.
LEMMA SignInShape ==
  ASSUME Shape, NEW s \in Slots, SignIn(s)
  PROVE  Shape'
  <1>1. CASE SignedIn(s)
    <2>1. Flying(s) /\ chain[s].stage = "signin" /\ chain[s] \in Chain
      BY <1>1 DEF SignedIn, At, Flying, Shape, ChainsShape
    <2>2. chain[s].sent \in Typed /\ chain[s].sent.acct \in Accounts
      BY <2>1 DEF Chain, Typed
    <2> DEFINE c == [[chain[s] EXCEPT !.stage = "callback"] EXCEPT
                       !.verified = (auth[chain[s].sent.acct] = "verified")]
    <2>3. c \in Chain /\ c.front = chain[s].front /\ ScreenOf(c.stage) = ScreenOf(chain[s].stage)
      BY <2>1 DEF Chain, ScreenOf
    <2>4. chain' = [chain EXCEPT ![s] = c]
      BY <1>1 DEF SignedIn, Shape, ChainsShape
    <2>5. ChainsShape'
      <3> HIDE DEF c
      <3> QED BY <1>1, <2>1, <2>3, <2>4, ChainGoesOn DEF SignedIn, Flying
    <2>6. ServerShape' /\ LateShape' /\ ScreenShape'
      BY <1>1, <2>2 DEF SignedIn, Shape, ServerShape, LateShape, ScreenShape, counters, server
    <2> QED BY <2>5, <2>6 DEF Shape
  <1>2. CASE Refused(s)
    BY <1>2, EndsShape DEF Refused, Shape, ServerShape, LateShape, ScreenShape, server, counters
  <1>3. CASE Unverified(s)
    <2>1. ChainsShape'
      BY <1>3, EndsShape DEF Unverified
    <2>2. mailed' \subseteq Accounts
      BY <1>3 DEF Unverified, Shape, ServerShape, LateShape
    <2> QED
      BY <1>3, <2>1, <2>2 DEF Unverified, Shape, ServerShape, LateShape, ScreenShape, counters
  <1>4. CASE Verified(s)
    <2>1. Flying(s) /\ chain[s].stage = "callback" /\ chain[s] \in Chain
      BY <1>4 DEF Verified, At, Flying, Shape, ChainsShape
    <2>2. chain[s].field \in Typed
      BY <2>1 DEF Chain
    <2> DEFINE c == [[chain[s] EXCEPT !.stage = "profile"] EXCEPT !.uid = current]
    <2>3. c \in Chain /\ c.front = chain[s].front /\ ScreenOf(c.stage) = ScreenOf(chain[s].stage)
      BY <2>1 DEF Chain, ScreenOf, Shape, LateShape
    <2>4. chain' = [chain EXCEPT ![s] = c]
      BY <1>4 DEF Verified, Shape, ChainsShape
    <2>5. ChainsShape'
      <3> HIDE DEF c
      <3> QED BY <1>4, <2>1, <2>3, <2>4, ChainGoesOn DEF Verified, Flying
    <2>6. credential' \in Typed \cup {None} /\ (credential # None => credential' # None)
      BY <1>4, <2>2 DEF Verified, Shape, LateShape
    <2>7. ServerShape' /\ LateShape' /\ ScreenShape'
      BY <1>4, <2>6 DEF Verified, Shape, ServerShape, LateShape, ScreenShape, counters, server
    <2> QED BY <2>5, <2>7 DEF Shape
  <1>5. CASE ProfileFetched(s)
    <2>1. \/ Present("home", [chain EXCEPT ![s] = Idle])
          \/ chain' = [chain EXCEPT ![s] = Idle] /\ UNCHANGED <<screen, prompt, homeListener>>
      BY <1>5 DEF ProfileFetched
    <2>2. UNCHANGED <<server, current, credential, accepted, counters>>
      BY <1>5 DEF ProfileFetched
    <2>3. ScreenShape' /\ ChainsShape'
      BY <2>1, <2>2, EndsShape, PresentShape DEF Shape, ScreenShape, Screens
    <2> QED BY <2>2, <2>3 DEF Shape, ServerShape, LateShape, server, counters
  <1> QED BY <1>1, <1>2, <1>3, <1>4, <1>5 DEF SignIn

\* What a person does on a screen.
LEMMA PersonShape ==
  ASSUME Shape, Person
  PROVE  Shape'
  <1>1. ASSUME NEW to \in Screens, Go(to)
        PROVE  Shape'
    <2>1. Present(to, chain) /\ UNCHANGED <<server, current, credential, accepted, counters>>
      BY <1>1 DEF Go
    <2>2. ScreenShape' /\ ChainsShape'
      BY <2>1, PresentShape DEF Shape, ChainsShape
    <2> QED BY <2>1, <2>2 DEF Shape, ServerShape, LateShape, server, counters
  <1>2. ASSUME NEW s \in Slots, NEW a \in Accounts, TapCreate(s, a)
        PROVE  Shape'
    <2> DEFINE f == [acct |-> a, pw |-> 0]
    <2>1. f \in Typed
      BY AccountBounds DEF Typed
    <2>2. Starts(s, "create", f, f) /\ screen = "signup" /\ UNCHANGED screen
      BY <1>2 DEF TapCreate
    <2>3. ChainsShape'
      <3> HIDE DEF f
      <3> QED BY <2>1, <2>2, StartsShape DEF ScreenOf
    <2> QED
      BY <1>2, <2>3 DEF TapCreate, Shape, ServerShape, LateShape, ScreenShape, server
  <1>3. ASSUME NEW s \in Slots, NEW f \in Typed, TapLogin(s, f)
        PROVE  Shape'
    <2>1. Starts(s, "signin", f, f) /\ screen = "login" /\ UNCHANGED screen
      BY <1>3 DEF TapLogin
    <2>2. ChainsShape'
      BY <2>1, StartsShape DEF ScreenOf
    <2> QED
      BY <1>3, <2>2 DEF TapLogin, Shape, ServerShape, LateShape, ScreenShape, server
  <1>4. ASSUME NEW s \in Slots, Recognised(s)
        PROVE  Shape'
    <2>1. credential \in Typed /\ screen = "login" /\ UNCHANGED screen
      BY <1>4 DEF Recognised, Shape, ScreenShape, LateShape
    <2>2. ChainsShape'
      BY <1>4, <2>1, StartsShape DEF ScreenOf, Recognised
    <2> QED
      BY <1>4, <2>2 DEF Recognised, Shape, ServerShape, LateShape, ScreenShape, server
  <1>5. CASE NotRecognised
    BY <1>5 DEF NotRecognised, Shape, ServerShape, LateShape, ScreenShape, ChainsShape,
                server, counters
  <1>6. ASSUME NEW f \in Typed, Edit(f)
        PROVE  Shape'
    <2>1. chain' = Retyped(chain, f) /\ UNCHANGED screen
      BY <1>6 DEF Edit
    <2>2. ChainsShape'
      BY <2>1, RetypedChains DEF Shape, ChainsShape
    <2> QED
      BY <1>6, <2>2 DEF Edit, Shape, ServerShape, LateShape, ScreenShape, server
  <1>7. CASE Logout
    BY <1>7 DEF Logout, Shape, ServerShape, LateShape, ScreenShape, ChainsShape,
                server, counters
  <1>8. CASE CoverHome
    BY <1>8 DEF CoverHome, Shape, ServerShape, LateShape, ScreenShape, ChainsShape, server
  <1> QED BY <1>1, <1>2, <1>3, <1>4, <1>5, <1>6, <1>7, <1>8 DEF Person

\* Failures, the end of the app, and what happens in mails.
LEMMA WorldShape ==
  ASSUME Shape, World
  PROVE  Shape'
  <1>1. ASSUME NEW s \in Slots, Fails(s)
        PROVE  Shape'
    BY <1>1, EndsShape DEF Fails, Shape, ServerShape, LateShape, ScreenShape, server
  <1>2. CASE Kill
    <2>1. ChainsShape'
      BY <1>2 DEF Kill, ChainsShape, OnItsScreen
    <2> QED
      BY <1>2, <2>1 DEF Kill, Shape, ServerShape, LateShape, ScreenShape, Screens, server
  <1>3. ASSUME NEW a \in Accounts, Verify(a)
        PROVE  Shape'
    BY <1>3 DEF Verify, Shape, ServerShape, LateShape, ScreenShape, ChainsShape, device, counters
  <1>4. ASSUME NEW a \in Accounts, ResetPassword(a)
        PROVE  Shape'
    <2>1. resets' \in 0 .. MaxResets /\ resets' = resets + 1
      BY <1>4, AccountBounds DEF ResetPassword, Shape, LateShape
    <2>2. pw' \in [Accounts -> 0 .. MaxResets] /\ \A b \in Accounts : pw'[b] <= resets'
      BY <1>4, <2>1, AccountBounds DEF ResetPassword, Shape, ServerShape, LateShape
    <2>3. UNCHANGED <<auth, mailed, profiles, device, edits>>
      BY <1>4 DEF ResetPassword
    <2> QED
      BY <2>1, <2>2, <2>3 DEF Shape, ServerShape, LateShape, ScreenShape, ChainsShape, device
  <1> QED BY <1>1, <1>2, <1>3, <1>4 DEF World

\* Every step.
LEMMA StepShape == Shape /\ [Next]_vars => Shape'
  <1> SUFFICES ASSUME Shape, [Next]_vars PROVE Shape'
    OBVIOUS
  <1>1. CASE AuthChanged
    <2>1. Present("landing", chain) /\ UNCHANGED <<server, current, credential, accepted, counters>>
      BY <1>1 DEF AuthChanged
    <2>2. ScreenShape' /\ ChainsShape'
      BY <2>1, PresentShape DEF Shape, ChainsShape, Screens
    <2> QED BY <2>1, <2>2 DEF Shape, ServerShape, LateShape, server, counters
  <1>2. CASE UNCHANGED vars
    BY <1>2 DEF vars, server, device, counters, Shape, ServerShape, LateShape, ScreenShape,
                ChainsShape
  <1> QED BY <1>1, <1>2, SignUpShape, SignInShape, PersonShape, WorldShape DEF Next

\* Accounts, profiles, screens and chains keep their types for any accounts, any
\* number of chains in flight and any bounds; a chain that is in front is of the
\* screen that is.
THEOREM AccountTypes == Spec => []TypeOK
  <1>1. Spec => []Shape
    BY InitShape, StepShape, PTL DEF Spec
  <1> QED BY <1>1, ShapeIsTyped, PTL

-----------------------------------------------------------------------------
(* One chain at a time.                                                    *)

OneChain == \A s, t \in Slots : s = t

\* What a chain in flight was sent agrees with what it will read: nobody is at
\* home meanwhile, so nobody logs out, and no other chain changes the user.
ChainAgrees(s) ==
  Flying(s) =>
    /\ screen # "home"
    /\ edits = 0 => chain[s].field = chain[s].sent
    /\ chain[s].stage \in {"mail", "upload"} => current = chain[s].sent.acct
    /\ chain[s].stage = "callback" =>
         /\ current = chain[s].sent.acct /\ chain[s].sent \in accepted
         /\ chain[s].verified => auth[current] = "verified"
    /\ chain[s].stage = "profile" =>
         chain[s].uid = current /\ current # None /\ auth[current] = "verified"

Agree == (\A s \in Slots : ChainAgrees(s)) /\ LateReadsAgree /\ HomeIsRegistered

\* When the only chain has ended none is in flight.
LEMMA NoneLeft ==
  ASSUME Shape, OneChain, NEW s \in Slots,
         chain' \in {[chain EXCEPT ![s] = Idle], Covered([chain EXCEPT ![s] = Idle])}
  PROVE  \A t \in Slots : ~Flying(t)'
  <1> DEFINE rest == [chain EXCEPT ![s] = Idle]
  <1>1. rest \in [Slots -> Chain \cup {Idle}] /\ \A t \in Slots : rest[t] = Idle
    BY EndsShape DEF OneChain, Shape, ChainsShape
  <1> HIDE DEF rest
  <1>2. chain' \in {rest, Covered(rest)}
    BY DEF rest
  <1> QED BY <1>1, <1>2, CoveredChains DEF Flying

\* The steps of the one sign-up.
LEMMA SignUpAgrees ==
  ASSUME Shape, OneChain, Agree, NEW s \in Slots, SignUp(s)
  PROVE  Agree'
  <1>1. CASE UserCreated(s)
    <2>1. Flying(s) /\ chain[s] \in Chain
      BY <1>1 DEF UserCreated, At, Flying, Shape, ChainsShape
    <2>2. /\ chain'[s].stage = "mail" /\ chain'[s].sent = chain[s].sent
          /\ chain'[s].field = chain[s].field /\ current' = chain[s].sent.acct
      BY <1>1, <2>1 DEF UserCreated, Shape, ChainsShape, Chain
    <2>3. UNCHANGED <<screen, edits, profiles, credential, accepted>> /\ screen # "home"
      BY <1>1, <2>1 DEF UserCreated, counters, Agree, ChainAgrees
    <2>4. \A t \in Slots : ChainAgrees(t)'
      BY <2>1, <2>2, <2>3 DEF ChainAgrees, Agree, OneChain
    <2> QED BY <2>3, <2>4 DEF Agree, LateReadsAgree, HomeIsRegistered
  <1>2. CASE EmailInUse(s)
    <2>1. UNCHANGED <<screen, edits, profiles, credential, accepted>> /\ screen # "home"
      BY <1>2 DEF EmailInUse, At, counters, server, Agree, ChainAgrees
    <2>2. \A t \in Slots : ~Flying(t)'
      BY <1>2, NoneLeft DEF EmailInUse
    <2> QED BY <2>1, <2>2 DEF Agree, ChainAgrees, LateReadsAgree, HomeIsRegistered
  <1>3. CASE MailSent(s)
    <2>1. Flying(s) /\ chain[s] \in Chain /\ chain[s].stage = "mail"
      BY <1>3 DEF MailSent, At, Flying, Shape, ChainsShape
    <2>2. /\ chain'[s].stage = "upload" /\ chain'[s].sent = chain[s].sent
          /\ chain'[s].field = chain[s].field
      BY <1>3, <2>1 DEF MailSent, Shape, ChainsShape, Chain
    <2>3. /\ UNCHANGED <<screen, edits, profiles, credential, accepted, current>>
          /\ screen # "home"
      BY <1>3, <2>1 DEF MailSent, counters, Agree, ChainAgrees
    <2>4. \A t \in Slots : ChainAgrees(t)'
      BY <2>1, <2>2, <2>3 DEF ChainAgrees, Agree, OneChain
    <2> QED BY <2>3, <2>4 DEF Agree, LateReadsAgree, HomeIsRegistered
  <1>4. CASE Uploaded(s)
    <2>1. /\ Flying(s) /\ chain[s].stage = "upload" /\ screen # "home"
          /\ UNCHANGED <<edits, credential, accepted, current>>
      BY <1>4 DEF Uploaded, At, counters, Agree, ChainAgrees
    <2>2. \A t \in Slots : ~Flying(t)'
      BY <1>4, NoneLeft DEF Uploaded, Present
    <2>3. screen' # "home"
      BY <1>4, <2>1 DEF Uploaded, Present
    <2>4. profiles' = profiles
            \/ profiles' = profiles \cup {[userID |-> current, userEmail |-> chain[s].field.acct]}
      BY <1>4 DEF Uploaded
    <2>5. edits = 0 => chain[s].field.acct = current
      BY <2>1 DEF Agree, ChainAgrees
    <2>6. LateReadsAgree'
      BY <2>1, <2>4, <2>5 DEF LateReadsAgree, Agree
    <2> QED BY <2>2, <2>3, <2>6 DEF Agree, ChainAgrees, HomeIsRegistered
  <1> QED BY <1>1, <1>2, <1>3, <1>4 DEF SignUp

\* The steps of the one sign-in.
LEMMA SignInAgrees ==
  ASSUME Shape, OneChain, Agree, NEW s \in Slots, SignIn(s)
  PROVE  Agree'
  <1>1. CASE SignedIn(s)
    <2>1. Flying(s) /\ chain[s] \in Chain
      BY <1>1 DEF SignedIn, At, Flying, Shape, ChainsShape
    <2>2. /\ chain'[s].stage = "callback" /\ chain'[s].sent = chain[s].sent
          /\ chain'[s].field = chain[s].field
          /\ chain'[s].verified = (auth[chain[s].sent.acct] = "verified")
      BY <1>1, <2>1 DEF SignedIn, Shape, ChainsShape, Chain
    <2>3. /\ UNCHANGED <<screen, edits, profiles, credential, auth>> /\ screen # "home"
          /\ current' = chain[s].sent.acct /\ accepted' = accepted \cup {chain[s].sent}
      BY <1>1, <2>1 DEF SignedIn, counters, server, Agree, ChainAgrees
    <2>4. \A t \in Slots : ChainAgrees(t)'
      BY <2>1, <2>2, <2>3 DEF ChainAgrees, Agree, OneChain
    <2> QED BY <2>3, <2>4 DEF Agree, LateReadsAgree, HomeIsRegistered
  <1>2. CASE Refused(s) \/ Unverified(s)
    <2>1. UNCHANGED <<screen, edits, profiles, credential, accepted>> /\ screen # "home"
      BY <1>2 DEF Refused, Unverified, At, counters, server, Agree, ChainAgrees
    <2>2. \A t \in Slots : ~Flying(t)'
      BY <1>2, NoneLeft DEF Refused, Unverified
    <2> QED BY <2>1, <2>2 DEF Agree, ChainAgrees, LateReadsAgree, HomeIsRegistered
  <1>3. CASE Verified(s)
    <2>1. /\ Flying(s) /\ chain[s] \in Chain /\ chain[s].stage = "callback"
          /\ chain[s].verified
      BY <1>3 DEF Verified, At, Flying, Shape, ChainsShape
    <2>2. /\ chain'[s].stage = "profile" /\ chain'[s].sent = chain[s].sent
          /\ chain'[s].field = chain[s].field /\ chain'[s].uid = current
      BY <1>3, <2>1 DEF Verified, Shape, ChainsShape, Chain
    <2>3. /\ UNCHANGED <<screen, edits, profiles, accepted, current, auth>> /\ screen # "home"
          /\ credential' \in {credential, chain[s].field}
      BY <1>3, <2>1 DEF Verified, counters, server, Agree, ChainAgrees
    <2>4. /\ current = chain[s].sent.acct /\ chain[s].sent \in accepted
          /\ auth[current] = "verified" /\ (edits = 0 => chain[s].field = chain[s].sent)
      BY <2>1 DEF Agree, ChainAgrees
    <2>5. current # None
      BY <2>1, <2>4, AccountBounds DEF Chain, Typed
    <2>6. \A t \in Slots : ChainAgrees(t)'
      BY <2>1, <2>2, <2>3, <2>4, <2>5 DEF ChainAgrees, Agree, OneChain
    <2> QED BY <2>3, <2>4, <2>6 DEF Agree, LateReadsAgree, HomeIsRegistered
  <1>4. CASE ProfileFetched(s)
    <2>1. /\ Flying(s) /\ chain[s].stage = "profile" /\ screen # "home"
          /\ chain[s].uid = current /\ auth[current] = "verified"
          /\ UNCHANGED <<edits, credential, accepted, current, auth, profiles>>
      BY <1>4 DEF ProfileFetched, At, counters, server, Agree, ChainAgrees
    <2>2. \A t \in Slots : ~Flying(t)'
      BY <1>4, NoneLeft DEF ProfileFetched, Present
    <2>3. screen' = "home" => HasProfile(current)
      BY <1>4, <2>1 DEF ProfileFetched
    <2>4. HomeIsRegistered'
      BY <2>1, <2>3 DEF HomeIsRegistered, HasProfile
    <2> QED BY <2>1, <2>2, <2>4 DEF Agree, ChainAgrees, LateReadsAgree
  <1> QED BY <1>1, <1>2, <1>3, <1>4 DEF SignIn

\* No button leads home; and from home none leads anywhere.
LEMMA GoNotHome ==
  ASSUME Shape, NEW to \in Screens, Go(to)
  PROVE  screen # "home" /\ to # "home"
  BY DEF Go, Shape, ScreenShape, Screens

\* A new chain: what it sends is what is in its fields.
LEMMA StartsAgrees ==
  ASSUME Shape, OneChain, Agree, NEW s \in Slots, NEW stage \in {"create", "signin"},
         NEW f \in Typed, Starts(s, stage, f, f), screen \in {"signup", "login"},
         UNCHANGED <<screen, edits, profiles, credential, accepted>>
  PROVE  Agree'
  <1>1. Retyped(chain, f) \in [Slots -> Chain \cup {Idle}]
    BY RetypedChains DEF Shape, ChainsShape
  <1>2. chain'[s].stage = stage /\ chain'[s].sent = f /\ chain'[s].field = f
    BY <1>1 DEF Starts
  <1>3. \A t \in Slots : ChainAgrees(t)'
    BY <1>2 DEF ChainAgrees, OneChain
  <1> QED BY <1>3 DEF Agree, LateReadsAgree, HomeIsRegistered

\* What a person does.
LEMMA PersonAgrees ==
  ASSUME Shape, OneChain, Agree, Person
  PROVE  Agree'
  <1>1. ASSUME NEW to \in Screens, Go(to)
        PROVE  Agree'
    <2>1. /\ UNCHANGED <<edits, profiles, credential, accepted, current, auth>>
          /\ chain' = Covered(chain) /\ screen' = to
      BY <1>1 DEF Go, Present, counters, server
    <2>2. screen' # "home"
      BY <1>1, <2>1, GoNotHome
    <2>3. \A t \in Slots : ChainAgrees(t)'
      BY <2>1, <2>2, CoveredChains DEF ChainAgrees, Agree, Flying, Shape, ChainsShape
    <2> QED BY <2>1, <2>2, <2>3 DEF Agree, LateReadsAgree, HomeIsRegistered
  <1>2. ASSUME NEW s \in Slots, NEW a \in Accounts, TapCreate(s, a)
        PROVE  Agree'
    <2> DEFINE f == [acct |-> a, pw |-> 0]
    <2>1. f \in Typed
      BY AccountBounds DEF Typed
    <2>2. /\ Starts(s, "create", f, f) /\ screen = "signup"
          /\ UNCHANGED <<screen, edits, profiles, credential, accepted>>
      BY <1>2 DEF TapCreate, server
    <2> HIDE DEF f
    <2> QED BY <2>1, <2>2, StartsAgrees
  <1>3. ASSUME NEW s \in Slots, NEW f \in Typed, TapLogin(s, f)
        PROVE  Agree'
    <2>1. /\ Starts(s, "signin", f, f) /\ screen = "login"
          /\ UNCHANGED <<screen, edits, profiles, credential, accepted>>
      BY <1>3 DEF TapLogin, server
    <2> QED BY <2>1, StartsAgrees
  <1>4. ASSUME NEW s \in Slots, Recognised(s)
        PROVE  Agree'
    <2>1. /\ credential \in Typed /\ screen = "login"
          /\ Starts(s, "signin", credential, credential)
          /\ UNCHANGED <<screen, edits, profiles, credential, accepted>>
      BY <1>4 DEF Recognised, server, Shape, ScreenShape, LateShape
    <2> QED BY <2>1, StartsAgrees
  <1>5. CASE NotRecognised
    BY <1>5 DEF NotRecognised, server, counters, Agree, ChainAgrees, Flying, LateReadsAgree,
                HomeIsRegistered, HasProfile
  <1>6. ASSUME NEW f \in Typed, Edit(f)
        PROVE  Agree'
    <2>1. /\ UNCHANGED <<screen, profiles, credential, accepted, current, auth>>
          /\ chain' = Retyped(chain, f) /\ edits' # 0
      BY <1>6 DEF Edit, server, Shape, LateShape
    <2>2. \A t \in Slots : ChainAgrees(t)'
      BY <2>1, RetypedChains DEF ChainAgrees, Agree, Flying, Shape, ChainsShape
    <2> QED BY <2>1, <2>2 DEF Agree, LateReadsAgree, HomeIsRegistered, HasProfile
  <1>7. CASE Logout
    <2>1. /\ screen = "home" /\ current' = None
          /\ UNCHANGED <<screen, chain, edits, profiles, credential, accepted>>
      BY <1>7 DEF Logout, server, counters
    <2> QED BY <2>1 DEF Agree, ChainAgrees, Flying, LateReadsAgree, HomeIsRegistered
  <1>8. CASE CoverHome
    BY <1>8 DEF CoverHome, server, Agree, ChainAgrees, Flying, LateReadsAgree,
                HomeIsRegistered, HasProfile
  <1> QED BY <1>1, <1>2, <1>3, <1>4, <1>5, <1>6, <1>7, <1>8 DEF Person

\* Failures, the end of the app, mails.
LEMMA WorldAgrees ==
  ASSUME Shape, OneChain, Agree, World
  PROVE  Agree'
  <1>1. ASSUME NEW s \in Slots, Fails(s)
        PROVE  Agree'
    <2>1. /\ UNCHANGED <<screen, edits, profiles, credential, accepted>> /\ screen # "home"
          /\ chain' = [chain EXCEPT ![s] = Idle]
      BY <1>1 DEF Fails, server, Agree, ChainAgrees
    <2>2. \A t \in Slots : ~Flying(t)'
      BY <2>1, NoneLeft
    <2> QED BY <2>1, <2>2 DEF Agree, ChainAgrees, LateReadsAgree, HomeIsRegistered
  <1>2. CASE Kill
    <2>1. \A t \in Slots : ~Flying(t)'
      BY <1>2 DEF Kill, Flying
    <2> QED BY <1>2, <2>1 DEF Kill, server, Agree, ChainAgrees, LateReadsAgree, HomeIsRegistered
  <1>3. ASSUME NEW a \in Accounts, Verify(a)
        PROVE  Agree'
    <2>1. /\ UNCHANGED <<profiles, device, counters>>
          /\ \A b \in Accounts : auth[b] = "verified" => auth'[b] = "verified"
      BY <1>3 DEF Verify, Shape, ServerShape
    <2>2. current \in Accounts \cup {None}
      BY DEF Shape, LateShape
    <2>3. \A t \in Slots : Flying(t) /\ chain[t].stage = "callback" => current # None
      BY AccountBounds DEF Agree, ChainAgrees, Flying, Shape, ChainsShape, Chain, Typed
    <2>4. \A t \in Slots : ChainAgrees(t)'
      BY <2>1, <2>2, <2>3 DEF Agree, ChainAgrees, Flying, device, counters
    <2> QED
      BY <2>1, <2>2, <2>4 DEF Agree, LateReadsAgree, HomeIsRegistered, HasProfile, device, counters
  <1>4. ASSUME NEW a \in Accounts, ResetPassword(a)
        PROVE  Agree'
    BY <1>4 DEF ResetPassword, device, Agree, ChainAgrees, Flying, LateReadsAgree,
                HomeIsRegistered, HasProfile
  <1> QED BY <1>1, <1>2, <1>3, <1>4 DEF World

AgreeAlone == OneChain => Agree

\* Before anything was tapped, nothing was read.
LEMMA InitAgrees == Init => AgreeAlone
  BY DEF Init, AgreeAlone, Agree, ChainAgrees, Flying, LateReadsAgree, HomeIsRegistered

\* Every step.
LEMMA StepAgrees == Shape /\ AgreeAlone /\ [Next]_vars => AgreeAlone'
  <1> SUFFICES ASSUME Shape, OneChain, Agree, [Next]_vars PROVE Agree'
    BY DEF AgreeAlone, OneChain
  <1>1. CASE AuthChanged
    <2>1. /\ UNCHANGED <<edits, profiles, credential, accepted>> /\ screen' # "home"
          /\ chain' = Covered(chain) /\ screen = "home"
      BY <1>1 DEF AuthChanged, Present, server, counters
    <2>2. \A t \in Slots : ~Flying(t)'
      BY <2>1, CoveredChains DEF Agree, ChainAgrees, Flying, Shape, ChainsShape
    <2> QED BY <2>1, <2>2 DEF Agree, ChainAgrees, LateReadsAgree, HomeIsRegistered
  <1>2. CASE UNCHANGED vars
    BY <1>2 DEF vars, server, device, counters, Agree, ChainAgrees, Flying, LateReadsAgree,
                HomeIsRegistered, HasProfile
  <1> QED BY <1>1, <1>2, SignUpAgrees, SignInAgrees, PersonAgrees, WorldAgrees DEF Next

\* Both, along every behaviour.
LEMMA Alone == Spec => [](Shape /\ AgreeAlone)
  BY InitShape, StepShape, InitAgrees, StepAgrees, PTL DEF Spec

\* With one chain at a time, over any screens, failures, resets and ends of the app:
\* unless text was edited under a request, a profile is of the account with its
\* e-mail, and what is stored for the automatic login was accepted by Auth.
THEOREM LateReadsHold == Spec => [](OneChain => LateReadsAgree)
  <1>1. AgreeAlone => (OneChain => LateReadsAgree)
    BY DEF AgreeAlone, Agree
  <1> QED BY <1>1, Alone, PTL

\* With one chain at a time, whoever the services take for the user of the home
\* screen is verified and has a profile.
THEOREM HomeHolds == Spec => [](OneChain => HomeIsRegistered)
  <1>1. AgreeAlone => (OneChain => HomeIsRegistered)
    BY DEF AgreeAlone, Agree
  <1> QED BY <1>1, Alone, PTL
================================================================================
