----------------------------- MODULE SignInPages -----------------------------
(* The way into the application in one tab: the guard of the protected pages, *)
(* the first-run setup, the login form and the single sign-on callback send   *)
(* the visitor to one another by what each knows at the moment: the session   *)
(* (still loading, nobody, somebody) and the cached answer to "is a first     *)
(* administrator still missing".                                              *)
EXTENDS Naturals

CONSTANT MaxVisits     \* bound: forms the visitor submits, and logouts

ASSUME VisitsAssumption == MaxVisits \in Nat

VARIABLES page,        \* the route on display
          session,     \* AuthContext: isLoading and user
          check,       \* the cached setup status and its request
          form,        \* the submission under way: of the setup or of the login form
          leaving,     \* the setup page's timer to the login page
          admin,       \* at the server: somebody can sign in
          visits       \* counter for the bound

pageVars == <<page, session, check, form, leaving, admin, visits>>

PagesInit ==
  /\ page \in {"app", "login", "setup", "callback"}
  /\ session = [loading |-> TRUE, user |-> FALSE]
  /\ check = [at |-> IF page = "setup" THEN "asked" ELSE "idle", data |-> "none", aged |-> FALSE]
  /\ form = "none" /\ leaving = FALSE
  /\ admin \in BOOLEAN
  /\ visits = 0

Visit == visits < MaxVisits /\ visits' = visits + 1

(* A page that needs the setup status begins to show it. *)
Watched(c) == IF c.at = "asked" \/ (c.data # "none" /\ ~c.aged) THEN c ELSE [c EXCEPT !.at = "asked"]

\* Mutant: an answer that never came is waited for.
CheckingUntilKnown == check.data = "none"

\* Nothing is known yet and the answer is on its way: both pages show a spinner.
Checking == check.data = "none" /\ check.at = "asked"

(* The guard asks only when nobody is signed in. *)
Guarding(p, s) == p = "app" /\ ~s.loading /\ ~s.user

\* The session changes under whatever page is on display.
SessionBecomes(s) ==
  /\ session' = s
  /\ check' = IF Guarding(page, s) THEN Watched(check) ELSE check

GoTo(p) ==
  /\ page' = p
  /\ check' = IF p = "setup" \/ Guarding(p, session) THEN Watched(check) ELSE check

(* The first refresh of the session has ended.  One that failed signs out     *)
(* whoever has signed in meanwhile: neither form waits for it.                *)
BootEnds(found) ==
  /\ session.loading /\ (found => admin)
  /\ SessionBecomes([loading |-> FALSE, user |-> found])
  /\ UNCHANGED <<page, form, leaving, admin, visits>>

\* Mutant: the guard knows the login page only.
GuardSendsToLogin ==
  /\ Guarding(page, session) /\ ~Checking
  /\ GoTo("login")
  /\ UNCHANGED <<session, form, leaving, admin, visits>>

(* ProtectedRoute: a missing or failed answer means that setup is not needed. *)
GuardSendsAway ==
  /\ Guarding(page, session) /\ ~Checking
  /\ GoTo(IF check.data = "required" THEN "setup" ELSE "login")
  /\ UNCHANGED <<session, form, leaving, admin, visits>>

(* LoginPage: somebody is signed in already. *)
LoginPageLetsIn ==
  /\ page = "login" /\ ~session.loading /\ session.user
  /\ GoTo("app")
  /\ UNCHANGED <<session, form, leaving, admin, visits>>

(* OIDCCallbackPage: once, after the first refresh. *)
CallbackEnds ==
  /\ page = "callback" /\ ~session.loading
  /\ GoTo(IF session.user THEN "app" ELSE "login")
  /\ UNCHANGED <<session, form, leaving, admin, visits>>

\* Mutant: the setup page does not trust an answer that has grown old.
SetupPageLeavesOnDoubt ==
  /\ page = "setup" /\ (check.data = "done" \/ check.aged)
  /\ GoTo("app")
  /\ UNCHANGED <<session, form, leaving, admin, visits>>

(* SetupPage: the answer says that an administrator exists. *)
SetupPageLeaves ==
  /\ page = "setup" /\ check.data = "done"
  /\ GoTo("login")
  /\ UNCHANGED <<session, form, leaving, admin, visits>>

(* The setup status is answered, or cannot be asked, and grows old. *)
CheckLands ==
  /\ check.at = "asked"
  /\ check' = [at |-> "idle", data |-> IF admin THEN "done" ELSE "required", aged |-> FALSE]
  /\ UNCHANGED <<page, session, form, leaving, admin, visits>>

\* Mutant: a failed request empties the cached answer.
CheckFailsBlank ==
  /\ check.at = "asked"
  /\ check' = [check EXCEPT !.at = "failed", !.data = "unknown"]
  /\ UNCHANGED <<page, session, form, leaving, admin, visits>>

CheckFails ==
  /\ check.at = "asked"
  /\ check' = [check EXCEPT !.at = "failed"]
  /\ UNCHANGED <<page, session, form, leaving, admin, visits>>

CheckAges ==
  /\ check.data # "none" /\ ~check.aged
  /\ check' = [check EXCEPT !.aged = TRUE]
  /\ UNCHANGED <<page, session, form, leaving, admin, visits>>
-----------------------------------------------------------------------------
(* The setup form: the account first, its session, then the branding. *)
SubmitSetup ==
  /\ page = "setup" /\ ~Checking /\ check.data # "done" /\ form = "none" /\ Visit
  /\ form' = "setup sent"
  /\ UNCHANGED <<page, session, check, leaving, admin>>

ServerCreatesAdmin ==
  /\ form = "setup sent" /\ ~admin
  /\ admin' = TRUE /\ form' = "setup created"
  /\ UNCHANGED <<page, session, check, leaving, visits>>

SetupSignsIn ==
  /\ form = "setup created"
  /\ form' = "branding"
  /\ SessionBecomes([session EXCEPT !.user = TRUE])
  /\ UNCHANGED <<page, leaving, admin, visits>>

SetupEnds ==
  /\ form = "branding"
  /\ form' = "none"
  /\ GoTo("app")
  /\ UNCHANGED <<session, leaving, admin, visits>>

(* 403: an administrator exists; the login page follows after two seconds. *)
SetupRefused ==
  /\ form = "setup sent" /\ admin
  /\ form' = "none" /\ leaving' = TRUE
  /\ UNCHANGED <<page, session, check, admin, visits>>

LeavingFires ==
  /\ leaving /\ leaving' = FALSE
  /\ GoTo("login")
  /\ UNCHANGED <<session, form, admin, visits>>

(* Any other error, of the account or of the branding: the form stays. *)
SetupFails ==
  /\ form \in {"setup sent", "setup created", "branding"}
  /\ form' = "none"
  /\ UNCHANGED <<page, session, check, leaving, admin, visits>>

(* The login form. *)
SubmitLogin ==
  /\ page = "login" /\ form = "none" /\ Visit
  /\ form' = "login sent"
  /\ UNCHANGED <<page, session, check, leaving, admin>>

LoginSucceeds ==
  /\ form = "login sent" /\ admin
  /\ form' = "none"
  /\ session' = [session EXCEPT !.user = TRUE]
  /\ page' = "app"
  /\ UNCHANGED <<check, leaving, admin, visits>>

LoginRefused ==
  /\ form = "login sent"
  /\ form' = "none"
  /\ UNCHANGED <<page, session, check, leaving, admin, visits>>

(* The visitor logs out, or a later refresh fails. *)
SessionEnds ==
  /\ session.user /\ ~session.loading /\ Visit
  /\ SessionBecomes([session EXCEPT !.user = FALSE])
  /\ UNCHANGED <<page, form, leaving, admin>>

(* Another browser completes the setup. *)
AdminAppears ==
  /\ ~admin /\ admin' = TRUE
  /\ UNCHANGED <<page, session, check, form, leaving, visits>>

Redirect ==
  GuardSendsAway \/ LoginPageLetsIn \/ CallbackEnds \/ SetupPageLeaves \/ LeavingFires

PagesNext ==
  \/ \E found \in BOOLEAN : BootEnds(found)
  \/ Redirect \/ CheckLands \/ CheckFails \/ CheckAges
  \/ SubmitSetup \/ ServerCreatesAdmin \/ SetupSignsIn \/ SetupEnds \/ SetupRefused \/ SetupFails
  \/ SubmitLogin \/ LoginSucceeds \/ LoginRefused \/ SessionEnds \/ AdminAppears

(* Effects run, and what was asked is answered one way or the other. *)
PagesFairness ==
  /\ WF_pageVars(Redirect) /\ WF_pageVars(\E found \in BOOLEAN : BootEnds(found))
  /\ WF_pageVars(CheckLands \/ CheckFails)

PagesSpec == PagesInit /\ [][PagesNext]_pageVars /\ PagesFairness
-----------------------------------------------------------------------------
PagesTypeOK ==
  /\ page \in {"app", "login", "setup", "callback"}
  /\ session \in [loading : BOOLEAN, user : BOOLEAN]
  /\ check \in [at : {"idle", "asked", "failed"}, data : {"none", "required", "done"},
                aged : BOOLEAN]
  /\ form \in {"none", "setup sent", "setup created", "branding", "login sent"}
  /\ leaving \in BOOLEAN /\ admin \in BOOLEAN /\ visits \in 0..MaxVisits

(* "The guard and the page it guards cannot disagree": they never send the    *)
(* visitor back and forth, the pages come to rest.                            *)
PagesComeToRest == <>[][FALSE]_page

(* An installation without an administrator offers its setup: the guard leads *)
(* there unless the status cannot be asked or somebody else completes it.     *)
SetupIsOffered ==
  (Guarding(page, session) /\ ~admin /\ check.at # "failed")
    ~> (page = "setup" \/ check.at = "failed" \/ admin \/ session.user)

(* Whoever is signed in gets past the login and the callback page, nobody     *)
(* stays in the application without a session, and an installation without an *)
(* administrator offers its setup.                                            *)
EverybodyIsWhereTheyBelong ==
  /\ SetupIsOffered
  /\ (session.user /\ page \in {"login", "callback"}) ~> (page = "app" \/ ~session.user)
  /\ (page = "app" /\ ~session.user) ~> (page # "app" \/ session.user)

(* ProtectedRoute.tsx: "the form should never be shown on a guess": the guard *)
(* sends to the setup form only while no administrator exists.                *)
NeverShownOnAGuess ==
  [][GuardSendsAway /\ page' = "setup" => ~admin]_pageVars
=============================================================================
