------------------------------- MODULE Pages -------------------------------
(***************************************************************************)
(* The pages of the web client that hold a form.                           *)
(*                                                                         *)
(* The administration pages edit one settings document of the              *)
(* organization: group mapping, SSO mapping, retention, MFA policy and SSO *)
(* enforcement.  Each loads the document, keeps what it shows in the state *)
(* of a form, and saves what the form holds.  Two administrators may have  *)
(* the same page open.  A document is abstracted to a switch and one       *)
(* detail (the rows of a mapping, the allowed methods, the days of         *)
(* retention).                                                             *)
(*                                                                         *)
(* LoginPage asks, while an address is entered, whether its organization   *)
(* requires single sign-on, and then hides the password.  A timer delays   *)
(* the question until typing stops; questions and the login itself are     *)
(* answered in any order.                                                  *)
(***************************************************************************)
EXTENDS Integers, FiniteSets

CONSTANTS
  Editors,
  Details,         \* details an administrator may enter
  Empty,           \* a detail left empty
  Preset,          \* the detail that two of the forms start from
  MaxEdits, MaxSaves

VARIABLES
  kind,            \* which page this is
  stored,          \* the document on the server
  page,            \* [Editors -> what the page of that administrator holds]
  wiped,           \* a field nobody had seen or entered has been saved
  edits, saves     \* bounded counters

pageVars == <<kind, stored, page, wiped, edits, saves>>

Kinds == {"groups", "mapping", "retention", "mfa", "enforcement"}
Fields == {"flag", "detail"}
Documents == [flag : {"off", "on"}, detail : Details \cup {Empty}]

(* What the form holds before anything has been loaded.                    *)
Defaults == [flag |-> IF kind = "retention" THEN "on" ELSE "off",
             detail |-> IF kind \in {"retention", "mfa"} THEN Preset ELSE Empty]

(* One page: the form; whether a load or save is under way; the fields
   entered since the form was filled, those entered while a save was under
   way and those a load has replaced; whether a load has ever answered or
   failed; and whether the last save is still the last word.               *)
Opening == [form |-> Defaults, loading |-> TRUE, saving |-> "no",
            touched |-> {}, late |-> {}, lost |-> {},
            loaded |-> FALSE, failed |-> FALSE, saved |-> FALSE]

PagesInit ==
  /\ kind \in Kinds
  /\ stored \in Documents
  /\ page = [a \in Editors |-> Opening]
  /\ wiped = FALSE /\ edits = 0 /\ saves = 0

-----------------------------------------------------------------------------
(* load                                                                    *)
LoadAnswers(a) ==
  /\ page[a].loading
  /\ page' = [page EXCEPT
       ![a].form = stored, ![a].loading = FALSE, ![a].loaded = TRUE,
       ![a].lost = page[a].touched \ page[a].late,
       ![a].touched = {}, ![a].late = {}]
  /\ UNCHANGED <<kind, stored, wiped, edits, saves>>

(* The form keeps what it held, and is shown with the error.               *)
LoadFails(a) ==
  /\ page[a].loading
  /\ page' = [page EXCEPT ![a].loading = FALSE, ![a].failed = TRUE]
  /\ UNCHANGED <<kind, stored, wiped, edits, saves>>

-----------------------------------------------------------------------------
(* Mutant: the form is shown while it loads.                               *)
Shown_Always(p) == TRUE

(* While it loads a page shows a spinner instead of its form.              *)
Shown(p) == ~p.loading

Edit(a, f, v) ==
  /\ Shown(page[a]) /\ edits < MaxEdits /\ page[a].form[f] # v
  /\ page' = [page EXCEPT
       ![a].form[f] = v, ![a].touched = @ \cup {f},
       ![a].late = IF page[a].saving # "no" THEN @ \cup {f} ELSE @,
       ![a].saved = FALSE]
  /\ edits' = edits + 1
  /\ UNCHANGED <<kind, stored, wiped, saves>>

-----------------------------------------------------------------------------
(* save: what each page checks and what it sends.                          *)
GroupMappingSends(form) == Fields
RetentionSends(form) == Fields
SsoEnforcementSends(form) == {"flag"}

(* An empty field is left out of the request, and kept by the server.      *)
SsoMappingSends(form) == IF form.detail = Empty THEN {"flag"} ELSE Fields
SsoMappingAllows(form) == form.flag = "on" => form.detail # Empty

MfaPolicySends(form) == Fields
MfaPolicyAllows(form) == form.detail # Empty

Allows(form) == /\ kind = "mapping" => SsoMappingAllows(form)
                /\ kind = "mfa" => MfaPolicyAllows(form)

(* Mutant: every page leaves out what is empty.                            *)
Sends_NoEmpty(form) ==
  IF kind = "enforcement" THEN {"flag"} ELSE SsoMappingSends(form)

Sends(form) == CASE kind = "groups" -> GroupMappingSends(form)
                 [] kind = "mapping" -> SsoMappingSends(form)
                 [] kind = "retention" -> RetentionSends(form)
                 [] kind = "mfa" -> MfaPolicySends(form)
                 [] kind = "enforcement" -> SsoEnforcementSends(form)

(* Group mapping, retention and enforcement load again after a save.       *)
Reloads == kind \in {"groups", "retention", "enforcement"}

(* The request is sent with what the form holds, and reaches the server.   *)
Save(a) ==
  LET form == page[a].form IN
  /\ Shown(page[a]) /\ page[a].saving = "no" /\ saves < MaxSaves /\ Allows(form)
  /\ stored' = [f \in Fields |-> IF f \in Sends(form) THEN form[f] ELSE stored[f]]
  /\ wiped' = (wiped \/ (/\ ~page[a].loaded /\ ~page[a].failed
                         /\ \E f \in Sends(form) \ page[a].touched : form[f] # stored[f]))
  /\ page' = [b \in Editors |->
       IF b = a THEN [page[a] EXCEPT !.saving = "stored", !.saved = TRUE, !.touched = {}, !.late = {}]
       ELSE [page[b] EXCEPT !.saved = FALSE]]
  /\ saves' = saves + 1
  /\ UNCHANGED <<kind, edits>>

(* The server refuses the request, or it never arrives.                    *)
SaveRefused(a) ==
  /\ Shown(page[a]) /\ page[a].saving = "no" /\ saves < MaxSaves /\ Allows(page[a].form)
  /\ saves' = saves + 1
  /\ page' = [page EXCEPT ![a].saving = "refused", ![a].saved = FALSE]
  /\ UNCHANGED <<kind, stored, wiped, edits>>

SaveAnswers(a) ==
  /\ page[a].saving # "no"
  /\ page' = [page EXCEPT ![a].saving = "no",
                          ![a].loading = (page[a].saving = "stored" /\ Reloads)]
  /\ UNCHANGED <<kind, stored, wiped, edits, saves>>

(* The answer of a save that was stored is lost.                           *)
AnswerLost(a) ==
  /\ page[a].saving = "stored"
  /\ page' = [page EXCEPT ![a].saving = "no", ![a].saved = FALSE]
  /\ UNCHANGED <<kind, stored, wiped, edits, saves>>

PagesNext ==
  \E a \in Editors :
    \/ LoadAnswers(a) \/ LoadFails(a)
    \/ \E v \in {"off", "on"} : Edit(a, "flag", v)
    \/ \E v \in Details \cup {Empty} : Edit(a, "detail", v)
    \/ Save(a) \/ SaveRefused(a) \/ SaveAnswers(a) \/ AnswerLost(a)

PagesSpec == PagesInit /\ [][PagesNext]_pageVars

-----------------------------------------------------------------------------
(* What an administrator enters is not replaced by a load's late answer,   *)
(* unless it was entered while the page's own save was under way.          *)
EditsSurvive == \A a \in Editors : page[a].lost = {}

(* The defaults a form starts from overwrite what the organization had set *)
(* only when the page could not load it.                                   *)
DefaultsNeedAFailure == ~wiped

(* After a save that succeeded, with nothing entered or saved since, the   *)
(* page shows what is stored.  Only the SSO mapping may differ: a field    *)
(* that was emptied stays set on the server.  Enforcement shows no detail. *)
SavedFormIsStored ==
  \A a \in Editors :
    page[a].saved /\ page[a].saving = "no" /\ ~page[a].loading /\ page[a].touched = {} =>
      /\ page[a].form.flag = stored.flag
      /\ kind \in {"groups", "retention", "mfa"} => page[a].form.detail = stored.detail
      /\ kind = "mapping" /\ page[a].form.detail # Empty => page[a].form.detail = stored.detail

(* Form and document tell each other the truth: nothing that was entered   *)
(* is dropped, nothing that was not is saved, what was saved is shown.     *)
FormsAreHonest == EditsSurvive /\ DefaultsNeedAFailure /\ SavedFormIsStored

-----------------------------------------------------------------------------
(* LoginPage                                                               *)

CONSTANTS
  Addresses,    \* what may be entered: addresses of users ...
  Fragment,     \* ... or text that is not an address yet
  Enforced,     \* addresses whose organization requires single sign-on
  Emergency,    \* those among them with a grant of emergency access
  NoNotice,
  MaxTyped      \* bound: changes of the field

ASSUME AddressAssumption == Emergency \subseteq Enforced /\ Enforced \subseteq Addresses

VARIABLES
  email,        \* what the field holds
  timer,        \* the delay has not passed yet
  asked,        \* addresses of the requests under way, by number
  loading,      \* the button is disabled
  sso,          \* the notice: the address it is about, and whether it enforces
  login,        \* the address of the login under way, or Fragment
  left,         \* signed in
  typed,        \* counter
  crossed       \* history: the last question was asked beside another request

formVars == <<email, timer, asked, loading, sso, login, left, typed, crossed>>

FormInit ==
  /\ email = Fragment /\ timer = TRUE
  /\ asked = {} /\ loading = FALSE /\ sso = NoNotice
  /\ login = Fragment /\ left = FALSE /\ typed = 0 /\ crossed = FALSE

Settled == ~timer /\ asked = {} /\ login = Fragment

(* A change of the field starts the delay anew.                            *)
Type(text) ==
  /\ ~left /\ typed < MaxTyped /\ text # email
  /\ email' = text /\ timer' = TRUE /\ typed' = typed + 1
  /\ UNCHANGED <<asked, loading, sso, login, left, crossed>>

(* Mutant: what is not an address leaves the notice as it is.              *)
AskOptions_KeepsNotice ==
  /\ timer /\ ~left /\ timer' = FALSE
  /\ IF email = Fragment
     THEN UNCHANGED <<asked, loading, sso>>
     ELSE asked' = asked \cup {<<typed, email>>} /\ loading' = TRUE /\ UNCHANGED sso
  /\ crossed' = (asked # {} \/ login # Fragment)
  /\ UNCHANGED <<email, login, left, typed>>

(* fetchSsoOptions, when the delay has passed.                             *)
AskOptions ==
  /\ timer /\ ~left /\ timer' = FALSE
  /\ IF email = Fragment
     THEN sso' = NoNotice /\ UNCHANGED <<asked, loading>>
     ELSE asked' = asked \cup {<<typed, email>>} /\ loading' = TRUE /\ UNCHANGED sso
  /\ crossed' = (asked # {} \/ login # Fragment)
  /\ UNCHANGED <<email, login, left, typed>>

(* What the server answers does not look at a grant of emergency access.   *)
Options(address) == [about |-> address, enforce |-> address \in Enforced]

OptionsAnswered ==
  \E request \in asked :
    /\ asked' = asked \ {request} /\ loading' = FALSE
    /\ sso' = Options(request[2]) \/ sso' = NoNotice  \* no answer
    /\ UNCHANGED <<email, timer, login, left, typed, crossed>>

PasswordBlocked == sso # NoNotice /\ sso.enforce

(* submitPassword.  The address in the field is the one sent.              *)
SubmitPassword ==
  /\ ~left /\ ~PasswordBlocked /\ ~loading /\ login = Fragment /\ email # Fragment
  /\ login' = email
  /\ UNCHANGED <<email, timer, asked, loading, sso, left, typed, crossed>>

SsoRequired(address) == address \in Enforced \ Emergency

(* Signed in, refused because sign-on is required, or refused.             *)
PasswordAnswered ==
  /\ login # Fragment /\ login' = Fragment
  /\ \/ ~SsoRequired(login) /\ left' = TRUE /\ UNCHANGED sso
     \/ SsoRequired(login) /\ sso' = [about |-> login, enforce |-> TRUE] /\ UNCHANGED left
     \/ UNCHANGED <<sso, left>>
  /\ UNCHANGED <<email, timer, asked, loading, typed, crossed>>

FormNext ==
  \/ \E text \in Addresses \cup {Fragment} : Type(text)
  \/ AskOptions \/ OptionsAnswered \/ SubmitPassword \/ PasswordAnswered

FormSpec == FormInit /\ [][FormNext]_formVars

-----------------------------------------------------------------------------
(* When nothing is under way the notice is about the address in the field, *)
(* unless its question was asked beside another request, which may have    *)
(* answered last.                                                          *)
NoticeIsCurrent ==
  Settled /\ ~crossed /\ sso # NoNotice => sso.about = email

(* Then only users whose organization requires single sign-on, those with  *)
(* emergency access among them, are kept from entering a password.         *)
PasswordIsOffered ==
  Settled /\ ~crossed /\ PasswordBlocked => email \in Enforced

LoginFormIsTrue == NoticeIsCurrent /\ PasswordIsOffered

(* The settings pages and the login page tell whoever uses them the truth. *)
PagesAreHonest == FormsAreHonest /\ LoginFormIsTrue

=============================================================================
