----------------------------- MODULE AccountForms -----------------------------
(***************************************************************************)
(* The forms that change one account: motto with figure, address and password  *)
(* on the profile page, and the recovery of the password by a mailed link.     *)
(* The profile's forms share the page's query of the account: each success     *)
(* invalidates it and waits for it, and a failed refetch takes the page, and   *)
(* its forms, away under a handler that is still running.  A reset link is a   *)
(* key in Redis, taken before the password is written, and several tabs may    *)
(* hold it.  A call whose answer is lost goes on at the server.               *)
(*                                                                         *)
(* Some definitions are preceded by a variant of theirs with a mistake such   *)
(* a program could make; the properties below tell the two apart.            *)
(***************************************************************************)
EXTENDS Naturals, Sequences, FiniteSets

CONSTANTS
    Link,           \* bound: the reset links that may be issued
    NoLink,         \* a tab that was opened without one
    Tab,            \* tabs that show the page of a link
    NoTab,
    MaxJobs,        \* bound: submissions of that page
    Used,           \* bound: the forms of the profile page that are submitted
    MaxOpen         \* bound: calls under way at the server, of both pages

Form == {"profile", "email", "password"}
ASSUME FormsAssumption ==
    /\ NoLink \notin Link /\ NoTab \notin Tab
    /\ {MaxJobs, MaxOpen} \subseteq Nat /\ Used \subseteq Form

VARIABLES
    password,       \* who wrote it: nobody yet, a submission of a link, the form
    verified,       \* mail_verified
    links,          \* the keys password_reset:<hash>
    forgot,         \* where POST /api/auth/password/forgot is
    tabs,           \* the pages of links
    jobs,           \* the submissions of those pages
    page,           \* the profile page: its content, or AccountPage's error
    waits,          \* the handlers waiting for the refetch of /api/me
    forms,          \* the forms of the profile page and their handlers
    late            \* changes of address or password that nobody waits for

resetVars == <<links, forgot, tabs, jobs>>
profileVars == <<page, waits, forms, late>>
vars == <<password, verified, resetVars, profileVars>>

Job == 1..MaxJobs
ByForm == MaxJobs + 1
Field == {"motto", "figure", "mail", "password"}

\* The calls a form makes, one after the other.
Calls(f) == CASE f = "profile" -> <<"motto", "figure">>
              [] f = "email" -> <<"mail">>
              [] f = "password" -> <<"password">>

\* step: the call that is being made, 0 for none.  knew: the current password, as it was
\* given for the check.  seen: the form that began it is still on the page.  A ghost, wrote:
\* what was written for it.
FormState == [step : 0..2, stage : {"sent", "checked", "written", "refused", "settling"},
              failed : SUBSET Field, notice : {"none", "ok", "error"},
              knew : 0..ByForm, seen : BOOLEAN, wrote : SUBSET Field]
FreshForm == [step |-> 0, stage |-> "sent", failed |-> {}, notice |-> "none",
              knew |-> 0, seen |-> TRUE, wrote |-> {}]

\* waiting: the page that sent it still waits for the answer.
JobState == [tab : Tab \cup {NoTab}, link : Link \cup {NoLink}, waiting : BOOLEAN,
             stage : {"none", "sent", "taken", "written", "refused", "failed"}]
NoJob == [tab |-> NoTab, link |-> NoLink, waiting |-> FALSE, stage |-> "none"]

\* done, expired: what ResetPasswordPage remembers; job: its last submission.
TabState == [link : Link \cup {NoLink}, done : BOOLEAN, expired : BOOLEAN, job : 0..MaxJobs]
OpenAt(l) == [link |-> l, done |-> FALSE, expired |-> FALSE, job |-> 0]

Init ==
    /\ password = 0 /\ verified \in BOOLEAN
    /\ links = [l \in Link |-> "unused"] /\ forgot = "idle"
    /\ tabs = [t \in Tab |-> OpenAt(NoLink)] /\ jobs = [j \in Job |-> NoJob]
    /\ page = "content" /\ waits = {} /\ late = {}
    /\ forms = [f \in Form |-> FreshForm]

Busy(f) == forms[f].step # 0
\* The bound leaves room for one more.
Room == Cardinality({j \in Job : jobs[j].stage \in {"sent", "taken"}})
        + Cardinality({f \in Form : Busy(f)}) + Cardinality(late) < MaxOpen

-----------------------------------------------------------------------------
(* A forgotten password.  The answer is the same whatever happened.  Bound: one *)
(* request at a time.                                                       *)
\* A user of that name and of that address, verified, is found; a request that finds
\* none changes nothing.
ForgotPassword ==
    /\ forgot = "idle" /\ verified
    /\ forgot' = "found"
    /\ UNCHANGED <<password, verified, links, tabs, jobs, profileVars>>

\* SETEX, then the mail with the link; or an error that is only logged.
IssuePasswordResetToken ==
    /\ forgot = "found" /\ forgot' = "idle"
    /\ \/ \E l \in Link : links[l] = "unused" /\ links' = [links EXCEPT ![l] = "live"]
       \/ UNCHANGED links
    /\ UNCHANGED <<password, verified, tabs, jobs, profileVars>>

LinkExpires(l) ==
    /\ links[l] = "live" /\ links' = [links EXCEPT ![l] = "gone"]
    /\ UNCHANGED <<password, verified, forgot, tabs, jobs, profileVars>>

-----------------------------------------------------------------------------
(* The page of a link.                                                      *)

\* A link is opened, or its page is loaded again.
OpenLink(t, l) ==
    /\ links[l] # "unused"
    /\ tabs' = [tabs EXCEPT ![t] = OpenAt(l)]
    /\ jobs' = [j \in Job |-> IF jobs[j].tab = t THEN [jobs[j] EXCEPT !.waiting = FALSE]
                              ELSE jobs[j]]
    /\ UNCHANGED <<password, verified, links, forgot, profileVars>>

Pending(t) == \E j \in Job : jobs[j].tab = t /\ jobs[j].waiting

SubmitReset(t, j) ==
    /\ Room /\ tabs[t].link # NoLink /\ ~tabs[t].done /\ ~Pending(t)
    /\ jobs[j].stage = "none" /\ \A i \in 1..(j - 1) : jobs[i].stage # "none"
    /\ jobs' = [jobs EXCEPT ![j] = [tab |-> t, link |-> tabs[t].link, waiting |-> TRUE,
                                    stage |-> "sent"]]
    /\ tabs' = [tabs EXCEPT ![t].job = j]
    /\ UNCHANGED <<password, verified, links, forgot, profileVars>>

Reaches(j, stage) == jobs' = [jobs EXCEPT ![j].stage = stage]

\* GETDEL: the key is gone before the password is written.
\* (ReadToken: GET, with the DEL left for later.)
ReadToken(l) == links[l] = "live" /\ UNCHANGED links
TakeToken(l) == links[l] = "live" /\ links' = [links EXCEPT ![l] = "gone"]

ConsumePasswordResetToken(j) ==
    /\ jobs[j].stage = "sent"
    /\ TakeToken(jobs[j].link)
    /\ Reaches(j, "taken")
    /\ UNCHANGED <<password, verified, forgot, tabs, profileVars>>

\* Unknown, expired or spent: 401.
TokenInvalid(j) ==
    /\ jobs[j].stage = "sent" /\ links[jobs[j].link] = "gone"
    /\ Reaches(j, "refused")
    /\ UNCHANGED <<password, verified, links, forgot, tabs, profileVars>>

WriteReset(j) ==
    /\ jobs[j].stage = "taken"
    /\ password' = j
    /\ Reaches(j, "written")
    /\ UNCHANGED <<verified, links, forgot, tabs, profileVars>>

\* A password that is too short, a store or a database out of reach: 400.
ResetFails(j) ==
    /\ jobs[j].stage \in {"sent", "taken"}
    /\ Reaches(j, "failed")
    /\ UNCHANGED <<password, verified, links, forgot, tabs, profileVars>>

\* onSubmit after the answer; a lost one is an error like any other that is no 401.
\* (AlwaysExpired: the hint about old links is shown with every error.)
AlwaysExpired(j) == TRUE
Expired(j) == jobs[j].stage = "refused"

ResetAnswered(j) ==
    /\ jobs[j].waiting
    /\ jobs[j].stage \in {"written", "refused", "failed"}
    /\ LET t == jobs[j].tab
       IN  tabs' = IF jobs[j].stage = "written" THEN [tabs EXCEPT ![t].done = TRUE]
                   ELSE [tabs EXCEPT ![t].expired = Expired(j)]
    /\ jobs' = [jobs EXCEPT ![j].waiting = FALSE]
    /\ UNCHANGED <<password, verified, links, forgot, profileVars>>

ResetLost(j) ==
    /\ jobs[j].waiting
    /\ tabs' = [tabs EXCEPT ![jobs[j].tab].expired = FALSE]
    /\ jobs' = [jobs EXCEPT ![j].waiting = FALSE]
    /\ UNCHANGED <<password, verified, links, forgot, profileVars>>

-----------------------------------------------------------------------------
(* The profile page.                                                        *)

At(f, stage) == Busy(f) /\ forms[f].stage = stage
Unserved(f) == At(f, "sent") \/ At(f, "checked")
Current(f) == Calls(f)[forms[f].step]

\* A value the form refuses itself, or its first call.  Bound: a form that was taken
\* away is not sent again before its handler has ended.
Submit(f) ==
    /\ Room /\ page = "content" /\ ~Busy(f)
    /\ forms' \in {[forms EXCEPT ![f] = [FreshForm EXCEPT !.notice = "error"]],
                   [forms EXCEPT ![f] = [FreshForm EXCEPT !.step = 1,
                                         !.knew = IF f = "password" THEN password ELSE 0]]}
    /\ UNCHANGED <<password, verified, resetVars, page, waits, late>>

Writes(field) ==
    /\ password' = IF field = "password" THEN ByForm ELSE password
    /\ verified' = (verified /\ field # "mail")

\* AccountController::changePassword checks the current password first.
CheckPassword ==
    /\ At("password", "sent") /\ forms["password"].knew = password
    /\ forms' = [forms EXCEPT !["password"].stage = "checked", !["password"].knew = 0]
    /\ UNCHANGED <<password, verified, resetVars, page, waits, late>>

Write(f) ==
    /\ At(f, IF f = "password" THEN "checked" ELSE "sent")
    /\ Writes(Current(f))
    /\ forms' = [forms EXCEPT ![f].stage = "written", ![f].wrote = @ \cup {Current(f)}]
    /\ UNCHANGED <<resetVars, page, waits, late>>

Refuse(f) ==
    /\ Unserved(f)
    /\ forms' = [forms EXCEPT ![f].stage = "refused"]
    /\ UNCHANGED <<password, verified, resetVars, page, waits, late>>

\* onSuccess of useProfileMutation: a refetch of the account, which ends the waiting
\* for an earlier one.
Answered(f) ==
    /\ At(f, "written")
    /\ forms' = [forms EXCEPT ![f].stage = "settling"]
    /\ waits' = {f}
    /\ UNCHANGED <<password, verified, resetVars, page, late>>

\* Then the next call, or the notice.  (Forgiven: a failed call is forgotten when
\* the next one is made.)
Ended(form) ==
    IF form.failed = {} THEN [FreshForm EXCEPT !.notice = "ok", !.wrote = form.wrote]
    ELSE [FreshForm EXCEPT !.notice = "error"]
Forgiven(f, form) ==
    IF form.step < Len(Calls(f)) THEN [form EXCEPT !.step = @ + 1, !.stage = "sent", !.failed = {}]
    ELSE IF form.seen THEN Ended(form) ELSE FreshForm
Proceeds(f, form) ==
    IF form.step < Len(Calls(f)) THEN [form EXCEPT !.step = @ + 1, !.stage = "sent"]
    ELSE IF form.seen THEN Ended(form) ELSE FreshForm

Settled(f) ==
    /\ At(f, "settling") /\ f \notin waits
    /\ forms' = [forms EXCEPT ![f] = Proceeds(f, @)]
    /\ UNCHANGED <<password, verified, resetVars, page, waits, late>>

\* An error answer or a lost one; the server may still have the call before it.
CallFails(f) ==
    /\ Busy(f) /\ forms[f].stage # "settling"
    /\ forms' = [forms EXCEPT
          ![f] = Proceeds(f, [forms[f] EXCEPT !.failed = @ \cup {Current(f)}])]
    /\ late' = IF Unserved(f) /\ Current(f) \in {"mail", "password"}
               THEN late \cup {[field |-> Current(f), knew |-> forms[f].knew,
                                checked |-> At(f, "checked")]}
               ELSE late
    /\ UNCHANGED <<password, verified, resetVars, page, waits>>

LateCall(c) ==
    /\ late' = late \ {c}
    /\ \/ /\ c.field = "password" /\ ~c.checked => c.knew = password
          /\ Writes(c.field)
       \/ UNCHANGED <<password, verified>>
    /\ UNCHANGED <<resetVars, page, waits, forms>>

\* Forms that are mounted anew; a handler that is under way is on its own.
\* (HandlersGone: the handlers end with the forms they belong to.)
HandlersGone == [f \in Form |-> FreshForm]
Remounted == [f \in Form |-> IF Busy(f) THEN [forms[f] EXCEPT !.seen = FALSE] ELSE FreshForm]

\* AccountPage renders its content, or its error in place of it.
MeAnswers ==
    /\ waits # {} /\ waits' = {}
    /\ \/ page' = "content" /\ UNCHANGED forms
       \/ page' = "error" /\ forms' = Remounted
    /\ UNCHANGED <<password, verified, resetVars, late>>

\* The page is left, or come back to.
Visit ==
    /\ page' = "content" /\ forms' = Remounted
    /\ UNCHANGED <<password, verified, resetVars, waits, late>>

Resets ==
    \/ ForgotPassword \/ IssuePasswordResetToken
    \/ \E l \in Link : LinkExpires(l) \/ \E t \in Tab : OpenLink(t, l)
    \/ \E j \in Job :
         \/ \E t \in Tab : SubmitReset(t, j)
         \/ ConsumePasswordResetToken(j) \/ TokenInvalid(j) \/ WriteReset(j) \/ ResetFails(j)
         \/ ResetAnswered(j) \/ ResetLost(j)

Next ==
    \/ Resets
    \/ \E f \in Used : Submit(f) \/ Write(f) \/ Refuse(f) \/ Answered(f) \/ Settled(f) \/ CallFails(f)
    \/ CheckPassword \/ MeAnswers \/ Visit
    \/ \E c \in late : LateCall(c)

Spec == Init /\ [][Next]_vars

-----------------------------------------------------------------------------
(* Properties.                                                              *)

\* Every variable has its type; a handler has a call of its own form at hand, and
\* waits for the account only after an answer.
TypeOK ==
    /\ password \in 0..ByForm /\ verified \in BOOLEAN
    /\ links \in [Link -> {"unused", "live", "gone"}]
    /\ forgot \in {"idle", "found"}
    /\ tabs \in [Tab -> TabState] /\ jobs \in [Job -> JobState]
    /\ page \in {"content", "error"}
    /\ forms \in [Form -> FormState] /\ waits \subseteq Used
    /\ \A f \in Form : forms[f].step <= Len(Calls(f))
    /\ \A f \in waits : At(f, "settling")
    /\ late \subseteq [field : Field, knew : 0..ByForm, checked : BOOLEAN]

\* "Single use is enforced by deleting the key before the password is written"
\* (UserAccountService.h), "even if two requests race": no two submissions of one
\* link, from whatever tabs, both wrote a password.
OneLinkOnePassword ==
    \A i, j \in Job :
        jobs[i].stage = "written" /\ jobs[j].stage = "written" /\ jobs[i].link = jobs[j].link
            => i = j

\* What ResetPasswordPage shows is so: the tab that says that the password was changed
\* changed it with its own link, and the hint that links can only be used once stands
\* by a link that can indeed be used no more.
ResetPageTruthful ==
    \A t \in Tab :
        /\ tabs[t].done =>
              /\ tabs[t].job # 0
              /\ jobs[tabs[t].job].stage = "written"
              /\ jobs[tabs[t].job].link = tabs[t].link
        /\ tabs[t].expired => links[tabs[t].link] = "gone"

\* A profile form that says it has saved has saved all it was asked to: "telling the
\* visitor 'Profile updated.' while the figure silently did not persist would be exactly
\* the kind of simulated success the plan forbids".
NoticesTruthful ==
    \A f \in Form :
        ~Busy(f) /\ forms[f].notice = "ok" => forms[f].wrote = {Calls(f)[i] : i \in DOMAIN Calls(f)}
=============================================================================
