------------------------------ MODULE AdminPanel ------------------------------
(***************************************************************************)
(* The housekeeping panel of one browser: signing in, the gate in front of    *)
(* the pages, and the settings page behind it.  The panel needs two sessions,  *)
(* the user's and the staff session, and learns of them through two cached     *)
(* queries.  Signing in makes both sessions, one call after the other, and     *)
(* discards what the queries had.  Saving settings is one call per changed    *)
(* key, one after the other, while the form stays open.                        *)
(*                                                                         *)
(* Some definitions are preceded by a variant of theirs with a mistake such   *)
(* a program could make; the properties below tell the two apart.            *)
(***************************************************************************)
EXTENDS Naturals

CONSTANTS
    Operator,       \* who may sit at this browser
    Rank,           \* their ranks
    Nobody,
    Key,            \* the settings that exist
    Value,          \* what they can be set to
    Raw,            \* the values that are raw markup
    Unchanged,      \* a setting without a local edit
    MaxSignIns,     \* bound: sign-ins
    MaxSaves        \* bound: saves of settings

StaffMinRank == 5
HighTrustRank == 7

ASSUME PanelAssumption ==
    /\ Nobody \notin Operator
    /\ Rank \in [Operator -> Nat]
    /\ Raw \subseteq Value /\ Unchanged \notin Value
    /\ MaxSignIns \in Nat /\ MaxSaves \in Nat

VARIABLES
    user,           \* whose user session the browser's cookie names, if alive
    staff,          \* whose staff session, likewise
    signIns,        \* ghost: how many sign-ins have completed
    queries,        \* the queries "me" and "session"
    screen,         \* the login page or the panel
    step,           \* how far a sign-in under way is
    candidate,      \* who is signing in
    leaving,        \* a sign-out waits for its answer
    settings,       \* phpretro_site_settings
    shown,          \* the settings the form was loaded with
    edits,          \* what was typed over them
    mine,           \* the page that started the last save is still mounted
    batch,          \* the edits a save under way set out with
    todo,           \* its keys not answered yet
    call,           \* the key its call is for, and whether it is written
    outcome,        \* its keys saved so far, and those that failed
    saves           \* how many saves there have been

sessions == <<user, staff, signIns>>
signing == <<step, candidate, leaving>>
form == <<shown, edits, mine>>
saving == <<batch, todo, call, outcome, saves>>
vars == <<sessions, queries, screen, signing, settings, form, saving>>

Query == {"me", "session"}
Who == Operator \cup {Nobody}
Edits == [Key -> Value \cup {Unchanged}]
NoEdits == [k \in Key |-> Unchanged]

\* data: the operator it names; since: the sign-ins it was read after (ghost).
QueryState ==
    [data : Who, since : 0..MaxSignIns, error : BOOLEAN,
     fetch : {"idle", "asked", "refused", "answered"}, got : Who, at : 0..MaxSignIns,
     tries : 0..1]
Fresh == [data |-> Nobody, since |-> 0, error |-> FALSE,
          fetch |-> "idle", got |-> Nobody, at |-> 0, tries |-> 0]

NoCall == [key |-> Unchanged, stage |-> "none"]
NoOutcome == [saved |-> {}, failed |-> {}]

TypeOK ==
    /\ user \in Who /\ staff \in Who /\ signIns \in 0..MaxSignIns
    /\ queries \in [Query -> QueryState]
    /\ screen \in {"login", "panel"}
    /\ step \in {"idle", "user-session", "staff-session"} /\ candidate \in Who
    /\ leaving \in BOOLEAN /\ mine \in BOOLEAN
    /\ settings \in [Key -> Value] /\ shown \in [Key -> Value]
    /\ edits \in Edits /\ batch \in Edits /\ todo \subseteq Key
    /\ call \in {NoCall} \cup [key : Key, stage : {"sent", "written"}]
    /\ outcome \in [saved : SUBSET Key, failed : SUBSET Key] /\ saves \in 0..MaxSaves

Init ==
    /\ user = Nobody /\ staff = Nobody /\ signIns = 0
    /\ queries = [q \in Query |-> Fresh]
    /\ screen = "login" /\ step = "idle" /\ candidate = Nobody /\ leaving = FALSE
    /\ settings \in [Key -> Value \ Raw] /\ shown = settings
    /\ edits = NoEdits /\ mine = FALSE /\ batch = NoEdits /\ todo = {}
    /\ call = NoCall /\ outcome = NoOutcome /\ saves = 0

-----------------------------------------------------------------------------
(* The two queries.  The second is asked only once the first names staff.    *)

Me == queries["me"]
Session == queries["session"]
IsStaff(who) == who # Nobody /\ Rank[who] >= StaffMinRank
IsStaffByRank == IsStaff(Me.data)

Loading(q) == queries[q].data = Nobody /\ ~queries[q].error
Watched(q) == screen = "panel" /\ (q = "me" \/ IsStaffByRank)

\* What AdminLayout renders.
Gate ==
    CASE Loading("me") \/ (IsStaffByRank /\ Loading("session")) -> "loading"
      [] Me.error \/ Me.data = Nobody -> "signed-out"
      [] ~IsStaffByRank -> "not-staff"
      [] Session.error \/ Session.data = Nobody -> "no-staff-session"
      [] OTHER -> "open"

\* The settings page is mounted; what was typed into it, and the end of its save, are of
\* this one mounting.
OnSettings == screen = "panel" /\ Gate = "open"
TypedIsKept ==
    /\ edits' = IF OnSettings' THEN edits ELSE NoEdits
    /\ mine' = (mine /\ OnSettings')
    /\ UNCHANGED shown

\* Fetching again without data forgets the error.
Asks(state) ==
    [state EXCEPT !.fetch = "asked", !.tries = 0,
                  !.error = state.error /\ state.data # Nobody]

\* Nothing keeps an answer of these two fresh: mounting asks again, and so does the
\* second query when the first comes to name staff.
\* (NeverAsked: mounting asks nothing.)
NeverAsked(qs) == qs
UseMe(qs) == IF qs["me"].fetch = "idle" THEN [qs EXCEPT !["me"] = Asks(@)] ELSE qs
UseAdminSession(qs) ==
    IF IsStaff(qs["me"].data) /\ qs["session"].fetch = "idle"
    THEN [qs EXCEPT !["session"] = Asks(@)]
    ELSE qs

Holder(q) == IF q = "me" THEN user ELSE staff

\* The server looks the session up: 401 or 403 without one.
FetchMe(q) ==
    /\ queries[q].fetch = "asked"
    /\ queries' = [queries EXCEPT
          ![q].fetch = IF Holder(q) = Nobody THEN "refused" ELSE "answered",
          ![q].got = Holder(q), ![q].at = signIns]
    /\ UNCHANGED <<sessions, screen, signing, settings, form, saving>>

QueryAnswers(q) ==
    /\ queries[q].fetch = "answered"
    /\ LET read == [queries EXCEPT
                ![q] = [Fresh EXCEPT !.data = queries[q].got, !.since = queries[q].at]]
       IN  queries' = IF q = "me" /\ screen = "panel" /\ ~IsStaffByRank
                      THEN UseAdminSession(read)
                      ELSE read
    /\ UNCHANGED <<sessions, screen, signing, settings, saving>>
    /\ TypedIsKept

\* 401 and 403 "will not become 200 by retrying"; anything else is asked again once.
\* (RetryAlways: however often that was.)
RetryAlways(state, refused) == ~refused
RetryAdmin(state, refused) == ~refused /\ state.tries < 1

QueryFails(q) ==
    /\ queries[q].fetch # "idle"
    /\ LET state == queries[q]
           again == [state EXCEPT !.fetch = "asked", !.tries = @ + 1, !.got = Nobody, !.at = 0]
           over == [Fresh EXCEPT !.data = state.data, !.since = state.since, !.error = TRUE]
       IN  queries' = [queries EXCEPT
              ![q] = IF RetryAdmin(state, state.fetch = "refused") THEN again ELSE over]
    /\ UNCHANGED <<sessions, screen, signing, settings, saving>>
    /\ TypedIsKept

-----------------------------------------------------------------------------
(* Coming, signing in and leaving.                                          *)

\* A page that unmounts takes its typing along; a save under way goes on.
VisitPanel ==
    /\ screen = "login"
    /\ screen' = "panel"
    /\ queries' = UseAdminSession(UseMe(queries))
    /\ UNCHANGED <<sessions, signing, settings, saving>>
    /\ TypedIsKept

\* The button of AccessBlocked, and of the browser.
GoToSignIn ==
    /\ screen = "panel"
    /\ screen' = "login"
    /\ UNCHANGED <<sessions, queries, signing, settings, saving>>
    /\ TypedIsKept

SubmitSignIn(o) ==
    /\ screen = "login" /\ step = "idle" /\ signIns < MaxSignIns
    /\ step' = "user-session" /\ candidate' = o
    /\ UNCHANGED <<sessions, queries, screen, leaving, settings, form, saving>>

AdminLogin ==
    /\ step = "user-session"
    /\ user' = candidate
    /\ IF Rank[candidate] < StaffMinRank
       THEN step' = "idle" /\ candidate' = Nobody
       ELSE step' = "staff-session" /\ UNCHANGED candidate
    /\ UNCHANGED <<staff, signIns, queries, screen, leaving, settings, form, saving>>

\* What clear() does: "leaves already-dispatched fetches alive".
Cleared == [q \in Query |-> [queries[q] EXCEPT !.data = Nobody, !.since = 0, !.error = FALSE]]

\* Every query goes back to having no data, what it has under way is dropped, and what is
\* watched is asked anew.
\* (ClearQueries: what is under way stays alive.)
ClearQueries == queries' = UseMe(Cleared)
ResetQueries ==
    queries' = [q \in Query |-> IF q = "me" \/ Watched(q) THEN Asks(Fresh) ELSE Fresh]

AdminStaffLogin ==
    /\ step = "staff-session"
    /\ staff' = candidate /\ signIns' = signIns + 1
    /\ ResetQueries
    /\ screen' = "panel"
    /\ step' = "idle" /\ candidate' = Nobody
    /\ UNCHANGED <<user, leaving, settings, saving>>
    /\ TypedIsKept

\* Either call is refused or lost; what the first one made stays.
SignInFails ==
    /\ step # "idle"
    /\ step' = "idle" /\ candidate' = Nobody
    /\ UNCHANGED <<sessions, queries, screen, leaving, settings, form, saving>>

SignOut ==
    /\ screen = "panel" /\ Gate \in {"open", "loading"}
    /\ ~leaving                                                   \* bound: one at a time
    /\ leaving' = TRUE
    /\ UNCHANGED <<sessions, queries, screen, step, candidate, settings, form, saving>>

\* Answered, failed or lost.  The answer clears the cookie of the user session, whoever
\* has signed in meanwhile; the staff session is not part of it.  The cache is cleared, and
\* the operator is taken to the login page from wherever they went.
SignedOut ==
    /\ leaving
    /\ leaving' = FALSE
    /\ user' \in {Nobody, user}
    /\ queries' = Cleared
    /\ screen' = "login"
    /\ UNCHANGED <<staff, signIns, step, candidate, settings, saving>>
    /\ TypedIsKept

SessionExpires ==
    /\ \/ user # Nobody /\ user' = Nobody /\ UNCHANGED staff
       \/ staff # Nobody /\ staff' = Nobody /\ UNCHANGED user
    /\ UNCHANGED <<signIns, queries, screen, signing, settings, form, saving>>

-----------------------------------------------------------------------------
(* The settings page.                                                       *)

Pending == todo # {}
Changed(k) == edits[k] # Unchanged /\ edits[k] # shown[k]
ValueOf(k) == IF edits[k] = Unchanged THEN shown[k] ELSE edits[k]

\* Inputs stay open during a save.
Edit(k) ==
    /\ OnSettings
    /\ Pending \/ saves < MaxSaves                                 \* bound
    /\ edits[k] = Unchanged                       \* bound: once until they are dropped
    /\ \E value \in Value \ {ValueOf(k)} : edits' = [edits EXCEPT ![k] = value]
    /\ UNCHANGED <<sessions, queries, screen, signing, settings, shown, mine, saving>>

Discard ==
    /\ OnSettings
    /\ edits' = NoEdits
    /\ UNCHANGED <<sessions, queries, screen, signing, settings, shown, mine, saving>>

\* To another page of the panel; the next visit mounts a new one.
LeaveSettings ==
    /\ OnSettings
    /\ edits' = NoEdits /\ mine' = FALSE
    /\ UNCHANGED <<sessions, queries, screen, signing, settings, shown, saving>>

\* (Nothing looks at the list during a save: it is left to the end of it.)
LoadSettings ==
    /\ OnSettings /\ ~Pending /\ saves < MaxSaves                 \* bound
    /\ shown' = settings
    /\ UNCHANGED <<sessions, queries, screen, signing, settings, edits, mine, saving>>

\* (The bound keeps a second save of a remounted page out.)
SaveSettings ==
    /\ OnSettings /\ ~Pending /\ saves < MaxSaves                 \* bound
    /\ mine' = TRUE
    /\ todo' = {k \in Key : Changed(k)} /\ todo' # {}
    /\ batch' = [k \in Key |-> IF k \in todo' THEN edits[k] ELSE Unchanged]
    /\ call' = NoCall /\ outcome' = NoOutcome /\ saves' = saves + 1
    /\ UNCHANGED <<sessions, queries, screen, signing, settings, shown, edits>>

SendSetting(k) ==
    /\ k \in todo /\ call = NoCall
    /\ call' = [key |-> k, stage |-> "sent"]
    /\ UNCHANGED <<sessions, queries, screen, signing, settings, form, batch, todo, outcome, saves>>

\* The panel's CSRF token is the user session's; raw markup needs high trust.
SetSetting ==
    /\ call.stage = "sent"
    /\ user # Nobody /\ staff # Nobody
    /\ batch[call.key] \in Raw => Rank[staff] >= HighTrustRank
    /\ settings' = [settings EXCEPT ![call.key] = batch[call.key]]
    /\ call' = [call EXCEPT !.stage = "written"]
    /\ UNCHANGED <<sessions, queries, screen, signing, form, batch, todo, outcome, saves>>

\* The call is over: the loop goes on whatever it brought.  After the last key,
\* a save without a failure forgets every edit there is, if its page is still there.
\* (StopAtFailure: the first failure ends the loop.
\* TriedAgain: a key that failed is tried until it is saved.)
StopAtFailure(ok) == IF ok THEN todo \ {call.key} ELSE {}
TriedAgain(ok) == IF ok THEN todo \ {call.key} ELSE todo
Remaining(ok) == todo \ {call.key}

SettingAnswered ==
    /\ call # NoCall
    /\ \E ok \in {call.stage = "written", FALSE} :
          /\ todo' = Remaining(ok)
          /\ outcome' = IF ok THEN [outcome EXCEPT !.saved = @ \cup {call.key}]
                              ELSE [outcome EXCEPT !.failed = @ \cup {call.key}]
    /\ edits' = IF mine /\ todo' = {} /\ outcome'.failed = {} THEN NoEdits ELSE edits
    /\ batch' = IF todo' = {} THEN NoEdits ELSE batch
    /\ call' = NoCall
    /\ UNCHANGED <<sessions, queries, screen, signing, settings, shown, mine, saves>>

Next ==
    \/ VisitPanel \/ GoToSignIn \/ SessionExpires
    \/ SignOut \/ SignedOut
    \/ \E o \in Operator : SubmitSignIn(o)
    \/ AdminLogin \/ AdminStaffLogin \/ SignInFails
    \/ \E q \in Query : FetchMe(q) \/ QueryAnswers(q) \/ QueryFails(q)
    \/ \E k \in Key : Edit(k) \/ SendSetting(k)
    \/ Discard \/ LeaveSettings \/ LoadSettings \/ SaveSettings \/ SetSetting \/ SettingAnswered

Spec == Init /\ [][Next]_vars

\* The server answers and the loop runs on; the operator need do nothing.
FairSpec ==
    /\ Spec
    /\ WF_vars(AdminLogin \/ AdminStaffLogin \/ SignInFails)
    /\ \A q \in Query : WF_vars(FetchMe(q) \/ QueryAnswers(q) \/ QueryFails(q))
    /\ WF_vars((\E k \in Key : SendSetting(k)) \/ SettingAnswered)

-----------------------------------------------------------------------------
(* Properties.                                                              *)

\* What the panel shows of an operator was read after the last sign-in at this
\* browser: "Cached answers from before sign-in must not survive", also those
\* still on their way when it completes.
NothingSurvivesSignIn ==
    \A q \in Query : queries[q].data # Nobody => queries[q].since = signIns

\* Each changed key is tried whatever became of the others ("a single 403 on one
\* raw-HTML key no longer discards the other keys' saves"), and reported once.
EveryKeyIsReported ==
    [][todo # {} /\ todo' = {} =>
          /\ outcome'.saved \cup outcome'.failed = {k \in Key : batch[k] # Unchanged}
          /\ outcome'.saved \cap outcome'.failed = {}]_vars

\* The gate never stays at "Checking your staff session".
GateOpensOrSays == (screen = "panel" /\ Gate = "loading")
                       ~> (screen # "panel" \/ Gate # "loading")

\* A save of settings comes to its end.
SavesEnd == Pending ~> ~Pending
=============================================================================
