------------------------------- MODULE Account -------------------------------
(***************************************************************************)
(* The account pages of one browser and the sessions they speak for.  Who is   *)
(* signed in is known to the server alone: the pages learn it from cached      *)
(* queries, and what they show depends on which answer, error or earlier       *)
(* answer the cache holds.  Signing in, restoring a remembered sign-in,        *)
(* proving the password and signing out are calls; the visitor may leave the   *)
(* page, or be taken from it, while one is under way.                         *)
(*                                                                         *)
(* Pages without account data (the front page, the community pages, the sign-  *)
(* in and recovery pages) are one: they hold a sign-in form and nothing else   *)
(* of interest here.  "credits" stands for the purse and the ledger, "me" for  *)
(* the profile too; what these pages ask once they are shown is left out.      *)
(*                                                                         *)
(* Some definitions are preceded by a variant of theirs with a mistake such   *)
(* a program could make; the properties below tell the two apart.            *)
(***************************************************************************)
EXTENDS Naturals

CONSTANTS
    User,           \* who may sit at this browser
    Nobody,
    Visited,        \* bound: the pages the visitor goes to
    MaxSessions     \* bound: sessions made

ASSUME AccountAssumption ==
    /\ Nobody \notin User /\ MaxSessions \in Nat
    /\ Visited \subseteq {"public", "me", "credits", "client", "reauth", "logout"}

VARIABLES
    sessions,       \* the sessions made so far
    cookie,         \* the session the browser's cookie names; 0 is none
    remember,       \* whose remember-me cookies the browser holds
    digests,        \* the users whose stored digest matches that cookie
    queries,        \* the query cache
    page,           \* the route that is rendered
    done,           \* the sign-out page says that it is done
    call            \* the mutation under way

server == <<sessions, digests>>
browser == <<cookie, remember>>
view == <<queries, page, done>>
vars == <<server, browser, view, call>>

AccountPages == {"me", "credits", "client"}
Page == AccountPages \cup {"public", "reauth", "logout", "away"}
Query == {"me", "session"}
Number == 0..MaxSessions

\* restored: made from a remember-me token.  A ghost, left: the page that asked was
\* told that the session is signed out, and was still there to hear it.
Session == [user : User \cup {Nobody}, flagged : BOOLEAN, alive : BOOLEAN,
            restored : BOOLEAN, left : BOOLEAN]
Unborn == [user |-> Nobody, flagged |-> FALSE, alive |-> FALSE,
           restored |-> FALSE, left |-> FALSE]

\* at: the session an answer was given to, 0 for no answer.
Answer == [at : Number, flagged : BOOLEAN]
Nothing == [at |-> 0, flagged |-> FALSE]

\* with: the session named by a request that has not been served.
QueryState == [data : Answer, error : {"none", "401", "other"},
               fetch : {"idle", "asked", "refused", "answered"},
               with : Number, got : Answer]
Fresh == [data |-> Nothing, error |-> "none", fetch |-> "idle", with |-> 0, got |-> Nothing]

Call == [op : {"none", "login", "restore", "logout", "reauth", "enter"},
         stage : {"sent", "ok", "refused", "denied", "settling"},
         with : Number, who : User \cup {Nobody}, keep : BOOLEAN, mine : BOOLEAN]
NoCall == [op |-> "none", stage |-> "sent", with |-> 0, who |-> Nobody,
           keep |-> FALSE, mine |-> FALSE]

Init ==
    /\ sessions = [s \in 1..MaxSessions |-> Unborn]
    /\ cookie = 0
    /\ remember = Nobody /\ digests = {}
    /\ queries = [q \in Query |-> Fresh]
    /\ page = "public" /\ done = FALSE
    /\ call = NoCall

Created(s) == sessions[s].user # Nobody
\* The number of the next session, if the bound allows one.
Next1(s) == ~Created(s) /\ \A r \in 1..(s - 1) : Created(r)
Alive(s) == s # 0 /\ sessions[s].alive

-----------------------------------------------------------------------------
(* What a page renders, and which queries that watches.                      *)

Loading(state) == state.data = Nothing /\ state.error = "none"

\* ClientPage asks for the step-up before it renders its AccountPage.
Redirects(qs, p) == p = "client" /\ qs["session"].data.flagged

\* AccountPage.  An error counts even when an earlier answer is still there.
\* (StepUpForgotten: the flag is not looked at.)
StepUpForgotten(me) ==
    CASE Loading(me) -> "loading"
      [] me.error = "401" -> IF remember # Nobody THEN "restore" ELSE "sign-in"
      [] me.error = "other" -> "error"
      [] OTHER -> "content"
AccountScreen(me) ==
    CASE Loading(me) -> "loading"
      [] me.error = "401" -> IF remember # Nobody THEN "restore" ELSE "sign-in"
      [] me.error = "other" -> "error"
      [] me.data.flagged -> "step-up"
      [] OTHER -> "content"

ScreenOf(qs, p) ==
    CASE p \notin AccountPages -> p
      [] Redirects(qs, p) -> "redirect"
      [] OTHER -> AccountScreen(qs["me"])
Screen == ScreenOf(queries, page)

\* A redirect is followed by the render that asks for it, before anything else.
Rendered == Screen # "redirect"

Watched(q, qs, p) ==
    \/ q = "me" /\ p \in AccountPages /\ ~Redirects(qs, p)
    \/ q = "session" /\ p \in {"client", "reauth"}

\* None of these queries retries, and none keeps an answer fresh: mounting asks
\* again, without data the last error is forgotten; unmounting aborts.
Asks(state) ==
    [state EXCEPT !.fetch = "asked", !.with = cookie, !.got = Nothing,
                  !.error = IF state.data = Nothing THEN "none" ELSE @]
\* (AskedOn: a fetch goes on when its page is left.)
AskedOn(state) == state
Aborted(state) == [state EXCEPT !.fetch = "idle", !.with = 0, !.got = Nothing]

\* The cache once page p has been mounted, and once this page renders again.
Mounts(qs, p) ==
    LET bare == [q \in Query |-> Aborted(qs[q])]
    IN  [q \in Query |-> IF Watched(q, bare, p) THEN Asks(bare[q]) ELSE bare[q]]
Renders(qs) ==
    [q \in Query |->
        IF ~Watched(q, qs, page) THEN Aborted(qs[q])
        ELSE IF Watched(q, queries, page) THEN qs[q] ELSE Asks(qs[q])]

\* resetQueries(): no answers, no errors, nothing under way; then what the page
\* still watches is asked again.
Blank == [q \in Query |-> Fresh]

-----------------------------------------------------------------------------
(* The queries.                                                             *)

\* The server looks up the session the cookie of the request names.
Serve(q) ==
    /\ queries[q].fetch = "asked"
    /\ LET s == queries[q].with
       IN  queries' = [queries EXCEPT
              ![q].fetch = IF Alive(s) THEN "answered" ELSE "refused",
              ![q].with = 0,
              ![q].got = IF Alive(s)
                         THEN [at |-> s,
                               flagged |-> sessions[s].flagged]
                         ELSE Nothing]
    /\ UNCHANGED <<server, browser, page, done, call>>

Arrives(q) ==
    /\ Rendered /\ queries[q].fetch = "answered"
    /\ queries' = Renders([queries EXCEPT ![q] = [Fresh EXCEPT !.data = queries[q].got]])
    /\ UNCHANGED <<server, browser, page, done, call>>

\* 401 without a session; anything else may go wrong too.
Fails(q) ==
    /\ Rendered /\ queries[q].fetch # "idle"
    /\ queries' = Renders([queries EXCEPT
          ![q] = [Fresh EXCEPT !.data = queries[q].data,
                               !.error = IF queries[q].fetch = "refused" THEN "401" ELSE "other"]])
    /\ UNCHANGED <<server, browser, page, done, call>>

SessionExpires(s) ==
    /\ Alive(s)
    /\ sessions' = [sessions EXCEPT ![s].alive = FALSE, ![s].flagged = FALSE]
    /\ UNCHANGED <<digests, browser, view, call>>

-----------------------------------------------------------------------------
(* Moving about.                                                            *)

\* Bound: one mutation at a time, of all forms and buttons together.
Sends(op, who, keep) ==
    call' = [op |-> op, stage |-> "sent", with |-> cookie, who |-> who,
             keep |-> keep, mine |-> TRUE]

\* The sign-out page sends its call on mounting; the others leave a call under way
\* to itself.
Arriving(p, left) ==
    IF p = "logout" THEN left = NoCall /\ Sends("logout", Nobody, FALSE) ELSE call' = left

\* A link of the header, or a step in the browser's history: the cache stays.
Go(p) ==
    /\ Rendered /\ page # "away" /\ p # page
    /\ page' = p /\ done' = FALSE
    /\ queries' = Mounts(queries, p)
    /\ Arriving(p, IF call = NoCall THEN NoCall ELSE [call EXCEPT !.mine = FALSE])
    /\ UNCHANGED <<server, browser>>

\* A plain link or the address bar: the document and its cache are gone.
Load(p) ==
    /\ p # page
    /\ page' = p /\ done' = FALSE
    /\ queries' = Mounts(Blank, p)
    /\ Arriving(p, NoCall)
    /\ UNCHANGED <<server, browser>>

RedirectToStepUp ==
    /\ Screen = "redirect"
    /\ page' = "reauth" /\ queries' = Mounts(queries, "reauth")
    /\ UNCHANGED <<server, browser, done, call>>

-----------------------------------------------------------------------------
(* The calls.                                                               *)

SubmitSignIn(u) ==
    /\ call = NoCall /\ Screen \notin {"content", "redirect", "restore", "away"}
    /\ \E keep \in BOOLEAN : Sends("login", u, keep)
    /\ UNCHANGED <<server, browser, view>>

\* RememberMeRestore sends its call as soon as it is rendered, once.
StartRestore ==
    /\ call = NoCall /\ Screen = "restore"
    /\ Sends("restore", remember, FALSE)
    /\ UNCHANGED <<server, browser, view>>

SubmitPassword ==
    /\ call = NoCall /\ Screen \in {"step-up", "reauth"}
    /\ Sends("reauth", Nobody, FALSE)
    /\ UNCHANGED <<server, browser, view>>

\* The buttons of /me.
LogOut ==
    /\ call = NoCall /\ page = "me" /\ Screen = "content"
    /\ Sends("logout", Nobody, FALSE)
    /\ UNCHANGED <<server, browser, view>>

Enter ==
    /\ call = NoCall /\ page = "me" /\ Screen = "content"
    /\ Sends("enter", Nobody, FALSE)
    /\ UNCHANGED <<server, browser, view>>

Sent(op) == call.op = op /\ call.stage = "sent"
Replies(stage) == call' = [call EXCEPT !.stage = stage]
Rejects(stage) == call' = [call EXCEPT !.stage = stage, !.with = 0, !.who = Nobody]
Makes(s, u, restored, keep) ==
    /\ Next1(s)
    /\ sessions' = [sessions EXCEPT
          ![s] = [user |-> u, flagged |-> restored, alive |-> TRUE,
                  restored |-> restored, left |-> FALSE]]
    /\ call' = [call EXCEPT !.stage = "ok", !.with = s, !.keep = keep]

\* AuthController::login; it stores the digest before it answers, and answers
\* without the remember-me cookies when that fails.
Login ==
    /\ Sent("login")
    /\ \E stored \in BOOLEAN :
          /\ stored => call.keep
          /\ \E s \in 1..MaxSessions : Makes(s, call.who, FALSE, stored)
          /\ digests' = IF stored THEN digests \cup {call.who} ELSE digests
    /\ UNCHANGED <<browser, view>>

\* AuthController::rememberLogin; the session is flagged before it is named to
\* anybody, and clearing the digest may fail unseen.
RememberLogin ==
    /\ Sent("restore") /\ call.who \in digests
    /\ \E s \in 1..MaxSessions : Makes(s, call.who, TRUE, FALSE)
    /\ digests' \in {digests \ {call.who}, digests}
    /\ UNCHANGED <<browser, view>>

\* deny(), which takes the cookies away: the token is worth nothing, or it is good
\* and no session could be made.  The cookies stay when the user is banned or the
\* session could not be flagged.
RememberLoginRefused ==
    /\ Sent("restore")
    /\ \/ Rejects("denied")
       \/ call.who \in digests /\ Rejects("refused")
    /\ UNCHANGED <<server, browser, view>>

\* AuthController::logout answers 200 whatever became of the session.
Logout ==
    /\ Sent("logout")
    /\ \/ /\ Alive(call.with)
          /\ sessions' = [sessions EXCEPT ![call.with].alive = FALSE, ![call.with].flagged = FALSE]
          /\ digests' \in {digests \ {sessions[call.with].user}, digests}
       \/ UNCHANGED server
    /\ Replies("ok")
    /\ UNCHANGED <<browser, view>>

\* SecurityController::reauth
Reauth ==
    /\ Sent("reauth") /\ Alive(call.with)
    /\ sessions' = [sessions EXCEPT ![call.with].flagged = FALSE]
    /\ Replies("ok")
    /\ UNCHANGED <<digests, browser, view>>

\* CreditsController::clientEntry; what it does to the ticket is SsoTicket's.
ClientEntry ==
    /\ Sent("enter") /\ Alive(call.with)
    /\ Replies("ok")
    /\ UNCHANGED <<server, browser, view>>

Refuse ==
    /\ call.op \in {"login", "reauth", "enter"} /\ call.stage = "sent"
    /\ Rejects("refused")
    /\ UNCHANGED <<server, browser, view>>

-----------------------------------------------------------------------------
(* The answers.  The browser takes the cookies of an answer before a page sees it. *)

Settles(op) == Rendered /\ call.op = op
Answered(op) == Settles(op) /\ call.stage = "ok"

\* useLogin: the answer becomes that of "me"; then every form goes to /me.
LoginAnswered ==
    /\ Answered("login")
    /\ cookie' = call.with
    /\ remember' = IF call.keep THEN call.who ELSE remember
    /\ LET seeded == [queries EXCEPT
              !["me"].data = [at |-> call.with, flagged |-> FALSE], !["me"].error = "none"]
           asked == [q \in Query |-> Aborted(seeded[q])]
       IN  queries' = IF page = "me" THEN Renders(seeded)
                      ELSE [asked EXCEPT !["me"] =
                              [@ EXCEPT !.fetch = "asked", !.with = call.with]]
    /\ page' = "me" /\ done' = FALSE
    /\ call' = NoCall
    /\ UNCHANGED server

\* useRememberLogin.  The reset takes RememberMeRestore off the page, and with it
\* the navigation it had asked for: the step-up is rendered in place.
\* (CacheKept: what is cached stays, and only "me" is asked again.)
CacheKept(s) == [queries EXCEPT !["me"] = [Asks(@) EXCEPT !.with = s, !.error = "none"]]
CacheReset(s) ==
    [q \in Query |-> IF Watched(q, Blank, page)
                     THEN [Asks(Fresh) EXCEPT !.with = s] ELSE Fresh]

RestoreAnswered ==
    /\ Answered("restore")
    /\ cookie' = call.with /\ remember' = Nobody
    /\ queries' = CacheReset(call.with)
    /\ call' = NoCall
    /\ UNCHANGED <<server, page, done>>

\* A refused or lost restore goes to the sign-in page, if it is still rendered.
\* (StaysPut: it waits for the cookies to be gone instead.)
StaysPut == UNCHANGED view
GoneToSignIn ==
    IF call.mine
    THEN queries' = Mounts(queries, "public") /\ page' = "public" /\ done' = FALSE
    ELSE UNCHANGED view

RestoreFails ==
    /\ Settles("restore")
    /\ remember' = IF call.stage = "denied" THEN Nobody ELSE remember
    /\ GoneToSignIn
    /\ call' = NoCall
    /\ UNCHANGED <<server, cookie>>

\* onSettled of MePage and LogoutPage, if still mounted: leave /me, then drop
\* every answer, also of a call that failed.
\* (AnswersStay: only the navigation is done.)
AnswersStay == [q \in Query |-> Aborted(queries[q])]
AnswersGone == Blank
Settled ==
    IF call.mine
    THEN /\ queries' = AnswersGone
         /\ page' = IF page = "me" THEN "public" ELSE page
         /\ done' = (page = "logout")
    ELSE UNCHANGED view

LogoutAnswered ==
    /\ Answered("logout")
    /\ cookie' = 0 /\ remember' = Nobody
    /\ Settled
    /\ sessions' = IF call.mine /\ call.with # 0
                   THEN [sessions EXCEPT ![call.with].left = TRUE] ELSE sessions
    /\ call' = NoCall
    /\ UNCHANGED digests

LogoutFails ==
    /\ Settles("logout")
    /\ Settled
    /\ call' = NoCall
    /\ UNCHANGED <<server, browser>>

\* useReauthenticate: the session is asked again where it is watched, and waited
\* for; then on to /client, whatever page that is by now.
ReauthAnswered ==
    /\ Answered("reauth")
    /\ queries' = IF Watched("session", queries, page)
                  THEN [queries EXCEPT !["session"] = Asks(@)] ELSE queries
    /\ call' = [call EXCEPT !.stage = "settling", !.with = 0]
    /\ UNCHANGED <<server, browser, page, done>>

OnToClient ==
    /\ Settles("reauth") /\ call.stage = "settling"
    /\ queries["session"].fetch = "idle"
    /\ page' = "client" /\ done' = FALSE
    /\ queries' = IF page = "client" THEN queries ELSE Mounts(queries, "client")
    /\ call' = NoCall
    /\ UNCHANGED <<server, browser>>

\* Into the hotel, which unloads this document, or to /client when there is
\* nothing to launch.
EnterAnswered ==
    /\ Answered("enter")
    /\ \/ /\ page' = "away" /\ queries' = Blank
       \/ /\ page' = "client"
          /\ queries' = IF page = "client" THEN queries ELSE Mounts(queries, "client")
    /\ done' = FALSE
    /\ call' = NoCall
    /\ UNCHANGED <<server, browser>>

\* A refusal or a lost answer is reported where the call was made.
Reported ==
    /\ \E op \in {"login", "reauth", "enter"} : Settles(op)
    /\ call.stage # "settling"
    /\ call' = NoCall
    /\ UNCHANGED <<server, browser, view>>

Calls ==
    \/ Login \/ RememberLogin \/ RememberLoginRefused \/ Logout \/ Reauth \/ ClientEntry
    \/ Refuse
Answers ==
    \/ LoginAnswered \/ RestoreAnswered \/ RestoreFails \/ LogoutAnswered \/ LogoutFails
    \/ ReauthAnswered \/ OnToClient \/ EnterAnswered \/ Reported

\* What the visitor does.
Visits ==
    \/ \E p \in Visited : Go(p) \/ Load(p)
    \/ \E u \in User : SubmitSignIn(u)
    \/ SubmitPassword \/ LogOut \/ Enter

Next ==
    \/ \E q \in Query : Serve(q) \/ Arrives(q) \/ Fails(q)
    \/ \E s \in 1..MaxSessions : SessionExpires(s)
    \/ Visits \/ RedirectToStepUp \/ StartRestore
    \/ Calls \/ Answers

Spec == Init /\ [][Next]_vars

\* The server answers or the connection fails, and effects run; the visitor need
\* do nothing.
FairSpec ==
    /\ Spec
    /\ \A q \in Query : WF_vars(Serve(q) \/ Arrives(q) \/ Fails(q))
    /\ WF_vars(StartRestore) /\ WF_vars(RedirectToStepUp)
    /\ WF_vars(Calls \/ Answers)

-----------------------------------------------------------------------------
(* Properties.                                                              *)

\* Every variable has its type, and nothing is being asked that no page waits for.
TypeOK ==
    /\ sessions \in [1..MaxSessions -> Session]
    /\ cookie \in Number
    /\ remember \in User \cup {Nobody} /\ digests \subseteq User
    /\ queries \in [Query -> QueryState]
    /\ \A q \in Query : queries[q].fetch # "idle" => Watched(q, queries, page)
    /\ page \in Page /\ done \in BOOLEAN
    /\ call \in Call

\* A session restored from a remember-me token "must prove the password before it
\* can show anything" (AccountPage): no account page renders an answer given to the
\* session of the cookie while that session waits for the password, however long ago
\* the answer was given.  (Answers given to an earlier session are the matter of
\* RestoredStartsFresh.)
StepUpFirst ==
    Screen = "content" /\ queries["me"].data.at = cookie /\ Alive(cookie)
        => ~sessions[cookie].flagged

\* "Answers cached while signed out [...] must not survive into the restored
\* session" (useRememberLogin): what is cached under a restored session was
\* answered to that session.
RestoredStartsFresh ==
    cookie # 0 /\ sessions[cookie].restored
        => \A q \in Query : queries[q].data.at \in {0, cookie}

\* "Drop every cached answer after a successful sign-out" (useClearSessionCache):
\* once the page that asked for the sign-out has heard that it succeeded, nothing
\* that was answered to the session comes back, from the cache or from a fetch that
\* was under way.  The exception is a sign-out whose page was left before the answer:
\* the callbacks of MePage and LogoutPage are then not called, nothing is dropped,
\* and the account may be shown until it is asked for again.
SignOutIsFinal ==
    \A q \in Query :
        LET s == queries[q].data.at IN s # 0 => ~sessions[s].left

\* A visitor who does nothing more comes to rest: after a while no page waits for
\* an answer, restores a session, or sends him on to another page.  Redirects that
\* lead to each other would be a wait without end.
Waiting == Screen \in {"loading", "restore", "redirect"}
WaitingEnds == []<><<Visits>>_vars \/ <>[](~Waiting)
=============================================================================
