---------------------------- MODULE AccountProofs ----------------------------
(***************************************************************************)
(* Proofs about Account for every set of users, every number of sessions and   *)
(* whichever pages are visited.  The invariant follows the number of a session  *)
(* from the cookie through requests and answers into the cache: no number of a  *)
(* session that was left is anywhere on that way, an answer is never milder     *)
(* than its session, and under a restored session all of them are its own.     *)
(* A second one, AskedInv, says that a page without an answer has asked.       *)
(***************************************************************************)
EXTENDS Account, TLAPS

-----------------------------------------------------------------------------
(* The inductive invariant.  ss: the sessions; ck: the session of the cookie. *)

Sessions == [1..MaxSessions -> Session]

\* A session that may be named: it was made, and nobody was told it is over.
Current(n, ss) == n \in Number /\ (n # 0 => ss[n].user # Nobody /\ ~ss[n].left)

\* Under a restored session no other is named.
Own(n, ss, ck) == ck # 0 /\ ss[ck].restored => n \in {0, ck}

\* An answer says that its session is waiting for the password if that is so.
Truthful(a, ss, ck) ==
    /\ a \in Answer /\ Current(a.at, ss) /\ Own(a.at, ss, ck)
    /\ a.at # 0 /\ ss[a.at].flagged => a.flagged

GoodState(st, ss, ck) ==
    /\ st \in QueryState
    /\ Truthful(st.data, ss, ck) /\ Truthful(st.got, ss, ck)
    /\ Current(st.with, ss) /\ Own(st.with, ss, ck)

GoodCache(qs, ss, ck) ==
    /\ qs \in [Query -> QueryState]
    /\ \A q \in Query : GoodState(qs[q], ss, ck)

Waited(qs, p) == \A q \in Query : qs[q].fetch # "idle" => Watched(q, qs, p)

\* A session a sign-in has made was not restored and waits for nothing.
GoodCall(c, ss) ==
    /\ c \in Call /\ Current(c.with, ss)
    /\ c.op = "login" /\ c.stage = "sent" => c.who \in User
    /\ c.op = "login" /\ c.stage = "ok" =>
          c.with # 0 /\ ~ss[c.with].restored /\ ~ss[c.with].flagged

ServerInv == sessions \in Sessions /\ digests \subseteq User
BrowserInv ==
    /\ Current(cookie, sessions) /\ remember \in User \cup {Nobody}
    /\ page \in Page /\ done \in BOOLEAN
CacheInv == GoodCache(queries, sessions, cookie) /\ Waited(queries, page)
CallInv == GoodCall(call, sessions)

IInv == ServerInv /\ BrowserInv /\ CacheInv /\ CallInv

-----------------------------------------------------------------------------
(* The operators on the cache.                                              *)

LEMMA Zero == 0 \in Number
BY AccountAssumption DEF Number

LEMMA NothingTruthful ==
    ASSUME NEW ss, NEW ck
    PROVE  Truthful(Nothing, ss, ck) /\ Current(0, ss) /\ Own(0, ss, ck)
BY Zero DEF Truthful, Nothing, Answer, Current, Own

LEMMA FreshGood ==
    ASSUME NEW ss, NEW ck
    PROVE  GoodState(Fresh, ss, ck)
<1>1. Nothing \in Answer
  BY NothingTruthful DEF Truthful
<1>2. Fresh \in QueryState
  BY <1>1, Zero DEF Fresh, QueryState
<1> QED
  BY <1>2, NothingTruthful DEF GoodState, Fresh

LEMMA AbortedGood ==
    ASSUME NEW ss, NEW ck, NEW st, GoodState(st, ss, ck)
    PROVE  /\ GoodState(Aborted(st), ss, ck)
           /\ Aborted(st).data = st.data /\ Aborted(st).fetch = "idle"
<1>0. st \in QueryState
  BY DEF GoodState
<1>1. Nothing \in Answer
  BY NothingTruthful DEF Truthful
<1>2. /\ Aborted(st) \in QueryState /\ Aborted(st).data = st.data /\ Aborted(st).with = 0
      /\ Aborted(st).got = Nothing /\ Aborted(st).fetch = "idle"
  BY <1>0, <1>1, Zero DEF Aborted, QueryState
<1> QED
  BY <1>2, NothingTruthful DEF GoodState

LEMMA AsksGood ==
    ASSUME NEW ss, NEW ck, NEW st, GoodState(st, ss, ck),
           Current(cookie, ss), Own(cookie, ss, ck)
    PROVE  GoodState(Asks(st), ss, ck) /\ Asks(st).data = st.data
<1>0. st \in QueryState /\ cookie \in Number
  BY DEF GoodState, Current
<1>1. Nothing \in Answer
  BY NothingTruthful DEF Truthful
<1> DEFINE wrong == IF st.data = Nothing THEN "none" ELSE st.error
<1>2. wrong \in {"none", "401", "other"}
  BY <1>0 DEF QueryState
<1>3. Asks(st) = [st EXCEPT !.fetch = "asked", !.with = cookie, !.got = Nothing,
                            !.error = wrong]
  BY DEF Asks
<1> HIDE DEF wrong
<1>4. /\ Asks(st) \in QueryState /\ Asks(st).data = st.data /\ Asks(st).with = cookie
      /\ Asks(st).got = Nothing
  BY <1>0, <1>1, <1>2, <1>3 DEF QueryState
<1> QED
  BY <1>4, NothingTruthful DEF GoodState

\* What is watched is decided by the answers alone.
LEMMA WatchedByData ==
    ASSUME NEW qs, NEW rs, NEW p, rs["session"].data = qs["session"].data, NEW q \in Query
    PROVE  Watched(q, rs, p) <=> Watched(q, qs, p)
BY DEF Watched, Redirects

LEMMA MountsGood ==
    ASSUME NEW ss, NEW ck, NEW qs, GoodCache(qs, ss, ck), NEW p,
           Current(cookie, ss), Own(cookie, ss, ck)
    PROVE  GoodCache(Mounts(qs, p), ss, ck) /\ Waited(Mounts(qs, p), p)
<1> DEFINE bare == [q \in Query |-> Aborted(qs[q])]
           rs == [q \in Query |-> IF Watched(q, bare, p) THEN Asks(bare[q]) ELSE bare[q]]
<1>1. \A q \in Query : /\ GoodState(bare[q], ss, ck) /\ bare[q].fetch = "idle"
                       /\ bare[q].data = qs[q].data
  BY AbortedGood DEF GoodCache
<1>2. Mounts(qs, p) = rs
  BY DEF Mounts
<1> HIDE DEF bare
<1>3. \A q \in Query : GoodState(rs[q], ss, ck) /\ rs[q].data = bare[q].data
  BY <1>1, AsksGood
<1>4. \A q \in Query : rs[q].fetch # "idle" => Watched(q, bare, p)
  BY <1>1
<1>5. rs \in [Query -> QueryState]
  BY <1>3 DEF GoodState
<1> HIDE DEF rs
<1>6. \A q \in Query : Watched(q, rs, p) <=> Watched(q, bare, p)
  BY <1>3, WatchedByData DEF Query
<1> QED
  BY <1>2, <1>3, <1>4, <1>5, <1>6 DEF GoodCache, Waited

LEMMA RendersGood ==
    ASSUME NEW ss, NEW ck, NEW qs, GoodCache(qs, ss, ck),
           Current(cookie, ss), Own(cookie, ss, ck)
    PROVE  GoodCache(Renders(qs), ss, ck) /\ Waited(Renders(qs), page)
<1> DEFINE rs == [q \in Query |->
                    IF ~Watched(q, qs, page) THEN Aborted(qs[q])
                    ELSE IF Watched(q, queries, page) THEN qs[q] ELSE Asks(qs[q])]
<1>1. Renders(qs) = rs
  BY DEF Renders
<1>2. \A q \in Query : GoodState(rs[q], ss, ck) /\ rs[q].data = qs[q].data
  BY AbortedGood, AsksGood DEF GoodCache
<1>3. \A q \in Query : rs[q].fetch # "idle" => Watched(q, qs, page)
  BY AbortedGood DEF GoodCache
<1>4. rs \in [Query -> QueryState]
  BY <1>2 DEF GoodState
<1> HIDE DEF rs
<1>5. \A q \in Query : Watched(q, rs, page) <=> Watched(q, qs, page)
  BY <1>2, WatchedByData DEF Query
<1> QED
  BY <1>1, <1>2, <1>3, <1>4, <1>5 DEF GoodCache, Waited

LEMMA BlankGood ==
    ASSUME NEW ss, NEW ck, NEW p
    PROVE  GoodCache(Blank, ss, ck) /\ Waited(Blank, p)
<1>1. \A q \in Query : GoodState(Blank[q], ss, ck) /\ Blank[q].fetch = "idle"
  BY FreshGood DEF Blank, Fresh
<1>2. Blank \in [Query -> QueryState]
  BY FreshGood DEF Blank, GoodState
<1> QED
  BY <1>1, <1>2 DEF GoodCache, Waited

LEMMA OneQuery ==
    ASSUME NEW ss, NEW ck, NEW qs, GoodCache(qs, ss, ck), NEW q \in Query,
           NEW st, GoodState(st, ss, ck)
    PROVE  GoodCache([qs EXCEPT ![q] = st], ss, ck)
BY DEF GoodCache, GoodState

\* The sessions go on: a session that was made stays, and only ever waits for less.
Evolve(ss, tt) ==
    \A n \in 1..MaxSessions :
        ss[n].user # Nobody =>
            /\ tt[n].user # Nobody /\ (tt[n].flagged => ss[n].flagged)
            /\ tt[n].restored = ss[n].restored /\ tt[n].left = ss[n].left

LEMMA NumberIsSession ==
    ASSUME NEW n \in Number, n # 0
    PROVE  n \in 1..MaxSessions
BY AccountAssumption DEF Number

LEMMA EvolveKeepsNumbers ==
    ASSUME NEW ss, NEW tt, Evolve(ss, tt), NEW n, Current(n, ss)
    PROVE  Current(n, tt)
BY NumberIsSession DEF Evolve, Current

LEMMA EvolveKeepsCache ==
    ASSUME NEW ss, NEW tt, Evolve(ss, tt), NEW ck, Current(ck, ss),
           NEW qs, GoodCache(qs, ss, ck)
    PROVE  GoodCache(qs, tt, ck)
<1>1. \A n : Own(n, ss, ck) => Own(n, tt, ck)
  BY NumberIsSession DEF Own, Evolve, Current
<1>2. \A a : Truthful(a, ss, ck) => Truthful(a, tt, ck)
  <2> SUFFICES ASSUME NEW a, Truthful(a, ss, ck) PROVE Truthful(a, tt, ck)
    OBVIOUS
  <2>1. Current(a.at, tt) /\ Own(a.at, tt, ck)
    BY <1>1, EvolveKeepsNumbers DEF Truthful
  <2>2. ASSUME a.at # 0, tt[a.at].flagged PROVE a.flagged
    <3>1. a.at \in 1..MaxSessions /\ ss[a.at].user # Nobody
      BY <2>2, NumberIsSession DEF Truthful, Current
    <3> QED
      BY <2>2, <3>1 DEF Evolve, Truthful
  <2> QED
    BY <2>1, <2>2 DEF Truthful
<1> QED
  BY <1>1, <1>2, EvolveKeepsNumbers DEF GoodCache, GoodState

LEMMA EvolveKeepsCall ==
    ASSUME NEW ss, NEW tt, Evolve(ss, tt), NEW c, GoodCall(c, ss)
    PROVE  GoodCall(c, tt)
<1>1. Current(c.with, tt)
  BY EvolveKeepsNumbers DEF GoodCall
<1>2. ASSUME c.op = "login", c.stage = "ok"
      PROVE  c.with # 0 /\ ~tt[c.with].restored /\ ~tt[c.with].flagged
  <2>1. c.with \in 1..MaxSessions /\ ss[c.with].user # Nobody
    BY <1>2, NumberIsSession DEF GoodCall, Current
  <2> QED
    BY <1>2, <2>1 DEF GoodCall, Evolve
<1> QED
  BY <1>1, <1>2 DEF GoodCall

LEMMA NoCallGood ==
    ASSUME NEW ss
    PROVE  GoodCall(NoCall, ss)
BY Zero DEF GoodCall, NoCall, Call, Current

-----------------------------------------------------------------------------
(* The start, and what each part rests on.                                  *)

LEMMA InitHolds == Init => IInv
<1> SUFFICES ASSUME Init PROVE IInv
  OBVIOUS
<1>1. Unborn \in Session
  BY DEF Unborn, Session
<1>2. ServerInv
  BY <1>1 DEF Init, ServerInv, Sessions
<1>3. BrowserInv
  BY Zero DEF Init, BrowserInv, Current, Page
<1>4. queries = Blank
  BY DEF Init, Blank
<1>5. CacheInv /\ CallInv
  BY <1>4, BlankGood, NoCallGood DEF Init, CacheInv, CallInv
<1> QED
  BY <1>2, <1>3, <1>5 DEF IInv

LEMMA InvParts ==
    ASSUME IInv
    PROVE  /\ ServerInv /\ BrowserInv /\ CacheInv /\ CallInv
           /\ GoodCache(queries, sessions, cookie) /\ Waited(queries, page)
           /\ Current(cookie, sessions) /\ Own(cookie, sessions, cookie)
           /\ GoodCall(call, sessions) /\ call \in Call
BY DEF IInv, BrowserInv, CacheInv, CallInv, Own, GoodCall, Current

\* A step of the browser's pages: the server's sessions stay.
LEMMA BrowserStep ==
    ASSUME IInv, UNCHANGED <<server, cookie>>,
           remember' \in User \cup {Nobody}, page' \in Page, done' \in BOOLEAN,
           GoodCache(queries', sessions, cookie), Waited(queries', page'),
           GoodCall(call', sessions)
    PROVE  IInv'
BY DEF IInv, server, ServerInv, BrowserInv, CacheInv, CallInv

\* A step of the server: the pages stay.
LEMMA ServerStep ==
    ASSUME IInv, UNCHANGED <<browser, view>>, sessions' \in Sessions, digests' \subseteq User,
           Evolve(sessions, sessions'), GoodCall(call', sessions')
    PROVE  IInv'
<1>0. UNCHANGED <<cookie, remember, queries, page, done>>
  BY DEF browser, view
<1>1. Current(cookie, sessions') /\ GoodCache(queries, sessions', cookie)
  BY InvParts, EvolveKeepsNumbers, EvolveKeepsCache
<1> QED
  BY <1>0, <1>1 DEF IInv, ServerInv, BrowserInv, CacheInv, CallInv

LEMMA Same ==
    ASSUME NEW ss
    PROVE  Evolve(ss, ss)
BY DEF Evolve

-----------------------------------------------------------------------------
(* The queries.                                                             *)

LEMMA ServeKeeps ==
    ASSUME IInv, NEW q \in Query, Serve(q)
    PROVE  IInv'
<1> DEFINE s == queries[q].with
           found == [at |-> s, flagged |-> sessions[s].flagged]
           got == IF Alive(s) THEN found ELSE Nothing
           how == IF Alive(s) THEN "answered" ELSE "refused"
           st == [queries[q] EXCEPT !.fetch = how, !.with = 0, !.got = got]
<1>0. GoodState(queries[q], sessions, cookie) /\ queries[q] \in QueryState
  BY InvParts DEF GoodCache, GoodState
<1>1. Truthful(got, sessions, cookie) /\ got \in Answer
  <2>1. CASE Alive(s)
    <3>1. s \in 1..MaxSessions /\ Current(s, sessions) /\ Own(s, sessions, cookie)
      BY <1>0, <2>1, NumberIsSession DEF Alive, GoodState, Current
    <3>2. sessions[s] \in Session
      BY <3>1 DEF IInv, ServerInv, Sessions
    <3>3. found \in Answer /\ found.at = s /\ found.flagged = sessions[s].flagged
      BY <3>1, <3>2 DEF Answer, Session, Current
    <3> QED
      BY <2>1, <3>1, <3>3 DEF Truthful
  <2>2. CASE ~Alive(s)
    BY <2>2, NothingTruthful DEF Truthful
  <2> QED
    BY <2>1, <2>2
<1> HIDE DEF found, got
<1>2. /\ st \in QueryState /\ st.data = queries[q].data /\ st.got = got /\ st.with = 0
  BY <1>0, <1>1, Zero DEF QueryState
<1>3. queries' = [queries EXCEPT ![q] = st]
  BY <1>0 DEF Serve, got, found, QueryState
<1> HIDE DEF st
<1>4. GoodState(st, sessions, cookie)
  BY <1>0, <1>1, <1>2, NothingTruthful DEF GoodState
<1>5. GoodCache(queries', sessions, cookie)
  BY <1>3, <1>4, InvParts, OneQuery
<1>6. Waited(queries', page)
  <2>1. \A r \in Query : queries'[r].data = queries[r].data
    BY <1>2, <1>3, InvParts DEF GoodCache
  <2>2. \A r \in Query : queries'[r].fetch # "idle" => queries[r].fetch # "idle"
    BY <1>3, InvParts DEF GoodCache, Serve
  <2>3. \A r \in Query : Watched(r, queries', page) <=> Watched(r, queries, page)
    BY <2>1, WatchedByData DEF Query
  <2> QED
    BY <2>2, <2>3, InvParts DEF Waited
<1> QED
  BY <1>5, <1>6, InvParts, BrowserStep DEF Serve, browser, BrowserInv

LEMMA ArrivesKeeps ==
    ASSUME IInv, NEW q \in Query, Arrives(q)
    PROVE  IInv'
<1> DEFINE st == [Fresh EXCEPT !.data = queries[q].got]
<1>0. GoodState(queries[q], sessions, cookie)
  BY InvParts DEF GoodCache
<1>1. GoodState(Fresh, sessions, cookie)
  BY FreshGood
<1>2. /\ st \in QueryState /\ st.data = queries[q].got /\ st.got = Nothing /\ st.with = 0
  BY <1>0, <1>1 DEF GoodState, QueryState, Fresh
<1>3. queries' = Renders([queries EXCEPT ![q] = st])
  BY DEF Arrives
<1> HIDE DEF st
<1>4. GoodState(st, sessions, cookie)
  BY <1>0, <1>2, NothingTruthful DEF GoodState
<1>5. GoodCache([queries EXCEPT ![q] = st], sessions, cookie)
  BY <1>4, InvParts, OneQuery
<1>6. GoodCache(queries', sessions, cookie) /\ Waited(queries', page)
  BY <1>3, <1>5, InvParts, RendersGood
<1> QED
  BY <1>6, InvParts, BrowserStep DEF Arrives, browser, BrowserInv

LEMMA FailsKeeps ==
    ASSUME IInv, NEW q \in Query, Fails(q)
    PROVE  IInv'
<1> DEFINE wrong == IF queries[q].fetch = "refused" THEN "401" ELSE "other"
           st == [Fresh EXCEPT !.data = queries[q].data, !.error = wrong]
<1>0. GoodState(queries[q], sessions, cookie)
  BY InvParts DEF GoodCache
<1>1. GoodState(Fresh, sessions, cookie)
  BY FreshGood
<1>2. /\ st \in QueryState /\ st.data = queries[q].data /\ st.got = Nothing /\ st.with = 0
  BY <1>0, <1>1 DEF GoodState, QueryState, Fresh
<1>3. queries' = Renders([queries EXCEPT ![q] = st])
  BY DEF Fails
<1> HIDE DEF st
<1>4. GoodState(st, sessions, cookie)
  BY <1>0, <1>2, NothingTruthful DEF GoodState
<1>5. GoodCache([queries EXCEPT ![q] = st], sessions, cookie)
  BY <1>4, InvParts, OneQuery
<1>6. GoodCache(queries', sessions, cookie) /\ Waited(queries', page)
  BY <1>3, <1>5, InvParts, RendersGood
<1> QED
  BY <1>6, InvParts, BrowserStep DEF Fails, browser, BrowserInv

LEMMA SessionExpiresKeeps ==
    ASSUME IInv, NEW s \in 1..MaxSessions, SessionExpires(s)
    PROVE  IInv'
<1>1. sessions' = [sessions EXCEPT ![s].alive = FALSE, ![s].flagged = FALSE]
      /\ UNCHANGED <<digests, browser, view, call>>
  BY DEF SessionExpires
<1>2. sessions \in Sessions
  BY DEF IInv, ServerInv
<1>3. sessions' \in Sessions
  BY <1>1, <1>2 DEF Sessions, Session
<1>4. Evolve(sessions, sessions')
  BY <1>1, <1>2 DEF Evolve, Sessions, Session
<1>5. GoodCall(call', sessions')
  BY <1>1, <1>4, InvParts, EvolveKeepsCall
<1> QED
  BY <1>1, <1>3, <1>4, <1>5, ServerStep DEF IInv, ServerInv

-----------------------------------------------------------------------------
(* Moving about.                                                            *)

LEMMA SendsGood ==
    ASSUME IInv, NEW op \in {"login", "restore", "logout", "reauth", "enter"},
           NEW who \in User \cup {Nobody}, NEW keep \in BOOLEAN, Sends(op, who, keep),
           op = "login" => who \in User
    PROVE  GoodCall(call', sessions)
<1>1. Current(cookie, sessions) /\ cookie \in Number
  BY InvParts DEF Current
<1>2. /\ call' \in Call /\ call'.op = op /\ call'.stage = "sent" /\ call'.with = cookie
      /\ call'.who = who
  BY <1>1 DEF Sends, Call
<1> QED
  BY <1>1, <1>2 DEF GoodCall

LEMMA ArrivingGood ==
    ASSUME IInv, NEW p, NEW c, GoodCall(c, sessions), Arriving(p, c)
    PROVE  GoodCall(call', sessions)
<1>1. Sends("logout", Nobody, FALSE) => GoodCall(call', sessions)
  BY SendsGood
<1> QED
  BY <1>1 DEF Arriving

LEMMA GoKeeps ==
    ASSUME IInv, NEW p \in Visited, Go(p)
    PROVE  IInv'
<1> DEFINE c == IF call = NoCall THEN NoCall ELSE [call EXCEPT !.mine = FALSE]
<1>1. GoodCall(c, sessions)
  <2>1. call \in Call /\ GoodCall(call, sessions)
    BY InvParts
  <2>2. GoodCall([call EXCEPT !.mine = FALSE], sessions)
    BY <2>1 DEF GoodCall, Call
  <2> QED
    BY <2>2, NoCallGood
<1>2. Arriving(p, c)
  BY DEF Go
<1> HIDE DEF c
<1>3. GoodCall(call', sessions)
  BY <1>1, <1>2, ArrivingGood
<1>4. GoodCache(queries', sessions, cookie) /\ Waited(queries', page')
  BY InvParts, MountsGood DEF Go
<1>5. page' \in Page /\ done' \in BOOLEAN
  BY AccountAssumption DEF Go, Page, AccountPages
<1> QED
  BY <1>3, <1>4, <1>5, InvParts, BrowserStep DEF Go, browser, BrowserInv

LEMMA LoadKeeps ==
    ASSUME IInv, NEW p \in Visited, Load(p)
    PROVE  IInv'
<1>1. GoodCall(call', sessions)
  BY NoCallGood, ArrivingGood DEF Load
<1>2. GoodCache(queries', sessions, cookie) /\ Waited(queries', page')
  BY InvParts, BlankGood, MountsGood DEF Load
<1>3. page' \in Page /\ done' \in BOOLEAN
  BY AccountAssumption DEF Load, Page, AccountPages
<1> QED
  BY <1>1, <1>2, <1>3, InvParts, BrowserStep DEF Load, browser, BrowserInv

LEMMA RedirectKeeps ==
    ASSUME IInv, RedirectToStepUp
    PROVE  IInv'
<1>1. GoodCache(queries', sessions, cookie) /\ Waited(queries', page')
  BY InvParts, MountsGood DEF RedirectToStepUp
<1>2. page' \in Page
  BY DEF RedirectToStepUp, Page
<1> QED
  BY <1>1, <1>2, InvParts, BrowserStep DEF RedirectToStepUp, browser, BrowserInv

LEMMA SubmitKeeps ==
    ASSUME IInv,
           \/ \E u \in User : SubmitSignIn(u)
           \/ StartRestore \/ SubmitPassword \/ LogOut \/ Enter
    PROVE  IInv'
<1>0. remember \in User \cup {Nobody} /\ Nobody \in User \cup {Nobody}
  BY InvParts DEF BrowserInv
<1>1. UNCHANGED <<server, browser, view>>
  BY DEF SubmitSignIn, StartRestore, SubmitPassword, LogOut, Enter
<1>2. GoodCall(call', sessions)
  <2>1. ASSUME NEW u \in User, SubmitSignIn(u) PROVE GoodCall(call', sessions)
    <3>1. PICK keep \in BOOLEAN : Sends("login", u, keep)
      BY <2>1 DEF SubmitSignIn
    <3> QED
      BY <3>1, SendsGood
  <2>2. ASSUME StartRestore PROVE GoodCall(call', sessions)
    BY <1>0, <2>2, SendsGood DEF StartRestore
  <2>3. ASSUME SubmitPassword PROVE GoodCall(call', sessions)
    BY <1>0, <2>3, SendsGood DEF SubmitPassword
  <2>4. ASSUME LogOut PROVE GoodCall(call', sessions)
    BY <1>0, <2>4, SendsGood DEF LogOut
  <2>5. ASSUME Enter PROVE GoodCall(call', sessions)
    BY <1>0, <2>5, SendsGood DEF Enter
  <2> QED
    BY <2>1, <2>2, <2>3, <2>4, <2>5
<1>3. UNCHANGED <<queries, page, done, cookie, remember>>
  BY <1>1 DEF view, browser
<1> QED
  BY <1>1, <1>2, <1>3, InvParts, BrowserStep DEF BrowserInv

-----------------------------------------------------------------------------
(* The server's side of the calls.                                          *)

LEMMA MakesGood ==
    ASSUME IInv, NEW s \in 1..MaxSessions, NEW u \in User, NEW restored \in BOOLEAN,
           NEW keep \in BOOLEAN, Makes(s, u, restored, keep), call.op # "login" \/ ~restored
    PROVE  sessions' \in Sessions /\ Evolve(sessions, sessions') /\ GoodCall(call', sessions')
<1> DEFINE new == [user |-> u, flagged |-> restored, alive |-> TRUE,
                   restored |-> restored, left |-> FALSE]
<1>1. /\ sessions' = [sessions EXCEPT ![s] = new] /\ sessions[s].user = Nobody
      /\ call' = [call EXCEPT !.stage = "ok", !.with = s, !.keep = keep]
  BY DEF Makes, Next1, Created
<1>2. /\ new \in Session /\ new.user = u /\ new.flagged = restored /\ new.restored = restored
      /\ new.left = FALSE
  BY DEF Session
<1> HIDE DEF new
<1>3. sessions \in Sessions
  BY DEF IInv, ServerInv
<1>4. sessions' \in Sessions /\ sessions'[s] = new
  BY <1>1, <1>2, <1>3 DEF Sessions
<1>5. Evolve(sessions, sessions')
  BY <1>1, <1>3 DEF Evolve, Sessions
<1>6. /\ call' \in Call /\ call'.with = s /\ call'.op = call.op /\ call'.stage = "ok"
  <2>1. s \in Number /\ call \in Call
    BY InvParts DEF Number
  <2> QED
    BY <1>1, <2>1 DEF Call
<1>7. s # 0 /\ s \in Number /\ u # Nobody
  BY AccountAssumption DEF Number
<1>8. Current(call'.with, sessions')
  BY <1>2, <1>4, <1>6, <1>7 DEF Current
<1>9. GoodCall(call', sessions')
  BY <1>2, <1>4, <1>6, <1>7, <1>8 DEF GoodCall
<1> QED
  BY <1>4, <1>5, <1>9

LEMMA RepliesGood ==
    ASSUME IInv, NEW stage \in {"ok", "refused", "denied"}, Replies(stage) \/ Rejects(stage),
           stage = "ok" => call.op # "login"
    PROVE  GoodCall(call', sessions)
<1>1. call \in Call /\ GoodCall(call, sessions)
  BY InvParts
<1>2. /\ call' \in Call /\ call'.op = call.op /\ call'.stage = stage
      /\ call'.with \in {call.with, 0}
  BY <1>1, Zero DEF Replies, Rejects, Call
<1> QED
  BY <1>1, <1>2, NothingTruthful DEF GoodCall

LEMMA CallsKeep ==
    ASSUME IInv, Calls
    PROVE  IInv'
<1>0. sessions \in Sessions /\ digests \subseteq User /\ call \in Call
      /\ GoodCall(call, sessions) /\ Evolve(sessions, sessions)
  BY InvParts, Same DEF ServerInv
<1>1. ASSUME Login PROVE IInv'
  <2>1. call.op = "login" /\ call.who \in User /\ UNCHANGED <<browser, view>>
    BY <1>0, <1>1 DEF Login, Sent, GoodCall
  <2>2. PICK s \in 1..MaxSessions, stored \in BOOLEAN : Makes(s, call.who, FALSE, stored)
    BY <1>1 DEF Login
  <2>3. sessions' \in Sessions /\ Evolve(sessions, sessions') /\ GoodCall(call', sessions')
    BY <2>1, <2>2, MakesGood
  <2>4. digests' \subseteq User
    BY <1>0, <1>1, <2>1 DEF Login
  <2> QED
    BY <2>1, <2>3, <2>4, ServerStep
<1>2. ASSUME RememberLogin PROVE IInv'
  <2>1. call.op = "restore" /\ call.who \in User /\ UNCHANGED <<browser, view>>
    BY <1>0, <1>2 DEF RememberLogin, Sent
  <2>2. PICK s \in 1..MaxSessions : Makes(s, call.who, TRUE, FALSE)
    BY <1>2 DEF RememberLogin
  <2>3. sessions' \in Sessions /\ Evolve(sessions, sessions') /\ GoodCall(call', sessions')
    BY <2>1, <2>2, MakesGood
  <2>4. digests' \subseteq User
    BY <1>0, <1>2 DEF RememberLogin
  <2> QED
    BY <2>1, <2>3, <2>4, ServerStep
<1>3. ASSUME RememberLoginRefused \/ ClientEntry \/ Refuse PROVE IInv'
  <2>1. UNCHANGED <<server, browser, view>> /\ UNCHANGED <<sessions, digests>>
    BY <1>3 DEF RememberLoginRefused, ClientEntry, Refuse, server
  <2>2. GoodCall(call', sessions)
    BY <1>3, RepliesGood DEF RememberLoginRefused, ClientEntry, Refuse, Sent
  <2> QED
    BY <1>0, <2>1, <2>2, ServerStep
<1>4. ASSUME Logout PROVE IInv'
  <2>1. UNCHANGED <<browser, view>> /\ GoodCall(call', sessions)
    BY <1>4, RepliesGood DEF Logout, Sent
  <2>2. digests' \subseteq User
    BY <1>0, <1>4 DEF Logout, server
  <2>3. CASE UNCHANGED server
    BY <1>0, <2>1, <2>2, <2>3, ServerStep DEF server
  <2>4. CASE Alive(call.with) /\ sessions' = [sessions EXCEPT ![call.with].alive = FALSE,
                                                              ![call.with].flagged = FALSE]
    <3>1. call.with \in 1..MaxSessions
      BY <1>0, <2>4, NumberIsSession DEF Alive, GoodCall, Current
    <3>2. sessions' \in Sessions
      BY <1>0, <2>4, <3>1 DEF Sessions, Session
    <3>3. Evolve(sessions, sessions')
      BY <1>0, <2>4, <3>1 DEF Evolve, Sessions, Session
    <3> QED
      BY <2>1, <2>2, <3>2, <3>3, ServerStep, EvolveKeepsCall
  <2> QED
    BY <1>4, <2>3, <2>4 DEF Logout
<1>5. ASSUME Reauth PROVE IInv'
  <2>1. UNCHANGED <<digests, browser, view>> /\ GoodCall(call', sessions)
    BY <1>5, RepliesGood DEF Reauth, Sent
  <2>2. sessions' = [sessions EXCEPT ![call.with].flagged = FALSE] /\ Alive(call.with)
    BY <1>5 DEF Reauth
  <2>3. call.with \in 1..MaxSessions
    BY <1>0, <2>2, NumberIsSession DEF Alive, GoodCall, Current
  <2>4. sessions' \in Sessions
    BY <1>0, <2>2, <2>3 DEF Sessions, Session
  <2>5. Evolve(sessions, sessions')
    BY <1>0, <2>2, <2>3 DEF Evolve, Sessions, Session
  <2> QED
    BY <1>0, <2>1, <2>4, <2>5, ServerStep, EvolveKeepsCall
<1> QED
  BY <1>1, <1>2, <1>3, <1>4, <1>5 DEF Calls

-----------------------------------------------------------------------------
(* The answers.                                                             *)

LEMMA Together ==
    ASSUME sessions' \in Sessions, digests' \subseteq User,
           Current(cookie', sessions'), remember' \in User \cup {Nobody},
           page' \in Page, done' \in BOOLEAN,
           GoodCache(queries', sessions', cookie'), Waited(queries', page'),
           GoodCall(call', sessions')
    PROVE  IInv'
BY DEF IInv, ServerInv, BrowserInv, CacheInv, CallInv

\* A session that was not restored tolerates every answer there is.
LEMMA Tolerates ==
    ASSUME NEW ss, NEW ck, NEW qs, GoodCache(qs, ss, ck),
           NEW new, new # 0 => ~ss[new].restored
    PROVE  GoodCache(qs, ss, new) /\ Own(cookie, ss, new)
BY DEF GoodCache, GoodState, Truthful, Own

LEMMA LoginAnsweredKeeps ==
    ASSUME IInv, LoginAnswered
    PROVE  IInv'
<1> DEFINE n == call.with
           answer == [at |-> n, flagged |-> FALSE]
           me == [queries["me"] EXCEPT !.data = answer, !.error = "none"]
           seeded == [queries EXCEPT !["me"].data = answer, !["me"].error = "none"]
           asked == [q \in Query |-> Aborted(seeded[q])]
           again == [asked["me"] EXCEPT !.fetch = "asked", !.with = n]
           there == [asked EXCEPT !["me"] = again]
<1>0. "me" \in Query /\ queries \in [Query -> QueryState]
  BY InvParts DEF Query, GoodCache
<1>1. /\ n # 0 /\ ~sessions[n].restored /\ ~sessions[n].flagged /\ Current(n, sessions)
      /\ n \in Number
  BY InvParts DEF LoginAnswered, Answered, Settles, GoodCall, Current
<1>2. GoodCache(queries, sessions, n) /\ Own(cookie, sessions, n) /\ Own(n, sessions, n)
  BY <1>1, InvParts, Tolerates DEF Own
<1>3. answer \in Answer /\ Truthful(answer, sessions, n)
  BY <1>1, <1>2 DEF Answer, Truthful
<1>4. queries' = IF page = "me" THEN Renders(seeded) ELSE there
  BY DEF LoginAnswered
<1> HIDE DEF answer
<1>5. seeded = [queries EXCEPT !["me"] = me]
  <2>1. queries["me"] \in QueryState
    BY <1>0
  <2> QED
    BY <1>0, <2>1 DEF QueryState
<1>6. GoodState(me, sessions, n)
  <2>1. GoodState(queries["me"], sessions, n) /\ queries["me"] \in QueryState
    BY <1>0, <1>2 DEF GoodCache
  <2>2. /\ me \in QueryState /\ me.data = answer /\ me.got = queries["me"].got
        /\ me.with = queries["me"].with
    BY <1>3, <2>1 DEF QueryState
  <2> QED
    BY <1>3, <2>1, <2>2 DEF GoodState
<1> HIDE DEF me
<1>7. GoodCache(seeded, sessions, n)
  BY <1>0, <1>2, <1>5, <1>6, OneQuery
<1> HIDE DEF seeded
<1>8. GoodCache(asked, sessions, n) /\ \A q \in Query : asked[q].fetch = "idle"
  <2>1. \A q \in Query : GoodState(asked[q], sessions, n) /\ asked[q].fetch = "idle"
    BY <1>7, AbortedGood DEF GoodCache
  <2> QED
    BY <2>1 DEF GoodCache, GoodState
<1> HIDE DEF asked
<1>9. GoodState(again, sessions, n)
  <2>1. GoodState(asked["me"], sessions, n) /\ asked["me"] \in QueryState
    BY <1>0, <1>8 DEF GoodCache
  <2>2. /\ again \in QueryState /\ again.data = asked["me"].data
        /\ again.got = asked["me"].got /\ again.with = n
    BY <1>1, <2>1 DEF QueryState
  <2> QED
    BY <1>1, <1>2, <2>1, <2>2 DEF GoodState
<1> HIDE DEF again
<1>10. GoodCache(there, sessions, n)
  BY <1>0, <1>8, <1>9, OneQuery
<1>11. Waited(there, "me")
  <2>1. \A q \in Query : there[q].fetch # "idle" => q = "me"
    BY <1>0, <1>8 DEF GoodCache
  <2> QED
    BY <2>1 DEF Waited, Watched, Redirects, AccountPages
<1> HIDE DEF there
<1>12. GoodCache(queries', sessions, n) /\ Waited(queries', "me")
  BY <1>2, <1>4, <1>7, <1>10, <1>11, InvParts, RendersGood
<1>13. /\ cookie' = n /\ remember' \in {call.who, remember} /\ page' = "me" /\ done' = FALSE
       /\ call' = NoCall /\ UNCHANGED <<sessions, digests>>
  BY DEF LoginAnswered, server
<1>14. remember' \in User \cup {Nobody}
  BY <1>13, InvParts DEF BrowserInv, Call
<1> QED
  BY <1>1, <1>12, <1>13, <1>14, InvParts, Together, NoCallGood
     DEF ServerInv, Page, AccountPages

LEMMA RestoreAnsweredKeeps ==
    ASSUME IInv, RestoreAnswered
    PROVE  IInv'
<1> DEFINE n == call.with
           st == [Asks(Fresh) EXCEPT !.with = n]
<1>1. Current(n, sessions) /\ n \in Number /\ Own(n, sessions, n)
  BY InvParts DEF GoodCall, Current, Own
<1>2. Nothing \in Answer
  BY NothingTruthful DEF Truthful
<1>3. /\ Asks(Fresh).data = Nothing /\ Asks(Fresh).got = Nothing /\ Asks(Fresh) \in QueryState
  BY <1>2, InvParts DEF Asks, Fresh, QueryState, Current
<1>4. /\ st \in QueryState /\ st.data = Nothing /\ st.got = Nothing /\ st.with = n
  BY <1>1, <1>3 DEF QueryState
<1> HIDE DEF st
<1>5. GoodState(st, sessions, n)
  BY <1>1, <1>4, NothingTruthful DEF GoodState
<1>6. queries' = [q \in Query |-> IF Watched(q, Blank, page) THEN st ELSE Fresh]
  BY DEF RestoreAnswered, CacheReset, st
<1>7. \A q \in Query : /\ GoodState(queries'[q], sessions, n)
                       /\ queries'[q].data = Blank[q].data
                       /\ queries'[q].fetch # "idle" => Watched(q, Blank, page)
  BY <1>4, <1>5, <1>6, FreshGood DEF Fresh, Blank
<1>8. GoodCache(queries', sessions, n)
  <2>1. queries' \in [Query -> QueryState]
    BY <1>4, <1>6, FreshGood DEF GoodState
  <2> QED
    BY <1>7, <2>1 DEF GoodCache
<1>9. Waited(queries', page)
  BY <1>7, WatchedByData DEF Waited, Query
<1>10. /\ cookie' = n /\ remember' = Nobody /\ call' = NoCall
       /\ UNCHANGED <<sessions, digests, page, done>>
  BY DEF RestoreAnswered, server
<1> QED
  BY <1>1, <1>8, <1>9, <1>10, InvParts, Together, NoCallGood DEF ServerInv, BrowserInv

LEMMA LogoutAnsweredKeeps ==
    ASSUME IInv, LogoutAnswered
    PROVE  IInv'
<1>1. cookie' = 0 /\ remember' = Nobody /\ Settled /\ call' = NoCall /\ UNCHANGED digests
  BY DEF LogoutAnswered
<1>2. Current(cookie', sessions') /\ GoodCall(call', sessions')
  BY <1>1, NothingTruthful, NoCallGood
<1>3. CASE call.mine
  <2>1. sessions' \in Sessions
    <3>1. CASE call.with = 0
      BY <3>1, InvParts DEF LogoutAnswered, ServerInv
    <3>2. CASE call.with # 0
      <4>1. call.with \in 1..MaxSessions
        BY <3>2, InvParts, NumberIsSession DEF GoodCall, Current
      <4>2. sessions' = [sessions EXCEPT ![call.with].left = TRUE]
        BY <1>3, <3>2 DEF LogoutAnswered
      <4> QED
        BY <4>1, <4>2, InvParts DEF ServerInv, Sessions, Session
    <3> QED
      BY <3>1, <3>2
  <2>2. /\ queries' = Blank /\ page' = (IF page = "me" THEN "public" ELSE page)
        /\ done' = (page = "logout")
    BY <1>1, <1>3 DEF Settled, AnswersGone
  <2>3. page' \in Page /\ done' \in BOOLEAN
    BY <2>2, InvParts DEF BrowserInv, Page
  <2> QED
    BY <1>1, <1>2, <2>1, <2>2, <2>3, InvParts, BlankGood, Together DEF ServerInv
<1>4. CASE ~call.mine
  <2>1. UNCHANGED <<queries, page, done, sessions>>
    BY <1>1, <1>4 DEF Settled, view, LogoutAnswered
  <2>2. GoodCache(queries, sessions, 0)
    BY InvParts, Tolerates
  <2> QED
    BY <1>1, <1>2, <2>1, <2>2, InvParts, Together DEF ServerInv, BrowserInv
<1> QED
  BY <1>3, <1>4

LEMMA AnswersKeep ==
    ASSUME IInv, Answers
    PROVE  IInv'
<1>1. ASSUME RestoreFails PROVE IInv'
  <2>1. UNCHANGED <<server, cookie>> /\ GoodCall(call', sessions)
        /\ remember' \in {Nobody, remember} /\ GoneToSignIn
    BY <1>1, NoCallGood DEF RestoreFails
  <2>2. remember' \in User \cup {Nobody}
    BY <2>1, InvParts DEF BrowserInv
  <2>3. CASE call.mine
    <3>1. queries' = Mounts(queries, "public") /\ page' = "public" /\ done' = FALSE
      BY <2>1, <2>3 DEF GoneToSignIn
    <3>2. GoodCache(queries', sessions, cookie) /\ Waited(queries', page')
      BY <3>1, InvParts, MountsGood
    <3> QED
      BY <2>1, <2>2, <3>1, <3>2, BrowserStep DEF Page
  <2>4. CASE ~call.mine
    <3>1. UNCHANGED <<queries, page, done>>
      BY <2>1, <2>4 DEF GoneToSignIn, view
    <3> QED
      BY <2>1, <2>2, <3>1, InvParts, BrowserStep DEF BrowserInv
  <2> QED
    BY <2>3, <2>4
<1>2. ASSUME LogoutFails PROVE IInv'
  <2>1. UNCHANGED <<server, cookie, remember>> /\ GoodCall(call', sessions) /\ Settled
    BY <1>2, NoCallGood DEF LogoutFails, browser
  <2>2. CASE call.mine
    <3>1. /\ queries' = Blank /\ page' = (IF page = "me" THEN "public" ELSE page)
          /\ done' = (page = "logout")
      BY <2>1, <2>2 DEF Settled, AnswersGone
    <3>2. page' \in Page /\ done' \in BOOLEAN
      BY <3>1, InvParts DEF BrowserInv, Page
    <3> QED
      BY <2>1, <3>1, <3>2, InvParts, BlankGood, BrowserStep DEF BrowserInv
  <2>3. CASE ~call.mine
    <3>1. UNCHANGED <<queries, page, done>>
      BY <2>1, <2>3 DEF Settled, view
    <3> QED
      BY <2>1, <3>1, InvParts, BrowserStep DEF BrowserInv
  <2> QED
    BY <2>2, <2>3
<1>3. ASSUME ReauthAnswered PROVE IInv'
  <2>1. UNCHANGED <<server, cookie, remember, page, done>>
    BY <1>3 DEF ReauthAnswered, browser
  <2>2. GoodCall(call', sessions)
    <3>1. call' = [call EXCEPT !.stage = "settling", !.with = 0] /\ call \in Call
          /\ call.op = "reauth"
      BY <1>3, InvParts DEF ReauthAnswered, Answered, Settles
    <3>2. call' \in Call /\ call'.with = 0 /\ call'.op = "reauth"
      BY <3>1, Zero DEF Call
    <3> QED
      BY <3>2, NothingTruthful DEF GoodCall
  <2>3. CASE Watched("session", queries, page)
    <3> DEFINE st == Asks(queries["session"])
    <3>0. "session" \in Query /\ queries \in [Query -> QueryState]
      BY InvParts DEF Query, GoodCache
    <3>1. GoodState(st, sessions, cookie) /\ st.data = queries["session"].data
      BY <3>0, InvParts, AsksGood DEF GoodCache
    <3>2. queries' = [queries EXCEPT !["session"] = st]
      BY <1>3, <2>3 DEF ReauthAnswered
    <3> HIDE DEF st
    <3>3. GoodCache(queries', sessions, cookie)
      BY <3>0, <3>1, <3>2, InvParts, OneQuery
    <3>4. \A q \in Query : Watched(q, queries', page) <=> Watched(q, queries, page)
      BY <3>0, <3>1, <3>2, WatchedByData
    <3>5. \A q \in Query : queries'[q].fetch # "idle" =>
              q = "session" \/ queries[q].fetch # "idle"
      BY <3>0, <3>2
    <3>6. Waited(queries', page)
      BY <2>3, <3>4, <3>5, InvParts DEF Waited
    <3> QED
      BY <2>1, <2>2, <3>3, <3>6, InvParts, BrowserStep DEF BrowserInv
  <2>4. CASE ~Watched("session", queries, page)
    <3>1. queries' = queries
      BY <1>3, <2>4 DEF ReauthAnswered
    <3> QED
      BY <2>1, <2>2, <3>1, InvParts, BrowserStep DEF BrowserInv
  <2> QED
    BY <2>3, <2>4
<1>4. ASSUME OnToClient PROVE IInv'
  <2>1. /\ UNCHANGED <<server, cookie, remember>> /\ page' = "client" /\ done' = FALSE
        /\ queries' = (IF page = "client" THEN queries ELSE Mounts(queries, "client"))
        /\ GoodCall(call', sessions)
    BY <1>4, NoCallGood DEF OnToClient, browser
  <2>2. GoodCache(queries', sessions, cookie) /\ Waited(queries', "client")
    BY <2>1, InvParts, MountsGood
  <2> QED
    BY <2>1, <2>2, InvParts, BrowserStep DEF BrowserInv, Page, AccountPages
<1>5. ASSUME EnterAnswered PROVE IInv'
  <2>1. /\ UNCHANGED <<server, cookie, remember>> /\ done' = FALSE /\ GoodCall(call', sessions)
    BY <1>5, NoCallGood DEF EnterAnswered, browser
  <2>2. CASE page' = "away" /\ queries' = Blank
    BY <2>1, <2>2, InvParts, BlankGood, BrowserStep DEF BrowserInv, Page
  <2>3. CASE page' = "client"
             /\ queries' = (IF page = "client" THEN queries ELSE Mounts(queries, "client"))
    <3>1. GoodCache(queries', sessions, cookie) /\ Waited(queries', "client")
      BY <2>3, InvParts, MountsGood
    <3> QED
      BY <2>1, <2>3, <3>1, InvParts, BrowserStep DEF BrowserInv, Page, AccountPages
  <2> QED
    BY <1>5, <2>2, <2>3 DEF EnterAnswered
<1>6. ASSUME Reported PROVE IInv'
  <2>1. UNCHANGED <<server, cookie, remember, queries, page, done>> /\ GoodCall(call', sessions)
    BY <1>6, NoCallGood DEF Reported, browser, view
  <2> QED
    BY <2>1, InvParts, BrowserStep DEF BrowserInv
<1> QED
  BY <1>1, <1>2, <1>3, <1>4, <1>5, <1>6, LoginAnsweredKeeps, RestoreAnsweredKeeps,
     LogoutAnsweredKeeps DEF Answers

LEMMA StutterKeeps ==
    ASSUME IInv, UNCHANGED vars
    PROVE  IInv'
<1>1. UNCHANGED <<server, cookie, remember, queries, page, done, call>>
  BY DEF vars, browser, view
<1> QED
  BY <1>1, InvParts, BrowserStep DEF BrowserInv

LEMMA Inductive == IInv /\ [Next]_vars => IInv'
BY ServeKeeps, ArrivesKeeps, FailsKeeps, SessionExpiresKeeps, GoKeeps, LoadKeeps, RedirectKeeps,
   SubmitKeeps, CallsKeep, AnswersKeep, StutterKeeps DEF Next, Visits

LEMMA InvariantHolds == Spec => []IInv
BY InitHolds, Inductive, PTL DEF Spec

-----------------------------------------------------------------------------
(* The theorems.                                                            *)

\* Every variable keeps its type, and no fetch outlives the page that waits for it.
THEOREM TypeCorrect == Spec => []TypeOK
<1>1. IInv => TypeOK
  BY DEF IInv, ServerInv, Sessions, BrowserInv, Current, CacheInv, GoodCache, Waited, CallInv,
     GoodCall, TypeOK
<1> QED
  BY <1>1, InvariantHolds, PTL

\* No account page shows an answer given to the session of the cookie while that
\* session waits for the password (AccountPage), however old the answer is.
THEOREM ContentAfterStepUp == Spec => []StepUpFirst
<1>1. IInv => StepUpFirst
  <2> SUFFICES ASSUME IInv, Screen = "content", queries["me"].data.at = cookie, Alive(cookie)
               PROVE  ~sessions[cookie].flagged
    BY DEF StepUpFirst
  <2>1. ~queries["me"].data.flagged
    <3>1. page \in AccountPages
      <4>1. page # "content"
        BY InvParts DEF BrowserInv, Page, AccountPages
      <4> QED
        BY <4>1 DEF Screen, ScreenOf
    <3>2. AccountScreen(queries["me"]) = "content"
      BY <3>1 DEF Screen, ScreenOf
    <3> QED
      BY <3>2 DEF AccountScreen
  <2>2. Truthful(queries["me"].data, sessions, cookie) /\ cookie # 0
    BY InvParts DEF GoodCache, GoodState, Query, Alive
  <2> QED
    BY <2>1, <2>2 DEF Truthful
<1> QED
  BY <1>1, InvariantHolds, PTL

\* Nothing answered before a restore is shown under the restored session
\* (useRememberLogin), though its answers, the old ones and other calls race.
THEOREM RestoredSessionsStartFresh == Spec => []RestoredStartsFresh
<1>1. IInv => RestoredStartsFresh
  BY InvParts DEF GoodCache, GoodState, Truthful, Own, RestoredStartsFresh
<1> QED
  BY <1>1, InvariantHolds, PTL

\* Once a page that is still there has heard that a session is over, no answer given
\* to it is in the cache again (MePage and LogoutPage), also when the server never
\* ended it.  Of a sign-out whose page was left before the answer it says nothing.
THEOREM SignOutsAreFinal == Spec => []SignOutIsFinal
<1>1. IInv => SignOutIsFinal
  BY InvParts DEF GoodCache, GoodState, Truthful, Current, SignOutIsFinal
<1> QED
  BY <1>1, InvariantHolds, PTL

-----------------------------------------------------------------------------
(* Nothing waits for nothing: a page that has no answer has asked for one.     *)

\* Where the cache is read, it has an answer or an error, or a fetch is under way.
AskedFor(qs, p) ==
    \A q \in Query : Watched(q, qs, p) /\ Loading(qs[q]) => qs[q].fetch # "idle"

\* A fetch that was answered brings something, and a sign-out ends on a page of its own.
AskedInv ==
    /\ AskedFor(queries, page)
    /\ \A q \in Query : queries[q].fetch = "answered" => queries[q].got # Nothing
    /\ call.op = "logout" /\ call.mine => page \in {"me", "logout"}

LEMMA AskedAtMount ==
    ASSUME NEW ss, NEW ck, NEW qs, GoodCache(qs, ss, ck), NEW p,
           Current(cookie, ss), Own(cookie, ss, ck)
    PROVE  AskedFor(Mounts(qs, p), p) /\ \A q \in Query : Mounts(qs, p)[q].fetch # "answered"
<1> DEFINE bare == [q \in Query |-> Aborted(qs[q])]
           rs == [q \in Query |-> IF Watched(q, bare, p) THEN Asks(bare[q]) ELSE bare[q]]
<1>1. Mounts(qs, p) = rs
  BY DEF Mounts
<1>2. \A q \in Query : /\ GoodState(bare[q], ss, ck) /\ bare[q].fetch = "idle"
  BY AbortedGood DEF GoodCache
<1> HIDE DEF bare
<1>3. \A q \in Query : /\ Asks(bare[q]).fetch = "asked" /\ Asks(bare[q]).data = bare[q].data
  BY <1>2 DEF Asks, GoodState, QueryState
<1>4. \A q \in Query : rs[q].data = bare[q].data
  BY <1>3
<1>5. \A q \in Query : Watched(q, bare, p) => rs[q].fetch = "asked"
  BY <1>3
<1>6. \A q \in Query : rs[q].fetch # "answered"
  BY <1>2, <1>3
<1> HIDE DEF rs
<1>7. \A q \in Query : Watched(q, rs, p) <=> Watched(q, bare, p)
  BY <1>4, WatchedByData DEF Query
<1> QED
  BY <1>1, <1>5, <1>6, <1>7 DEF AskedFor

\* A render after one query has changed, if that one has its answer or its error.
LEMMA AskedAtRender ==
    ASSUME IInv, AskedInv, NEW q \in Query, NEW st \in QueryState, ~Loading(st),
           st.fetch # "answered", queries' = Renders([queries EXCEPT ![q] = st]),
           UNCHANGED <<page, call>>
    PROVE  AskedInv'
<1> DEFINE qs == [queries EXCEPT ![q] = st]
           rs == [r \in Query |->
                    IF ~Watched(r, qs, page) THEN Aborted(qs[r])
                    ELSE IF Watched(r, queries, page) THEN qs[r] ELSE Asks(qs[r])]
<1>0. queries \in [Query -> QueryState]
  BY InvParts DEF GoodCache
<1>1. queries' = rs
  BY DEF Renders
<1>2. \A r \in Query : /\ qs[r] \in QueryState
                       /\ qs[r] = queries[r] \/ (~Loading(qs[r]) /\ qs[r].fetch # "answered")
  BY <1>0
<1> HIDE DEF qs
<1>3. \A r \in Query :
         /\ Asks(qs[r]).fetch = "asked" /\ Asks(qs[r]).data = qs[r].data
         /\ Aborted(qs[r]).fetch = "idle" /\ Aborted(qs[r]).data = qs[r].data
  BY <1>2 DEF Asks, Aborted, QueryState
<1>4. \A r \in Query : rs[r].data = qs[r].data
  BY <1>3
<1>5. \A r \in Query : Watched(r, qs, page) /\ Loading(rs[r]) => rs[r].fetch # "idle"
  BY <1>2, <1>3 DEF AskedInv, AskedFor
<1>6. \A r \in Query : rs[r].fetch = "answered" => rs[r].got # Nothing
  BY <1>2, <1>3 DEF AskedInv
<1> HIDE DEF rs
<1>7. \A r \in Query : Watched(r, rs, page) <=> Watched(r, qs, page)
  BY <1>4, WatchedByData DEF Query
<1> QED
  BY <1>1, <1>5, <1>6, <1>7 DEF AskedInv, AskedFor

LEMMA QueriesAsked ==
    ASSUME IInv, AskedInv, NEW q \in Query, Serve(q) \/ Arrives(q) \/ Fails(q)
    PROVE  AskedInv'
<1>0. queries \in [Query -> QueryState] /\ Nothing \in Answer
  BY InvParts, NothingTruthful DEF GoodCache, Truthful
<1>1. CASE Serve(q)
  <2> DEFINE s == queries[q].with
             got == IF Alive(s) THEN [at |-> s, flagged |-> sessions[s].flagged] ELSE Nothing
             how == IF Alive(s) THEN "answered" ELSE "refused"
             st == [queries[q] EXCEPT !.fetch = how, !.with = 0, !.got = got]
  <2>1. queries' = [queries EXCEPT ![q] = st]
    BY <1>0, <1>1 DEF Serve, QueryState
  <2>2. st.data = queries[q].data /\ st.error = queries[q].error /\ st.fetch = how
        /\ st.got = got
    BY <1>0 DEF QueryState
  <2>3. how = "answered" => got # Nothing
    BY DEF Alive, Nothing
  <2>4. how \in {"answered", "refused"}
    OBVIOUS
  <2> HIDE DEF st, how, got
  <2>5. \A r \in Query : /\ queries'[r].data = queries[r].data
                         /\ Loading(queries'[r]) <=> Loading(queries[r])
                         /\ queries[r].fetch # "idle" => queries'[r].fetch # "idle"
                         /\ queries'[r].fetch = "answered" => queries'[r].got # Nothing
    BY <1>0, <2>1, <2>2, <2>3, <2>4 DEF Loading, AskedInv
  <2>6. \A r \in Query : Watched(r, queries', page) <=> Watched(r, queries, page)
    BY <2>5, WatchedByData DEF Query
  <2> QED
    BY <1>1, <2>5, <2>6 DEF Serve, AskedInv, AskedFor
<1>2. CASE Arrives(q)
  <2> DEFINE st == [Fresh EXCEPT !.data = queries[q].got]
  <2>1. st \in QueryState /\ ~Loading(st) /\ st.fetch # "answered"
    BY <1>0, <1>2, Zero DEF Arrives, AskedInv, Fresh, Loading, QueryState
  <2> HIDE DEF st
  <2> QED
    BY <1>2, <2>1, AskedAtRender DEF Arrives, st
<1>3. CASE Fails(q)
  <2> DEFINE wrong == IF queries[q].fetch = "refused" THEN "401" ELSE "other"
             st == [Fresh EXCEPT !.data = queries[q].data, !.error = wrong]
  <2>1. st \in QueryState /\ ~Loading(st) /\ st.fetch # "answered"
    BY <1>0, Zero DEF Fresh, Loading, QueryState
  <2>2. queries' = Renders([queries EXCEPT ![q] = st])
    BY <1>3 DEF Fails
  <2> HIDE DEF st
  <2> QED
    BY <1>3, <2>1, <2>2, AskedAtRender DEF Fails
<1> QED
  BY <1>1, <1>2, <1>3

\* A step after which the page is mounted anew, or nothing is cached or read.
LEMMA MountedAsked ==
    ASSUME IInv, NEW qs, GoodCache(qs, sessions, cookie),
           \/ queries' = Mounts(qs, page')
           \/ queries' = Blank /\ page' \notin AccountPages \cup {"reauth"},
           call'.op = "logout" /\ call'.mine => page' \in {"me", "logout"}
    PROVE  AskedInv'
<1>1. CASE queries' = Mounts(qs, page')
  BY <1>1, InvParts, AskedAtMount DEF AskedInv
<1>2. CASE queries' = Blank /\ page' \notin AccountPages \cup {"reauth"}
  BY <1>2 DEF AskedInv, AskedFor, Watched, AccountPages, Blank, Fresh
<1> QED
  BY <1>1, <1>2

LEMMA MovesAsked ==
    ASSUME IInv, AskedInv,
           (\E p \in Visited : Go(p) \/ Load(p)) \/ RedirectToStepUp
    PROVE  AskedInv'
<1>0. NoCall.op # "logout" /\ GoodCache(Blank, sessions, cookie)
  BY BlankGood DEF NoCall
<1>1. ASSUME NEW p \in Visited, Go(p) PROVE AskedInv'
  <2> DEFINE left == IF call = NoCall THEN NoCall ELSE [call EXCEPT !.mine = FALSE]
  <2>1. left.op = "logout" => ~left.mine
    BY <1>0, InvParts DEF Call
  <2>2. page' = p /\ queries' = Mounts(queries, p) /\ Arriving(p, left)
    BY <1>1 DEF Go
  <2> HIDE DEF left
  <2>3. call'.op = "logout" /\ call'.mine => p = "logout"
    BY <2>1, <2>2 DEF Arriving
  <2> QED
    BY <2>2, <2>3, InvParts, MountedAsked
<1>2. ASSUME NEW p \in Visited, Load(p) PROVE AskedInv'
  <2>1. page' = p /\ queries' = Mounts(Blank, p) /\ Arriving(p, NoCall)
    BY <1>2 DEF Load
  <2>2. call'.op = "logout" => p = "logout"
    BY <1>0, <2>1 DEF Arriving
  <2> QED
    BY <1>0, <2>1, <2>2, MountedAsked
<1>3. CASE RedirectToStepUp
  <2>1. page = "client"
    BY <1>3, InvParts
    DEF RedirectToStepUp, Screen, ScreenOf, AccountScreen, Redirects, BrowserInv, Page,
        AccountPages
  <2>2. ~(call.op = "logout" /\ call.mine)
    BY <2>1 DEF AskedInv
  <2> QED
    BY <1>3, <2>2, InvParts, MountedAsked DEF RedirectToStepUp
<1> QED
  BY <1>1, <1>2, <1>3

\* Calls that set out, and what the server does: the cache and the page stay.
LEMMA CallsAsked ==
    ASSUME IInv, AskedInv,
           \/ \E u \in User : SubmitSignIn(u)
           \/ StartRestore \/ SubmitPassword \/ LogOut \/ Enter \/ Calls
           \/ \E s \in 1..MaxSessions : SessionExpires(s)
           \/ UNCHANGED vars
    PROVE  AskedInv'
<1>1. UNCHANGED <<queries, page>>
  BY DEF SubmitSignIn, StartRestore, SubmitPassword, LogOut, Enter, Calls, Login, RememberLogin,
         RememberLoginRefused, Logout, Reauth, ClientEntry, Refuse, SessionExpires, vars, view
<1>2. call'.op = "logout" /\ call'.mine => page \in {"me", "logout"}
  <2>1. CASE LogOut
    BY <2>1 DEF LogOut
  <2>2. CASE \/ \E u \in User : SubmitSignIn(u)
             \/ StartRestore \/ SubmitPassword \/ Enter
    BY <2>2 DEF SubmitSignIn, StartRestore, SubmitPassword, Enter, Sends
  <2>3. CASE Calls
    <3>1. call'.op = call.op /\ call'.mine = call.mine
      BY <2>3, InvParts
      DEF Calls, Login, RememberLogin, RememberLoginRefused, Logout, Reauth, ClientEntry, Refuse,
          Makes, Replies, Rejects, Call
    <3> QED
      BY <3>1 DEF AskedInv
  <2>4. CASE (\E s \in 1..MaxSessions : SessionExpires(s)) \/ UNCHANGED vars
    BY <2>4 DEF SessionExpires, vars, AskedInv
  <2> QED
    BY <2>1, <2>2, <2>3, <2>4
<1> QED
  BY <1>1, <1>2 DEF AskedInv, AskedFor

LEMMA AnswersAsked ==
    ASSUME IInv, AskedInv, Answers
    PROVE  AskedInv'
<1>0. /\ NoCall.op # "logout" /\ queries \in [Query -> QueryState]
      /\ "me" \in Query /\ "session" \in Query
  BY InvParts DEF NoCall, GoodCache, Query
<1>1. ASSUME UNCHANGED <<queries, page>>, call'.op # "logout"
      PROVE  AskedInv'
  BY <1>1 DEF AskedInv, AskedFor
<1>2. CASE LoginAnswered
  <2> DEFINE answer == [at |-> call.with, flagged |-> FALSE]
             me == [queries["me"] EXCEPT !.data = answer, !.error = "none"]
             seeded == [queries EXCEPT !["me"].data = answer, !["me"].error = "none"]
             asked == [q \in Query |-> Aborted(seeded[q])]
             there == [asked EXCEPT !["me"] = [@ EXCEPT !.fetch = "asked", !.with = call.with]]
  <2>0. call.with # 0 /\ answer \in Answer /\ answer # Nothing
    BY <1>2, InvParts DEF LoginAnswered, Answered, Settles, GoodCall, Current, Answer, Nothing
  <2>1. seeded = [queries EXCEPT !["me"] = me] /\ me \in QueryState /\ me.data = answer
        /\ me.fetch = queries["me"].fetch /\ me.got = queries["me"].got
    BY <1>0, <2>0 DEF QueryState
  <2>2. CASE page = "me"
    <3>1. queries' = Renders(seeded) /\ page' = page /\ call' = NoCall
      BY <1>2, <2>2 DEF LoginAnswered
    <3> HIDE DEF answer, me, seeded
    <3>2. /\ queries'["me"] \in {me, Asks(me), Aborted(me)}
          /\ queries'["session"] \in {queries["session"], Asks(queries["session"]),
                                      Aborted(queries["session"])}
      BY <1>0, <2>1, <3>1 DEF Renders, Query
    <3>3. ASSUME NEW st \in QueryState
          PROVE  /\ Asks(st).data = st.data /\ Asks(st).fetch # "answered"
                 /\ Aborted(st).data = st.data /\ Aborted(st).fetch # "answered"
      BY DEF Asks, Aborted, QueryState
    <3>4. ~Loading(queries'["me"])
      BY <2>0, <2>1, <3>2, <3>3 DEF Loading
    <3>5. \A q \in Query : queries'[q].fetch = "answered" => queries'[q].got # Nothing
      BY <1>0, <2>1, <3>2, <3>3 DEF AskedInv, Query
    <3>6. \A q \in Query : Watched(q, queries', page) => q = "me"
      BY <2>2 DEF Watched
    <3> QED
      BY <1>0, <3>1, <3>4, <3>5, <3>6 DEF AskedInv, AskedFor
  <2>3. CASE page # "me"
    <3>1. queries' = there /\ page' = "me" /\ call' = NoCall
      BY <1>2, <2>3 DEF LoginAnswered
    <3>2. /\ queries'["me"].fetch = "asked"
          /\ queries'["session"].fetch = "idle"
      BY <1>0, <2>1, <3>1 DEF Aborted, QueryState
    <3> QED
      BY <1>0, <3>1, <3>2 DEF AskedInv, AskedFor, Watched, Query
  <2> QED
    BY <2>2, <2>3
<1>3. CASE RestoreAnswered
  <2>1. /\ queries' = CacheReset(call.with) /\ page' = page /\ call' = NoCall
    BY <1>3 DEF RestoreAnswered
  <2>2. /\ Asks(Fresh).data = Nothing /\ Asks(Fresh).fetch = "asked"
        /\ [Asks(Fresh) EXCEPT !.with = call.with].data = Nothing
        /\ [Asks(Fresh) EXCEPT !.with = call.with].fetch = "asked"
    BY DEF Asks, Fresh
  <2>3. \A q \in Query : /\ queries'[q].data = Blank[q].data
                         /\ Watched(q, Blank, page) => queries'[q].fetch = "asked"
                         /\ queries'[q].fetch # "answered"
    BY <2>1, <2>2 DEF CacheReset, Blank, Fresh
  <2>4. \A q \in Query : Watched(q, queries', page) <=> Watched(q, Blank, page)
    BY <1>0, <2>3, WatchedByData
  <2> QED
    BY <1>0, <2>1, <2>3, <2>4 DEF AskedInv, AskedFor
<1>4. CASE RestoreFails
  <2>1. call' = NoCall
    BY <1>4 DEF RestoreFails
  <2>2. CASE call.mine
    BY <1>0, <1>4, <2>1, <2>2, InvParts, MountedAsked DEF RestoreFails, GoneToSignIn
  <2>3. CASE ~call.mine
    BY <1>0, <1>1, <1>4, <2>1, <2>3 DEF RestoreFails, GoneToSignIn, view
  <2> QED
    BY <2>2, <2>3
<1>5. CASE LogoutAnswered \/ LogoutFails
  <2>1. call' = NoCall /\ Settled /\ call.op = "logout"
    BY <1>5 DEF LogoutAnswered, LogoutFails, Answered, Settles
  <2>2. CASE call.mine
    <3>1. page \in {"me", "logout"}
      BY <2>1, <2>2 DEF AskedInv
    <3>2. queries' = Blank /\ page' \in {"public", "logout"}
      BY <2>1, <2>2, <3>1 DEF Settled, AnswersGone
    <3>3. page' \notin AccountPages \cup {"reauth"}
      BY <3>2 DEF AccountPages
    <3> QED
      BY <1>0, <2>1, <3>2, <3>3, InvParts, MountedAsked
  <2>3. CASE ~call.mine
    BY <1>0, <1>1, <2>1, <2>3 DEF Settled, view
  <2> QED
    BY <2>2, <2>3
<1>6. CASE ReauthAnswered
  <2>1. page' = page /\ call'.op = "reauth"
    BY <1>6, InvParts DEF ReauthAnswered, Answered, Settles, Call
  <2>2. CASE Watched("session", queries, page)
    <3> DEFINE st == Asks(queries["session"])
    <3>1. queries' = [queries EXCEPT !["session"] = st]
      BY <1>6, <2>2 DEF ReauthAnswered
    <3>2. st.data = queries["session"].data /\ st.fetch = "asked"
      BY <1>0 DEF Asks, QueryState
    <3> HIDE DEF st
    <3>3. \A q \in Query : /\ queries'[q].data = queries[q].data
                           /\ queries'[q] = queries[q] \/ queries'[q].fetch = "asked"
      BY <1>0, <3>1, <3>2
    <3>4. \A q \in Query : Watched(q, queries', page) <=> Watched(q, queries, page)
      BY <1>0, <3>3, WatchedByData
    <3> QED
      BY <2>1, <3>3, <3>4 DEF AskedInv, AskedFor
  <2>3. CASE ~Watched("session", queries, page)
    BY <1>1, <1>6, <2>1, <2>3 DEF ReauthAnswered
  <2> QED
    BY <2>2, <2>3
<1>7. CASE OnToClient \/ EnterAnswered
  <2>1. call' = NoCall
    BY <1>7 DEF OnToClient, EnterAnswered
  <2>2. CASE page' = "away" /\ queries' = Blank
    BY <1>0, <2>1, <2>2, InvParts, MountedAsked DEF AccountPages
  <2>3. CASE page' = "client" /\ page = "client" /\ queries' = queries
    BY <1>0, <1>1, <2>1, <2>3
  <2>4. CASE page' = "client" /\ queries' = Mounts(queries, "client")
    BY <1>0, <2>1, <2>4, InvParts, MountedAsked
  <2> QED
    BY <1>7, <2>2, <2>3, <2>4 DEF OnToClient, EnterAnswered
<1>8. CASE Reported
  BY <1>0, <1>1, <1>8 DEF Reported, view
<1> QED
  BY <1>2, <1>3, <1>4, <1>5, <1>6, <1>7, <1>8 DEF Answers

\* No account page stays at "Loading your account" with nothing under way: whatever was
\* reset, aborted or left behind, the answer it waits for has been asked for.
THEOREM LoadingHasAsked == Spec => [](Screen = "loading" => queries["me"].fetch # "idle")
<1>1. Init => AskedInv
  BY DEF Init, AskedInv, AskedFor, Watched, AccountPages, Fresh, NoCall
<1>2. IInv /\ AskedInv /\ [Next]_vars => AskedInv'
  BY QueriesAsked, MovesAsked, CallsAsked, AnswersAsked DEF Next, Visits
<1>3. IInv /\ AskedInv => (Screen = "loading" => queries["me"].fetch # "idle")
  <2> SUFFICES ASSUME IInv, AskedInv, Screen = "loading"
               PROVE  queries["me"].fetch # "idle"
    OBVIOUS
  <2>1. page \in AccountPages /\ ~Redirects(queries, page)
    BY InvParts DEF Screen, ScreenOf, BrowserInv, Page, AccountPages
  <2>2. Loading(queries["me"])
    BY <2>1 DEF Screen, ScreenOf, AccountScreen
  <2> QED
    BY <2>1, <2>2 DEF AskedInv, AskedFor, Watched, Query
<1> QED
  BY <1>1, <1>2, <1>3, InvariantHolds, PTL DEF Spec
=============================================================================
