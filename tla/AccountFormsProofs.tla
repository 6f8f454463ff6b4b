-------------------------- MODULE AccountFormsProofs --------------------------
(***************************************************************************)
(* Proofs about AccountForms for every number of links, tabs and submissions.  *)
(* The reset pages and the profile page have an invariant each: who took a     *)
(* link's key, and how far the handler of a form has come.                     *)
(***************************************************************************)
EXTENDS AccountForms, TLAPS

-----------------------------------------------------------------------------
(* The reset pages.                                                         *)

Spent(j) == jobs[j].stage \in {"taken", "written"}

ResetTypes ==
    /\ password \in 0..ByForm /\ verified \in BOOLEAN
    /\ links \in [Link -> {"unused", "live", "gone"}]
    /\ forgot \in {"idle", "found"}
    /\ tabs \in [Tab -> TabState] /\ jobs \in [Job -> JobState]

\* A submission has a tab and a link; once its link was taken or refused, that is gone.
SubmissionInv(j) ==
    /\ jobs[j].stage # "none" => jobs[j].tab \in Tab /\ jobs[j].link \in Link
    /\ Spent(j) \/ jobs[j].stage = "refused" => links[jobs[j].link] = "gone"
    /\ jobs[j].waiting => /\ jobs[j].stage # "none"
                          /\ tabs[jobs[j].tab].job = j
                          /\ tabs[jobs[j].tab].link = jobs[j].link

\* One submission at most has taken the key of a link.
OneTaker ==
    \A i, j \in Job : Spent(i) /\ Spent(j) /\ jobs[i].link = jobs[j].link => i = j

TabInv(t) ==
    /\ tabs[t].done => /\ tabs[t].job # 0
                       /\ jobs[tabs[t].job].stage = "written"
                       /\ jobs[tabs[t].job].link = tabs[t].link
    /\ tabs[t].expired => tabs[t].link \in Link /\ links[tabs[t].link] = "gone"

ResetInv ==
    /\ ResetTypes
    /\ \A j \in Job : SubmissionInv(j)
    /\ OneTaker
    /\ \A t \in Tab : TabInv(t)

LEMMA ResetInit == Init => ResetInv
BY FormsAssumption
   DEF Init, ResetInv, ResetTypes, SubmissionInv, OneTaker, TabInv, Spent, OpenAt, NoJob,
       TabState, JobState, ByForm

LEMMA ForgotStep ==
    ASSUME ResetInv, ForgotPassword
    PROVE  ResetInv'
BY DEF ForgotPassword, ResetInv, ResetTypes, SubmissionInv, OneTaker, TabInv, Spent

\* The links: one that is gone stays gone, and no other step changes one.
LEMMA LinkStep ==
    ASSUME ResetInv,
           \/ IssuePasswordResetToken
           \/ \E l \in Link : LinkExpires(l)
    PROVE  ResetInv'
<1>1. /\ links' \in [Link -> {"unused", "live", "gone"}]
      /\ \A l \in Link : links[l] = "gone" => links'[l] = "gone"
      /\ UNCHANGED <<password, verified, tabs, jobs>>
      /\ forgot' \in {"idle", "found"}
  BY DEF IssuePasswordResetToken, LinkExpires, ResetInv, ResetTypes
<1>2. ResetTypes' /\ OneTaker' /\ \A j \in Job : Spent(j)' <=> Spent(j)
  BY <1>1 DEF ResetInv, ResetTypes, OneTaker, Spent
<1>3. ASSUME NEW j \in Job PROVE SubmissionInv(j)'
  BY <1>1, <1>2 DEF ResetInv, SubmissionInv, Spent
<1>4. ASSUME NEW t \in Tab PROVE TabInv(t)'
  BY <1>1 DEF ResetInv, TabInv
<1> QED
  BY <1>2, <1>3, <1>4 DEF ResetInv

LEMMA OpenLinkStep ==
    ASSUME ResetInv, NEW l \in Link, NEW t \in Tab, OpenLink(t, l)
    PROVE  ResetInv'
<1> USE DEF ResetInv, ResetTypes
<1>1. /\ tabs' = [tabs EXCEPT ![t] = OpenAt(l)]
      /\ \A j \in Job : /\ jobs'[j].stage = jobs[j].stage
                        /\ jobs'[j].tab = jobs[j].tab
                        /\ jobs'[j].link = jobs[j].link
                        /\ jobs'[j].waiting => jobs[j].waiting /\ jobs[j].tab # t
      /\ jobs' \in [Job -> JobState]
      /\ UNCHANGED <<password, verified, links, forgot>>
  BY DEF OpenLink, JobState
<1>2. tabs' \in [Tab -> TabState]
  BY <1>1, FormsAssumption DEF OpenAt, TabState
<1>3. \A j \in Job : Spent(j)' <=> Spent(j)
  BY <1>1 DEF Spent
<1>4. ASSUME NEW j \in Job PROVE SubmissionInv(j)'
  BY <1>1, <1>3 DEF SubmissionInv
<1>5. OneTaker'
  BY <1>1, <1>3 DEF OneTaker
<1>6. ASSUME NEW s \in Tab PROVE TabInv(s)'
  <2>1. CASE s = t
    BY <1>1, <2>1 DEF TabInv, OpenAt
  <2>2. CASE s # t
    <3>1. tabs'[s] = tabs[s] /\ TabInv(s) /\ tabs[s] \in TabState
      BY <1>1, <2>2
    <3>2. tabs[s].done => tabs[s].job \in Job
      BY <3>1, FormsAssumption DEF TabInv, TabState, Job
    <3> QED
      BY <1>1, <3>1, <3>2 DEF TabInv
  <2> QED
    BY <2>1, <2>2
<1> QED
  BY <1>1, <1>2, <1>4, <1>5, <1>6

LEMMA SubmitResetStep ==
    ASSUME ResetInv, NEW t \in Tab, NEW j \in Job, SubmitReset(t, j)
    PROVE  ResetInv'
<1> USE DEF ResetInv, ResetTypes
<1>1. /\ ~tabs[t].done /\ ~Pending(t) /\ jobs[j].stage = "none"
      /\ tabs[t].link \in Link
      /\ jobs' = [jobs EXCEPT ![j] = [tab |-> t, link |-> tabs[t].link, waiting |-> TRUE,
                                      stage |-> "sent"]]
      /\ tabs' = [tabs EXCEPT ![t].job = j]
      /\ UNCHANGED <<password, verified, links, forgot>>
  BY DEF SubmitReset, TabState
<1>2. jobs' \in [Job -> JobState] /\ tabs' \in [Tab -> TabState]
  <2>1. jobs' \in [Job -> JobState]
    BY <1>1 DEF JobState
  <2>2. j \in 0..MaxJobs
    BY FormsAssumption DEF Job
  <2>3. tabs' \in [Tab -> TabState]
    BY <1>1, <2>2 DEF TabState
  <2> QED
    BY <2>1, <2>3
<1>3. /\ jobs'[j] = [tab |-> t, link |-> tabs[t].link, waiting |-> TRUE, stage |-> "sent"]
      /\ \A i \in Job : i # j => jobs'[i] = jobs[i]
      /\ \A s \in Tab : /\ tabs'[s].link = tabs[s].link
                        /\ tabs'[s].done = tabs[s].done /\ tabs'[s].expired = tabs[s].expired
                        /\ tabs'[s].job = IF s = t THEN j ELSE tabs[s].job
  BY <1>1 DEF TabState
<1>4. ASSUME NEW i \in Job PROVE SubmissionInv(i)'
  <2>1. CASE i = j
    BY <1>1, <1>3, <2>1 DEF SubmissionInv, Spent
  <2>2. CASE i # j
    <3>1. jobs[i].waiting => jobs[i].tab # t
      BY <1>1 DEF Pending
    <3> QED
      BY <1>1, <1>3, <2>2, <3>1 DEF SubmissionInv, Spent
  <2> QED
    BY <2>1, <2>2
<1>5. OneTaker'
  BY <1>3 DEF OneTaker, Spent
<1>6. ASSUME NEW s \in Tab PROVE TabInv(s)'
  <2>1. TabInv(s) /\ tabs[s] \in TabState
    OBVIOUS
  <2>2. tabs[s].done => s # t /\ tabs[s].job \in Job /\ tabs[s].job # j
    BY <1>1, <2>1, FormsAssumption DEF TabInv, TabState, Job
  <2> QED
    BY <1>1, <1>3, <2>1, <2>2 DEF TabInv
<1> QED
  BY <1>1, <1>2, <1>4, <1>5, <1>6

\* The server's steps: a key is taken once, because it is gone for whoever comes next.
LEMMA ServerStep ==
    ASSUME ResetInv, NEW j \in Job,
           \/ ConsumePasswordResetToken(j) \/ TokenInvalid(j) \/ WriteReset(j) \/ ResetFails(j)
    PROVE  ResetInv'
<1> USE DEF ResetInv, ResetTypes
<1>1. PICK stage \in {"taken", "refused", "written", "failed"} :
         jobs' = [jobs EXCEPT ![j].stage = stage]
  BY DEF ConsumePasswordResetToken, TokenInvalid, WriteReset, ResetFails, Reaches
<1>2. jobs[j].stage \in {"sent", "taken"}
  BY DEF ConsumePasswordResetToken, TokenInvalid, WriteReset, ResetFails
<1>3. /\ jobs[j].tab \in Tab /\ jobs[j].link \in Link
      /\ jobs'[j] = [jobs[j] EXCEPT !.stage = stage]
      /\ \A i \in Job : i # j => jobs'[i] = jobs[i]
  BY <1>1, <1>2 DEF SubmissionInv
<1>4. /\ links' \in [Link -> {"unused", "live", "gone"}]
      /\ \A l \in Link : links[l] = "gone" => links'[l] = "gone"
      /\ UNCHANGED <<verified, forgot, tabs>>
      /\ password' \in 0..ByForm
  BY FormsAssumption
     DEF ConsumePasswordResetToken, TokenInvalid, WriteReset, ResetFails, TakeToken, Job, ByForm
<1>5. jobs' \in [Job -> JobState]
  BY <1>1 DEF JobState
<1>6. /\ jobs'[j].stage = stage
      /\ jobs'[j].tab = jobs[j].tab /\ jobs'[j].link = jobs[j].link
      /\ jobs'[j].waiting = jobs[j].waiting
  BY <1>3 DEF JobState
<1>7. stage \in {"taken", "refused", "written"} => links'[jobs[j].link] = "gone"
  <2>1. CASE ConsumePasswordResetToken(j)
    BY <2>1, <1>3 DEF ConsumePasswordResetToken, TakeToken
  <2>2. CASE TokenInvalid(j)
    BY <2>2, <1>3 DEF TokenInvalid
  <2>3. CASE WriteReset(j)
    BY <2>3, <1>3, <1>4 DEF WriteReset, SubmissionInv, Spent
  <2>4. CASE ResetFails(j)
    BY <2>4, <1>1, <1>5, <1>6 DEF ResetFails, Reaches
  <2> QED
    BY <2>1, <2>2, <2>3, <2>4
<1>8. ASSUME NEW i \in Job PROVE SubmissionInv(i)'
  <2>1. CASE i = j
    <3>1. SubmissionInv(j)
      OBVIOUS
    <3>2. links'[jobs[j].link] = "gone" \/ jobs'[j].stage = "failed"
      BY <1>6, <1>7
    <3> QED
      BY <1>2, <1>3, <1>4, <1>6, <2>1, <3>1, <3>2 DEF SubmissionInv, Spent
  <2>2. CASE i # j
    BY <1>3, <1>4, <2>2 DEF SubmissionInv, Spent
  <2> QED
    BY <2>1, <2>2
<1>9. OneTaker'
  <2>1. CASE Spent(j) \/ ~Spent(j)'
    <3>1. \A i \in Job : Spent(i)' => Spent(i)
      BY <1>3, <2>1 DEF Spent
    <3>2. \A i \in Job : jobs'[i].link = jobs[i].link
      BY <1>3, <1>6
    <3> QED
      BY <3>1, <3>2 DEF OneTaker
  <2>2. CASE ~Spent(j) /\ Spent(j)'
    <3>1. ConsumePasswordResetToken(j)
      <4>1. ~TokenInvalid(j)
        BY <2>2 DEF Spent, TokenInvalid, Reaches, JobState
      <4>2. ~WriteReset(j)
        BY <2>2 DEF Spent, WriteReset
      <4>3. ~ResetFails(j)
        BY <2>2 DEF Spent, ResetFails, Reaches, JobState
      <4> QED
        BY <4>1, <4>2, <4>3
    <3>2. links[jobs[j].link] = "live"
      BY <3>1 DEF ConsumePasswordResetToken, TakeToken
    <3>3. \A i \in Job : Spent(i) => jobs[i].link # jobs[j].link
      BY <3>2 DEF SubmissionInv
    <3>4. /\ \A i \in Job : i # j => (Spent(i)' <=> Spent(i))
          /\ \A i \in Job : jobs'[i].link = jobs[i].link
      BY <1>3, <1>6 DEF Spent
    <3> QED
      BY <3>3, <3>4 DEF OneTaker
  <2> QED
    BY <2>1, <2>2
<1>10. ASSUME NEW t \in Tab PROVE TabInv(t)'
  <2>1. TabInv(t) /\ tabs[t] \in TabState
    OBVIOUS
  <2>2. tabs[t].done => tabs[t].job \in Job /\ tabs[t].job # j
    BY <1>2, <2>1, FormsAssumption DEF TabInv, TabState, Job
  <2> QED
    BY <1>3, <1>4, <2>1, <2>2 DEF TabInv
<1> QED
  BY <1>4, <1>5, <1>8, <1>9, <1>10

\* The page's steps.
LEMMA AnswerStep ==
    ASSUME ResetInv, NEW j \in Job, ResetAnswered(j) \/ ResetLost(j)
    PROVE  ResetInv'
<1> USE DEF ResetInv, ResetTypes
<1> DEFINE t == jobs[j].tab
<1>1. /\ jobs[j].waiting
      /\ jobs' = [jobs EXCEPT ![j].waiting = FALSE]
      /\ UNCHANGED <<password, verified, links, forgot>>
  BY DEF ResetAnswered, ResetLost
<1>2. t \in Tab /\ jobs[j].link \in Link /\ tabs[t].job = j /\ tabs[t].link = jobs[j].link
  BY <1>1 DEF SubmissionInv
<1>3. /\ jobs' \in [Job -> JobState]
      /\ \A i \in Job : /\ jobs'[i].tab = jobs[i].tab /\ jobs'[i].link = jobs[i].link
                        /\ jobs'[i].stage = jobs[i].stage
                        /\ jobs'[i].waiting => jobs[i].waiting
  BY <1>1 DEF JobState
<1>4. PICK expired \in BOOLEAN :
         /\ expired => jobs[j].stage = "refused"
         /\ \/ tabs' = [tabs EXCEPT ![t].done = TRUE] /\ jobs[j].stage = "written"
            \/ tabs' = [tabs EXCEPT ![t].expired = expired]
  BY DEF ResetAnswered, ResetLost, Expired
<1>5. /\ tabs' \in [Tab -> TabState]
      /\ \A s \in Tab : tabs'[s].link = tabs[s].link /\ tabs'[s].job = tabs[s].job
      /\ \A s \in Tab : s # t => tabs'[s] = tabs[s]
      /\ tabs'[t].done => tabs[t].done \/ jobs[j].stage = "written"
      /\ tabs'[t].expired => tabs[t].expired \/ jobs[j].stage = "refused"
  <2>1. CASE tabs' = [tabs EXCEPT ![t].done = TRUE] /\ jobs[j].stage = "written"
    BY <1>2, <2>1 DEF TabState
  <2>2. CASE tabs' = [tabs EXCEPT ![t].expired = expired]
    BY <1>2, <1>4, <2>2 DEF TabState
  <2> QED
    BY <1>4, <2>1, <2>2
<1>6. \A i \in Job : (Spent(i)' <=> Spent(i)) /\ SubmissionInv(i)'
  BY <1>1, <1>3, <1>5 DEF SubmissionInv, Spent
<1>7. OneTaker'
  BY <1>3, <1>6 DEF OneTaker
<1>8. ASSUME NEW s \in Tab PROVE TabInv(s)'
  <2>1. TabInv(s) /\ tabs[s] \in TabState
    OBVIOUS
  <2>2. tabs[s].done => tabs[s].job \in Job
    BY <2>1, FormsAssumption DEF TabInv, TabState, Job
  <2>3. CASE s = t
    <3>1. j # 0
      BY DEF Job
    <3> QED
      BY <1>1, <1>2, <1>3, <1>5, <2>1, <2>2, <2>3, <3>1 DEF TabInv, SubmissionInv
  <2>4. CASE s # t
    BY <1>1, <1>3, <1>5, <2>1, <2>2, <2>4 DEF TabInv
  <2> QED
    BY <2>3, <2>4
<1> QED
  BY <1>1, <1>3, <1>5, <1>6, <1>7, <1>8

\* What happens on the profile page reaches the reset pages as a password at most.
LEMMA ProfileKeepsResets ==
    ASSUME ResetInv, UNCHANGED resetVars, password' \in 0..ByForm, verified' \in BOOLEAN
    PROVE  ResetInv'
BY DEF ResetInv, ResetTypes, SubmissionInv, OneTaker, TabInv, Spent, resetVars

-----------------------------------------------------------------------------
(* The profile page.                                                        *)

Sofar(f, n) == {Calls(f)[i] : i \in 1..n}

\* A form in order: while no call has failed, all the calls behind it were written.
GoodForm(f, form) ==
    /\ form \in FormState /\ form.step <= Len(Calls(f))
    /\ form.step # 0 /\ form.failed = {} =>
          form.wrote = Sofar(f, IF form.stage \in {"written", "settling"} THEN form.step
                                ELSE form.step - 1)
    /\ form.step = 0 /\ form.notice = "ok" => form.wrote = Sofar(f, Len(Calls(f)))

LateCalls == [field : Field, knew : 0..ByForm, checked : BOOLEAN]

ProfileInv ==
    /\ page \in {"content", "error"}
    /\ DOMAIN forms = Form /\ forms = [f \in Form |-> forms[f]]
    /\ \A f \in Form : GoodForm(f, forms[f])
    /\ waits \subseteq Used /\ \A f \in waits : At(f, "settling")
    /\ late \subseteq LateCalls

LEMMA TheCalls ==
    ASSUME NEW f \in Form
    PROVE  /\ Len(Calls(f)) \in 1..2 /\ 1 <= Len(Calls(f)) /\ DOMAIN Calls(f) = 1..Len(Calls(f))
           /\ \A i \in 1..Len(Calls(f)) : Calls(f)[i] \in Field
<1>1. CASE f = "profile"
  BY <1>1 DEF Calls, Field
<1>2. CASE f = "email"
  BY <1>2 DEF Calls, Field
<1>3. CASE f = "password"
  BY <1>3 DEF Calls, Field
<1> QED
  BY <1>1, <1>2, <1>3 DEF Form

LEMMA OneMore ==
    ASSUME NEW f \in Form, NEW n \in 1..2
    PROVE  Sofar(f, n) = Sofar(f, n - 1) \cup {Calls(f)[n]}
BY DEF Sofar

LEMMA FreshIsGood ==
    ASSUME NEW f \in Form PROVE GoodForm(f, FreshForm) /\ FreshForm \in FormState
<1>1. 0 \in 0..ByForm
  BY FormsAssumption DEF ByForm
<1>2. FreshForm \in FormState
  BY <1>1 DEF FreshForm, FormState
<1> QED
  BY <1>2, TheCalls DEF GoodForm, FreshForm

LEMMA ProceedsIsGood ==
    ASSUME NEW f \in Form, NEW form, GoodForm(f, form), form.step # 0,
           form.failed # {} \/ form.stage = "settling"
    PROVE  GoodForm(f, Proceeds(f, form))
<1>1. CASE form.step < Len(Calls(f))
  <2>1. Proceeds(f, form) = [form EXCEPT !.step = @ + 1, !.stage = "sent"]
    BY <1>1 DEF Proceeds
  <2>2. form \in FormState /\ form.step \in 1..2 /\ form.step + 1 <= Len(Calls(f))
    BY <1>1, TheCalls DEF GoodForm, FormState
  <2>3. Proceeds(f, form) \in FormState
    <3>1. form.step + 1 \in 0..2
      BY <2>2, TheCalls
    <3> QED
      BY <2>1, <2>2, <3>1 DEF FormState
  <2>4. /\ Proceeds(f, form).step = form.step + 1 /\ Proceeds(f, form).stage = "sent"
        /\ Proceeds(f, form).failed = form.failed /\ Proceeds(f, form).wrote = form.wrote
    BY <2>1, <2>2 DEF FormState
  <2>5. (form.step + 1) - 1 = form.step /\ form.step + 1 # 0
    BY <2>2
  <2>6. form.failed = {} => form.wrote = Sofar(f, form.step)
    BY <2>2 DEF GoodForm
  <2> QED
    BY <2>2, <2>3, <2>4, <2>5, <2>6 DEF GoodForm
<1>2. CASE ~(form.step < Len(Calls(f))) /\ form.seen
  <2>1. Proceeds(f, form) = Ended(form)
    BY <1>2 DEF Proceeds
  <2>2. form \in FormState /\ form.step = Len(Calls(f))
    BY <1>2, TheCalls DEF GoodForm, FormState
  <2>3. CASE form.failed = {}
    <3>1. form.wrote = Sofar(f, Len(Calls(f)))
      BY <2>2, <2>3 DEF GoodForm
    <3>2. Ended(form) = [FreshForm EXCEPT !.notice = "ok", !.wrote = form.wrote]
      BY <2>3 DEF Ended
    <3>3. Ended(form) \in FormState
      BY <2>2, <3>2, FreshIsGood DEF FormState
    <3> QED
      BY <2>1, <3>1, <3>2, <3>3, TheCalls DEF GoodForm, FreshForm
  <2>4. CASE form.failed # {}
    <3>1. Ended(form) = [FreshForm EXCEPT !.notice = "error"]
      BY <2>4 DEF Ended
    <3>2. Ended(form) \in FormState
      BY <3>1, FreshIsGood DEF FormState
    <3> QED
      BY <2>1, <3>1, <3>2, TheCalls DEF GoodForm, FreshForm
  <2> QED
    BY <2>3, <2>4
<1>3. CASE ~(form.step < Len(Calls(f))) /\ ~form.seen
  BY <1>3, FreshIsGood DEF Proceeds
<1> QED
  BY <1>1, <1>2, <1>3

\* A step of one form that leaves the page and the others alone.
OneForm(f, form) ==
    /\ GoodForm(f, form) /\ forms' = [forms EXCEPT ![f] = form]
    /\ page' = page /\ waits' = waits /\ f \notin waits /\ late' \subseteq LateCalls

LEMMA OneFormStep ==
    ASSUME ProfileInv, NEW f \in Form, NEW form, OneForm(f, form)
    PROVE  ProfileInv'
<1> USE DEF OneForm
<1>1. forms'[f] = form /\ \A g \in Form : g # f => forms'[g] = forms[g]
  BY DEF ProfileInv
<1>2. DOMAIN forms' = Form /\ forms' = [g \in Form |-> forms'[g]]
  BY DEF ProfileInv
<1>3. \A g \in Form : GoodForm(g, forms'[g])
  BY <1>1 DEF ProfileInv
<1>4. waits' \subseteq Used /\ \A g \in waits' : At(g, "settling")'
  BY <1>1, FormsAssumption DEF ProfileInv, At, Busy
<1> QED
  BY <1>2, <1>3, <1>4 DEF ProfileInv, GoodForm

LEMMA ProfileInit == Init => ProfileInv
BY FreshIsGood DEF Init, ProfileInv

LEMMA RefusedIsGood ==
    ASSUME NEW f \in Form, NEW form, form = [FreshForm EXCEPT !.notice = "error"]
    PROVE  GoodForm(f, form)
<1>1. form \in FormState
  BY FreshIsGood DEF FormState
<1>2. form.step = 0 /\ form.notice = "error"
  BY DEF FreshForm
<1> QED
  BY <1>1, <1>2, TheCalls DEF GoodForm

LEMMA SentIsGood ==
    ASSUME NEW f \in Form, NEW k \in 0..ByForm, NEW form,
           form = [FreshForm EXCEPT !.step = 1, !.knew = k]
    PROVE  GoodForm(f, form)
<1>1. FreshForm \in FormState /\ 1 \in 0..2
  BY FreshIsGood
<1>2. form \in FormState
  BY <1>1 DEF FormState
<1>3. form.step = 1 /\ form.stage = "sent" /\ form.wrote = {} /\ Sofar(f, form.step - 1) = {}
  BY DEF FreshForm, Sofar
<1>4. form.step <= Len(Calls(f))
  BY <1>3, TheCalls, Zenon
<1>5. form.wrote = Sofar(f, IF form.stage \in {"written", "settling"} THEN form.step
                           ELSE form.step - 1)
  BY <1>3
<1>6. ~(form.step = 0)
  BY <1>3
<1> QED
  BY <1>2, <1>4, <1>5, <1>6 DEF GoodForm

LEMMA SubmitStep ==
    ASSUME ProfileInv, password \in 0..ByForm, NEW f \in Form, Submit(f)
    PROVE  ProfileInv'
<1>1. PICK form : forms' = [forms EXCEPT ![f] = form] /\ GoodForm(f, form)
  <2>1. CASE forms' = [forms EXCEPT ![f] = [FreshForm EXCEPT !.notice = "error"]]
    BY <2>1, RefusedIsGood
  <2>2. ASSUME NEW k \in 0..ByForm,
               forms' = [forms EXCEPT ![f] = [FreshForm EXCEPT !.step = 1, !.knew = k]]
        PROVE  \E form : forms' = [forms EXCEPT ![f] = form] /\ GoodForm(f, form)
    BY <2>2, SentIsGood
  <2>3. 0 \in 0..ByForm
    BY FormsAssumption DEF ByForm
  <2> QED
    BY <2>1, <2>2, <2>3 DEF Submit
<1>2. OneForm(f, form)
  BY <1>1 DEF Submit, ProfileInv, At, OneForm
<1> QED
  BY <1>2, OneFormStep

LEMMA CheckStep ==
    ASSUME ProfileInv, CheckPassword
    PROVE  ProfileInv'
<1> DEFINE f == "password"
           form == [forms[f] EXCEPT !.stage = "checked", !.knew = 0]
<1>1. f \in Form /\ GoodForm(f, forms[f]) /\ At(f, "sent") /\ f \notin waits
  BY DEF CheckPassword, ProfileInv, Form, At
<1>2. forms' = [forms EXCEPT ![f] = form]
  BY <1>1 DEF CheckPassword, ProfileInv
<1>3. GoodForm(f, form)
  <2>1. 0 \in 0..ByForm
    BY FormsAssumption DEF ByForm
  <2> QED
    BY <1>1, <2>1 DEF GoodForm, FormState, At, Busy
<1>4. OneForm(f, form)
  BY <1>1, <1>2, <1>3 DEF CheckPassword, ProfileInv, OneForm
<1> QED
  BY <1>1, <1>4, OneFormStep

LEMMA CallIsField ==
    ASSUME ProfileInv, NEW f \in Form, Busy(f)
    PROVE  Current(f) \in Field /\ forms[f].step \in 1..Len(Calls(f))
BY TheCalls DEF ProfileInv, GoodForm, FormState, Busy, Current

LEMMA WriteStep ==
    ASSUME ProfileInv, NEW f \in Form, Write(f)
    PROVE  ProfileInv'
<1> DEFINE form == [forms[f] EXCEPT !.stage = "written", !.wrote = @ \cup {Current(f)}]
           n == forms[f].step
<1>1. /\ GoodForm(f, forms[f]) /\ Busy(f) /\ forms[f].stage \in {"sent", "checked"}
      /\ f \notin waits
  BY DEF Write, ProfileInv, At
<1>2. forms' = [forms EXCEPT ![f] = form]
  BY DEF Write, ProfileInv
<1>3. Current(f) \in Field /\ n \in 1..2 /\ n <= Len(Calls(f))
  BY <1>1, CallIsField, TheCalls
<1>4. form \in FormState /\ form.step = n /\ form.stage = "written"
  BY <1>1, <1>3 DEF GoodForm, FormState
<1>5. form.failed = {} => form.wrote = Sofar(f, n)
  <2>1. forms[f].failed = {} => forms[f].wrote = Sofar(f, n - 1)
    BY <1>1 DEF GoodForm, Busy
  <2>2. Sofar(f, n) = Sofar(f, n - 1) \cup {Current(f)}
    BY <1>3, OneMore DEF Current
  <2> QED
    BY <1>1, <2>1, <2>2 DEF GoodForm, FormState
<1>6. GoodForm(f, form)
  <2> HIDE DEF form
  <2> QED
    BY <1>3, <1>4, <1>5 DEF GoodForm
<1>7. OneForm(f, form)
  BY <1>1, <1>2, <1>6 DEF Write, ProfileInv, OneForm
<1> QED
  BY <1>7, OneFormStep

LEMMA RefuseStep ==
    ASSUME ProfileInv, NEW f \in Form, Refuse(f)
    PROVE  ProfileInv'
<1> DEFINE form == [forms[f] EXCEPT !.stage = "refused"]
<1>1. /\ GoodForm(f, forms[f]) /\ forms[f].stage \in {"sent", "checked"} /\ Busy(f)
      /\ f \notin waits
  BY DEF Refuse, ProfileInv, Unserved, At
<1>2. forms' = [forms EXCEPT ![f] = form]
  BY DEF Refuse, ProfileInv
<1>3. GoodForm(f, form)
  BY <1>1 DEF GoodForm, FormState, Busy
<1>4. OneForm(f, form)
  BY <1>1, <1>2, <1>3 DEF Refuse, ProfileInv, OneForm
<1> QED
  BY <1>4, OneFormStep

LEMMA AnsweredStep ==
    ASSUME ProfileInv, NEW f \in Used, Answered(f)
    PROVE  ProfileInv'
<1>1. /\ GoodForm(f, forms[f]) /\ forms[f].stage = "written" /\ Busy(f) /\ f \in Form
      /\ page' = page /\ late' = late /\ waits' = {f}
      /\ forms' = [forms EXCEPT ![f].stage = "settling"]
  BY FormsAssumption DEF Answered, ProfileInv, At
<1>2. /\ \A g \in Form : g # f => forms'[g] = forms[g]
      /\ forms'[f] = [forms[f] EXCEPT !.stage = "settling"]
      /\ DOMAIN forms' = Form /\ forms' = [g \in Form |-> forms'[g]]
  BY <1>1 DEF ProfileInv
<1>3. GoodForm(f, forms'[f])
  BY <1>1, <1>2 DEF GoodForm, FormState, Busy
<1>4. \A g \in Form : GoodForm(g, forms'[g])
  BY <1>2, <1>3 DEF ProfileInv
<1>5. forms'[f].stage = "settling" /\ forms'[f].step # 0
  BY <1>1, <1>2 DEF Busy, GoodForm, FormState
<1>6. waits' \subseteq Used /\ \A g \in waits' : At(g, "settling")'
  BY <1>1, <1>5 DEF At, Busy
<1> QED
  BY <1>1, <1>2, <1>4, <1>6 DEF ProfileInv, GoodForm

LEMMA SettledStep ==
    ASSUME ProfileInv, NEW f \in Form, Settled(f)
    PROVE  ProfileInv'
<1> DEFINE form == Proceeds(f, forms[f])
<1>1. GoodForm(f, forms[f]) /\ forms[f].step # 0 /\ forms[f].stage = "settling"
  BY DEF Settled, ProfileInv, At, Busy
<1>2. GoodForm(f, form)
  BY <1>1, ProceedsIsGood
<1>3. forms' = [forms EXCEPT ![f] = form]
  BY DEF Settled, ProfileInv
<1>4. OneForm(f, form)
  <2> HIDE DEF form
  <2> QED
    BY <1>2, <1>3 DEF Settled, ProfileInv, OneForm
<1> QED
  BY <1>4, OneFormStep

LEMMA CallFailsStep ==
    ASSUME ProfileInv, NEW f \in Form, CallFails(f)
    PROVE  ProfileInv'
<1> DEFINE failing == [forms[f] EXCEPT !.failed = @ \cup {Current(f)}]
           form == Proceeds(f, failing)
<1>1. /\ GoodForm(f, forms[f]) /\ forms[f].step # 0 /\ forms[f].stage # "settling" /\ Busy(f)
      /\ Current(f) \in Field /\ f \notin waits
  BY CallIsField DEF CallFails, ProfileInv, At, Busy
<1>2. /\ failing \in FormState /\ failing.step = forms[f].step
      /\ failing.failed # {}
  BY <1>1 DEF GoodForm, FormState
<1>3. GoodForm(f, failing)
  <2> HIDE DEF failing
  <2> QED
    BY <1>1, <1>2 DEF GoodForm
<1>4. GoodForm(f, form)
  BY <1>1, <1>2, <1>3, ProceedsIsGood
<1>5. forms' = [forms EXCEPT ![f] = form]
  BY DEF CallFails
<1>6. late' \subseteq LateCalls
  <2>1. [field |-> Current(f), knew |-> forms[f].knew, checked |-> At(f, "checked")] \in LateCalls
    BY <1>1 DEF GoodForm, FormState, LateCalls, At, Busy
  <2> QED
    BY <2>1 DEF CallFails, ProfileInv
<1>7. OneForm(f, form)
  <2> HIDE DEF form
  <2> QED
    BY <1>1, <1>4, <1>5, <1>6 DEF CallFails, OneForm
<1> QED
  BY <1>7, OneFormStep

LEMMA RemountedIsGood ==
    ASSUME ProfileInv, NEW f \in Form
    PROVE  GoodForm(f, Remounted[f]) /\ (Busy(f) => /\ Remounted[f].step = forms[f].step
                                                   /\ Remounted[f].stage = forms[f].stage)
<1>1. CASE Busy(f)
  <2>1. Remounted[f] = [forms[f] EXCEPT !.seen = FALSE] /\ GoodForm(f, forms[f])
    BY <1>1 DEF Remounted, ProfileInv
  <2> QED
    BY <2>1 DEF GoodForm, FormState
<1>2. CASE ~Busy(f)
  <2>1. Remounted[f] = FreshForm
    BY <1>2 DEF Remounted
  <2> QED
    BY <1>2, <2>1, FreshIsGood
<1> QED
  BY <1>1, <1>2

LEMMA RemountStep ==
    ASSUME ProfileInv, MeAnswers \/ Visit
    PROVE  ProfileInv'
<1>1. /\ late' = late /\ waits' \subseteq waits /\ page' \in {"content", "error"}
      /\ forms' \in {forms, Remounted}
  BY DEF MeAnswers, Visit, ProfileInv
<1>2. CASE forms' = forms
  BY <1>1, <1>2 DEF ProfileInv, At, Busy
<1>3. CASE forms' = Remounted
  <2>1. DOMAIN Remounted = Form /\ Remounted = [g \in Form |-> Remounted[g]]
    BY DEF Remounted
  <2>2. \A g \in Form : GoodForm(g, forms'[g])
    BY <1>3, RemountedIsGood
  <2>3. \A g \in waits' : At(g, "settling")'
    BY <1>1, <1>3, RemountedIsGood, FormsAssumption DEF ProfileInv, At, Busy
  <2> QED
    BY <1>1, <1>3, <2>1, <2>2, <2>3 DEF ProfileInv, GoodForm
<1> QED
  BY <1>1, <1>2, <1>3

-----------------------------------------------------------------------------
(* Both pages.                                                              *)

IInv == ResetInv /\ ProfileInv

LEMMA Inductive == IInv /\ [Next]_vars => IInv'
<1> SUFFICES ASSUME IInv, [Next]_vars PROVE IInv'
  OBVIOUS
<1>0. /\ ResetInv /\ ProfileInv /\ password \in 0..ByForm /\ verified \in BOOLEAN
      /\ ByForm \in 0..ByForm
  BY FormsAssumption DEF IInv, ResetInv, ResetTypes, ByForm
<1>1. CASE Resets
  <2>1. UNCHANGED profileVars
    BY <1>1 DEF Resets, ForgotPassword, IssuePasswordResetToken, LinkExpires, OpenLink,
                SubmitReset, ConsumePasswordResetToken, TokenInvalid, WriteReset, ResetFails,
                ResetAnswered, ResetLost
  <2>2. ProfileInv'
    BY <1>0, <2>1 DEF profileVars, ProfileInv, GoodForm, At, Busy
  <2>3. ResetInv'
    <3>1. CASE ForgotPassword \/ IssuePasswordResetToken \/ \E l \in Link : LinkExpires(l)
      BY <1>0, <3>1, ForgotStep, LinkStep
    <3>2. ASSUME NEW l \in Link, NEW t \in Tab, OpenLink(t, l) PROVE ResetInv'
      BY <1>0, <3>2, OpenLinkStep
    <3>3. ASSUME NEW j \in Job, NEW t \in Tab, SubmitReset(t, j) PROVE ResetInv'
      BY <1>0, <3>3, SubmitResetStep
    <3>4. ASSUME NEW j \in Job,
                 \/ ConsumePasswordResetToken(j) \/ TokenInvalid(j) \/ WriteReset(j)
                 \/ ResetFails(j)
          PROVE  ResetInv'
      BY <1>0, <3>4, ServerStep
    <3>5. ASSUME NEW j \in Job, ResetAnswered(j) \/ ResetLost(j) PROVE ResetInv'
      BY <1>0, <3>5, AnswerStep
    <3> QED
      BY <1>1, <3>1, <3>2, <3>3, <3>4, <3>5 DEF Resets
  <2> QED
    BY <2>2, <2>3 DEF IInv
<1>2. ASSUME NEW f \in Used,
             Submit(f) \/ Write(f) \/ Refuse(f) \/ Answered(f) \/ Settled(f) \/ CallFails(f)
      PROVE  IInv'
  <2>1. f \in Form
    BY FormsAssumption
  <2>2. ProfileInv'
    BY <1>0, <1>2, <2>1, SubmitStep, WriteStep, RefuseStep, AnsweredStep, SettledStep,
       CallFailsStep
  <2>3. UNCHANGED resetVars /\ password' \in 0..ByForm /\ verified' \in BOOLEAN
    BY <1>0, <1>2 DEF Submit, Write, Writes, Refuse, Answered, Settled, CallFails
  <2> QED
    BY <1>0, <2>2, <2>3, ProfileKeepsResets DEF IInv
<1>3. CASE CheckPassword \/ MeAnswers \/ Visit
  <2>1. ProfileInv'
    BY <1>0, <1>3, CheckStep, RemountStep
  <2>2. UNCHANGED resetVars /\ password' = password /\ verified' = verified
    BY <1>3 DEF CheckPassword, MeAnswers, Visit
  <2> QED
    BY <1>0, <2>1, <2>2, ProfileKeepsResets DEF IInv
<1>4. ASSUME NEW c \in late, LateCall(c) PROVE IInv'
  <2>1. /\ UNCHANGED <<resetVars, page, waits, forms>> /\ late' \subseteq late
        /\ password' \in 0..ByForm /\ verified' \in BOOLEAN
    BY <1>0, <1>4 DEF LateCall, Writes
  <2>2. ProfileInv'
    BY <1>0, <2>1 DEF ProfileInv, GoodForm, At, Busy
  <2> QED
    BY <1>0, <2>1, <2>2, ProfileKeepsResets DEF IInv
<1>5. CASE UNCHANGED vars
  <2>1. UNCHANGED <<resetVars, password, verified>> /\ UNCHANGED profileVars
    BY <1>5 DEF vars
  <2>2. ProfileInv'
    BY <1>0, <2>1 DEF profileVars, ProfileInv, GoodForm, At, Busy
  <2> QED
    BY <1>0, <2>1, <2>2, ProfileKeepsResets DEF IInv
<1> QED
  BY <1>1, <1>2, <1>3, <1>4, <1>5 DEF Next

LEMMA InvariantHolds == Spec => []IInv
<1>1. Init => IInv
  BY ResetInit, ProfileInit DEF IInv
<1> QED
  BY <1>1, Inductive, PTL DEF Spec

-----------------------------------------------------------------------------
(* The theorems.                                                            *)

\* Every variable keeps its type; a handler waits for the account only after an answer.
THEOREM TypeCorrect == Spec => []TypeOK
<1>1. IInv => TypeOK
  BY DEF IInv, ResetInv, ResetTypes, ProfileInv, GoodForm, TypeOK, LateCalls
<1> QED
  BY <1>1, InvariantHolds, PTL

\* However many tabs and submissions race for a link, one at most writes a password:
\* whoever has it wrote, or will, alone took the key (consumePasswordResetToken).
THEOREM LinksWorkOnce == Spec => []OneLinkOnePassword
<1>1. IInv => OneLinkOnePassword
  BY DEF IInv, ResetInv, OneTaker, Spent, OneLinkOnePassword
<1> QED
  BY <1>1, InvariantHolds, PTL

\* What a page of ResetPasswordPage tells of its link is so, whatever answers were lost
\* and whatever the other tabs did.
THEOREM ResetPagesTellTheTruth == Spec => []ResetPageTruthful
<1>1. IInv => ResetPageTruthful
  BY DEF IInv, ResetInv, TabInv, ResetPageTruthful
<1> QED
  BY <1>1, InvariantHolds, PTL

\* A notice of success stands for every call of the form, also when its handler outlived
\* the page or failed refetches of the account in between.
THEOREM SavedMeansSaved == Spec => []NoticesTruthful
<1>1. IInv => NoticesTruthful
  <2> SUFFICES ASSUME IInv, NEW f \in Form, ~Busy(f), forms[f].notice = "ok"
               PROVE  forms[f].wrote = {Calls(f)[i] : i \in DOMAIN Calls(f)}
    BY DEF NoticesTruthful
  <2>1. forms[f].wrote = Sofar(f, Len(Calls(f)))
    BY DEF IInv, ProfileInv, GoodForm, Busy
  <2> QED
    BY <2>1, TheCalls DEF Sofar
<1> QED
  BY <1>1, InvariantHolds, PTL
=============================================================================
