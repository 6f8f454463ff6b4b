--------------------------- MODULE AdminPanelProofs ---------------------------
(***************************************************************************)
(* Proofs about AdminPanel for every set of operators, ranks, keys and values. *)
(* The queries carry the sign-in they were read after, and the gate waits only   *)
(* for what was asked (AskedInv); a save of settings accounts for each of its     *)
(* keys.                                                                       *)
(***************************************************************************)
EXTENDS AdminPanel, TLAPS

-----------------------------------------------------------------------------
(* The inductive invariant.                                                 *)

SessionsInv ==
    /\ user \in Who /\ staff \in Who /\ signIns \in 0..MaxSignIns
    /\ screen \in {"login", "panel"}
    /\ step \in {"idle", "user-session", "staff-session"} /\ candidate \in Who
    /\ leaving \in BOOLEAN
    /\ step # "idle" => signIns < MaxSignIns

\* What a query has, and what it is about to have, was read after n sign-ins.
ReadSince(state, n) ==
    /\ state \in QueryState
    /\ state.data # Nobody => state.since = n
    /\ state.fetch = "answered" => state.at = n

AllSince(qs, n) ==
    /\ qs \in [Query -> QueryState]
    /\ \A q \in Query : ReadSince(qs[q], n)

QueriesInv == AllSince(queries, signIns)

FormInv ==
    /\ settings \in [Key -> Value] /\ shown \in [Key -> Value]
    /\ edits \in Edits /\ mine \in BOOLEAN

Batched == {k \in Key : batch[k] # Unchanged}

\* While a save is under way each of its keys is to do, saved or failed, and one only.
SaveInv ==
    /\ batch \in Edits /\ todo \subseteq Key /\ saves \in 0..MaxSaves
    /\ outcome \in [saved : SUBSET Key, failed : SUBSET Key]
    /\ call \in {NoCall} \cup [key : Key, stage : {"sent", "written"}]
    /\ call # NoCall => call.key \in todo
    /\ todo # {} => /\ outcome.saved \cup outcome.failed \cup todo = Batched
                    /\ (outcome.saved \cup outcome.failed) \cap todo = {}
                    /\ outcome.saved \cap outcome.failed = {}

IInv == SessionsInv /\ QueriesInv /\ FormInv /\ SaveInv

-----------------------------------------------------------------------------
(* The operators on queries.                                                *)

LEMMA FreshRead ==
    ASSUME NEW n
    PROVE  ReadSince(Fresh, n)
BY PanelAssumption DEF ReadSince, Fresh, QueryState, Who

LEMMA AsksRead ==
    ASSUME NEW n, NEW state, ReadSince(state, n)
    PROVE  ReadSince(Asks(state), n)
<1>1. state \in QueryState
  BY DEF ReadSince
<1> DEFINE wrong == state.error /\ state.data # Nobody
<1>2. wrong \in BOOLEAN
  OBVIOUS
<1>3. Asks(state) = [state EXCEPT !.fetch = "asked", !.tries = 0, !.error = wrong]
  BY DEF Asks
<1> HIDE DEF wrong
<1>4. Asks(state) \in QueryState
  <2>1. 0 \in 0..1
    OBVIOUS
  <2> QED
    BY <1>1, <1>2, <1>3, <2>1, Zenon DEF QueryState
<1>5. /\ Asks(state).data = state.data /\ Asks(state).since = state.since
      /\ Asks(state).fetch = "asked"
  BY <1>1, <1>3 DEF QueryState
<1> QED
  BY <1>4, <1>5 DEF ReadSince

LEMMA OneQuery ==
    ASSUME NEW n, NEW qs, AllSince(qs, n), NEW q \in Query, NEW state, ReadSince(state, n)
    PROVE  AllSince([qs EXCEPT ![q] = state], n)
BY DEF AllSince, ReadSince

LEMMA UseMeRead ==
    ASSUME NEW n, NEW qs, AllSince(qs, n)
    PROVE  AllSince(UseMe(qs), n)
<1>1. ReadSince(Asks(qs["me"]), n)
  BY AsksRead DEF AllSince, Query
<1>2. AllSince([qs EXCEPT !["me"] = Asks(qs["me"])], n)
  BY <1>1, OneQuery DEF Query
<1> QED
  BY <1>2 DEF UseMe

LEMMA UseAdminSessionRead ==
    ASSUME NEW n, NEW qs, AllSince(qs, n)
    PROVE  AllSince(UseAdminSession(qs), n)
<1>1. ReadSince(Asks(qs["session"]), n)
  BY AsksRead DEF AllSince, Query
<1>2. AllSince([qs EXCEPT !["session"] = Asks(qs["session"])], n)
  BY <1>1, OneQuery DEF Query
<1> QED
  BY <1>2 DEF UseAdminSession

LEMMA FreshQueriesRead ==
    ASSUME NEW n
    PROVE  AllSince([q \in Query |-> Fresh], n)
BY FreshRead DEF AllSince, ReadSince

LEMMA ResetRead ==
    ASSUME NEW n, ResetQueries
    PROVE  AllSince(queries', n)
<1>1. ReadSince(Fresh, n) /\ ReadSince(Asks(Fresh), n)
  BY FreshRead, AsksRead
<1>2. queries' = [q \in Query |-> IF q = "me" \/ Watched(q) THEN Asks(Fresh) ELSE Fresh]
  BY DEF ResetQueries
<1>3. \A q \in Query : queries'[q] \in {Fresh, Asks(Fresh)}
  BY <1>2
<1>4. \A q \in Query : ReadSince(queries'[q], n)
  BY <1>1, <1>3
<1>5. queries' \in [Query -> QueryState]
  BY <1>1, <1>2 DEF ReadSince
<1> QED
  BY <1>4, <1>5 DEF AllSince

\* Nothing is had any more, and what is under way was read when it was.
LEMMA ClearedRead ==
    ASSUME NEW n, AllSince(queries, n)
    PROVE  AllSince(Cleared, n)
<1>1. ASSUME NEW q \in Query
      PROVE  ReadSince([queries[q] EXCEPT !.data = Nobody, !.since = 0, !.error = FALSE], n)
  <2>1. ReadSince(queries[q], n) /\ queries[q] \in QueryState
    BY DEF AllSince, ReadSince
  <2>2. Nobody \in Who /\ 0 \in 0..MaxSignIns
    BY PanelAssumption DEF Who
  <2> QED
    BY <2>1, <2>2 DEF ReadSince, QueryState
<1> QED
  BY <1>1 DEF AllSince, Cleared, ReadSince

LEMMA InitHolds == Init => IInv
<1> SUFFICES ASSUME Init PROVE IInv
  OBVIOUS
<1>1. SessionsInv /\ FormInv
  <2>a. leaving \in BOOLEAN
    BY Zenon DEF Init
  <2>b. 0 \in 0..MaxSignIns
    BY PanelAssumption
  <2>c. /\ user = Nobody /\ staff = Nobody /\ signIns = 0 /\ screen = "login"
        /\ step = "idle" /\ candidate = Nobody
    BY DEF Init
  <2>1. SessionsInv
    BY <2>a, <2>b, <2>c DEF SessionsInv, Who
  <2>2. settings \in [Key -> Value] /\ shown \in [Key -> Value] /\ mine \in BOOLEAN
    BY DEF Init
  <2>3. edits \in Edits
    BY DEF Init, Edits, NoEdits
  <2> QED
    BY <2>1, <2>2, <2>3 DEF FormInv
<1>2. QueriesInv
  BY FreshQueriesRead DEF Init, QueriesInv
<1>3. SaveInv
  BY PanelAssumption DEF Init, SaveInv, Edits, NoEdits, NoCall, NoOutcome
<1> QED
  BY <1>1, <1>2, <1>3 DEF IInv

-----------------------------------------------------------------------------
(* What each part rests on.                                                 *)

LEMMA SessionsKept ==
    ASSUME SessionsInv, UNCHANGED <<sessions, screen, signing>>
    PROVE  SessionsInv'
BY DEF SessionsInv, sessions, signing

LEMMA QueriesKept ==
    ASSUME QueriesInv, UNCHANGED <<queries, signIns>>
    PROVE  QueriesInv'
BY DEF QueriesInv

LEMMA FormKept ==
    ASSUME FormInv, UNCHANGED <<settings, form>>
    PROVE  FormInv'
BY DEF FormInv, form

LEMMA SaveKept ==
    ASSUME SaveInv, UNCHANGED saving
    PROVE  SaveInv'
<1>1. UNCHANGED <<batch, todo, call, outcome, saves>>
  BY DEF saving
<1> QED
  BY <1>1 DEF SaveInv, Batched

-----------------------------------------------------------------------------
(* The steps of the queries.                                                *)

QueryStep ==
    \E q \in Query : FetchMe(q) \/ QueryAnswers(q) \/ QueryFails(q)

\* Mounting, unmounting and staying leave a form's typing or drop it.
LEMMA TypedKeepsForm ==
    ASSUME FormInv, TypedIsKept, UNCHANGED settings
    PROVE  FormInv'
<1>1. NoEdits \in Edits
  BY DEF NoEdits, Edits
<1>2. UNCHANGED <<settings, shown>> /\ edits' \in {edits, NoEdits}
  BY DEF TypedIsKept
<1>3. mine' \in BOOLEAN
  BY Zenon DEF TypedIsKept
<1> QED
  BY <1>1, <1>2, <1>3 DEF FormInv

LEMMA QueryStepKeeps ==
    ASSUME IInv, QueryStep
    PROVE  IInv'
<1>0. SessionsInv /\ QueriesInv /\ FormInv /\ SaveInv
  BY DEF IInv
<1>1. UNCHANGED <<sessions, screen, signing, settings, saving>>
  BY DEF QueryStep, FetchMe, QueryAnswers, QueryFails
<1>a. FormInv'
  <2>1. TypedIsKept \/ UNCHANGED form
    BY DEF QueryStep, FetchMe, QueryAnswers, QueryFails
  <2> QED
    BY <1>0, <1>1, <2>1, FormKept, TypedKeepsForm
<1>2. UNCHANGED signIns
  BY <1>1 DEF sessions
<1>3. AllSince(queries, signIns)
  BY <1>0 DEF QueriesInv
<1>4. AllSince(queries', signIns)
  <2>2. ASSUME NEW q \in Query, FetchMe(q)
        PROVE  AllSince(queries', signIns)
    <3>1. ReadSince(queries[q], signIns) /\ queries \in [Query -> QueryState]
      BY <1>3 DEF AllSince
    <3>2. Holder(q) \in Who /\ signIns \in 0..MaxSignIns
      BY <1>0 DEF SessionsInv, Holder
    <3> DEFINE read == [queries[q] EXCEPT
                          !.fetch = IF Holder(q) = Nobody THEN "refused" ELSE "answered",
                          !.got = Holder(q), !.at = signIns]
    <3>3. ReadSince(read, signIns)
      BY <3>1, <3>2 DEF ReadSince, QueryState
    <3>4. queries' = [queries EXCEPT ![q] = read]
      BY <2>2, <3>1 DEF FetchMe, QueryState
    <3> HIDE DEF read
    <3> QED
      BY <1>3, <3>3, <3>4, OneQuery
  <2>3. ASSUME NEW q \in Query, QueryAnswers(q)
        PROVE  AllSince(queries', signIns)
    <3>1. ReadSince(queries[q], signIns) /\ queries[q].fetch = "answered"
      BY <1>3, <2>3 DEF AllSince, QueryAnswers
    <3> DEFINE got == [Fresh EXCEPT !.data = queries[q].got, !.since = queries[q].at]
    <3>2. ReadSince(got, signIns)
      BY <3>1, FreshRead DEF ReadSince, QueryState, Fresh
    <3> DEFINE read == [queries EXCEPT ![q] = got]
    <3>3. queries' \in {read, UseAdminSession(read)}
      BY <2>3 DEF QueryAnswers
    <3> HIDE DEF got
    <3>4. AllSince(read, signIns)
      BY <1>3, <3>2, OneQuery
    <3> QED
      BY <3>3, <3>4, UseAdminSessionRead
  <2>4. ASSUME NEW q \in Query, QueryFails(q)
        PROVE  AllSince(queries', signIns)
    <3>1. ReadSince(queries[q], signIns)
      BY <1>3 DEF AllSince
    <3> DEFINE state == queries[q]
               refused == state.fetch = "refused"
               again == [state EXCEPT !.fetch = "asked", !.tries = @ + 1,
                                      !.got = Nobody, !.at = 0]
               over == [Fresh EXCEPT !.data = state.data, !.since = state.since,
                                     !.error = TRUE]
               next == IF RetryAdmin(state, refused) THEN again ELSE over
    <3>2. RetryAdmin(state, refused) => ReadSince(again, signIns)
      <4> SUFFICES ASSUME state.tries < 1 PROVE ReadSince(again, signIns)
        BY DEF RetryAdmin
      <4>1. state \in QueryState
        BY <3>1 DEF ReadSince
      <4>2. state.tries + 1 \in 0..1 /\ 0 \in 0..MaxSignIns /\ Nobody \in Who
        BY <4>1, PanelAssumption DEF QueryState, Who
      <4>3. again \in QueryState
        BY <4>1, <4>2 DEF QueryState
      <4>4. again.data = state.data /\ again.since = state.since /\ again.fetch = "asked"
        BY <4>1 DEF QueryState
      <4> QED
        BY <3>1, <4>3, <4>4 DEF ReadSince
    <3>3. ReadSince(over, signIns)
      BY <3>1, FreshRead DEF ReadSince, QueryState, Fresh
    <3>4. ReadSince(next, signIns)
      BY <3>2, <3>3
    <3>5. queries' = [queries EXCEPT ![q] = next]
      BY <2>4 DEF QueryFails
    <3> HIDE DEF next
    <3> QED
      BY <1>3, <3>4, <3>5, OneQuery
  <2> QED
    BY <2>2, <2>3, <2>4 DEF QueryStep
<1>5. QueriesInv'
  BY <1>2, <1>4 DEF QueriesInv
<1> QED
  BY <1>0, <1>1, <1>a, <1>5, SessionsKept, SaveKept DEF IInv


-----------------------------------------------------------------------------
(* The steps of the sessions.                                               *)

SessionStep ==
    \/ VisitPanel \/ GoToSignIn \/ SignOut \/ SignedOut \/ SessionExpires
    \/ \E o \in Operator : SubmitSignIn(o)
    \/ AdminLogin \/ AdminStaffLogin \/ SignInFails

LEMMA SessionStepKeeps ==
    ASSUME IInv, SessionStep
    PROVE  IInv'
<1>0. SessionsInv /\ QueriesInv /\ FormInv /\ SaveInv
  BY DEF IInv
<1>1. SessionsInv'
  <2>1. Nobody \in Who /\ Operator \subseteq Who
    BY DEF Who
  <2>2. ASSUME AdminStaffLogin PROVE SessionsInv'
    <3>1. signIns + 1 \in 0..MaxSignIns
      BY <1>0, <2>2, PanelAssumption DEF SessionsInv, AdminStaffLogin
    <3> QED
      BY <1>0, <2>1, <2>2, <3>1 DEF SessionsInv, AdminStaffLogin
  <2>3. ASSUME AdminLogin PROVE SessionsInv'
    BY <1>0, <2>1, <2>3 DEF SessionsInv, AdminLogin
  <2>4. ASSUME NEW o \in Operator, SubmitSignIn(o) PROVE SessionsInv'
    BY <1>0, <2>1, <2>4 DEF SessionsInv, SubmitSignIn, sessions
  <2>5. ASSUME VisitPanel \/ GoToSignIn \/ SignOut \/ SignedOut \/ SessionExpires \/ SignInFails
        PROVE  SessionsInv'
    BY <1>0, <2>1, <2>5 DEF SessionsInv, VisitPanel, GoToSignIn, SignOut, SignedOut, SessionExpires,
       SignInFails, sessions, signing
  <2> QED
    BY <2>2, <2>3, <2>4, <2>5 DEF SessionStep
<1>2. FormInv'
  <2>1. UNCHANGED settings /\ (TypedIsKept \/ UNCHANGED form)
    BY DEF SessionStep, VisitPanel, GoToSignIn, SignOut, SignedOut, SessionExpires, SubmitSignIn,
       AdminLogin, AdminStaffLogin, SignInFails
  <2> QED
    BY <1>0, <2>1, FormKept, TypedKeepsForm
<1>3. SaveInv'
  <2>1. UNCHANGED saving
    BY DEF SessionStep, VisitPanel, GoToSignIn, SignOut, SignedOut, SessionExpires, SubmitSignIn, AdminLogin,
       AdminStaffLogin, SignInFails
  <2> QED
    BY <1>0, <2>1, SaveKept
<1>4. QueriesInv'
  <2>1. ASSUME VisitPanel PROVE QueriesInv'
    BY <1>0, <2>1, UseMeRead, UseAdminSessionRead DEF VisitPanel, QueriesInv, sessions
  <2>2. ASSUME AdminStaffLogin PROVE QueriesInv'
    <3>1. ResetQueries
      BY <2>2 DEF AdminStaffLogin
    <3> QED
      BY <3>1, ResetRead DEF QueriesInv
  <2>3. ASSUME SignedOut PROVE QueriesInv'
    BY <1>0, <2>3, ClearedRead DEF SignedOut, QueriesInv
  <2>4. ASSUME \/ GoToSignIn \/ SignOut \/ SessionExpires \/ AdminLogin \/ SignInFails
               \/ \E o \in Operator : SubmitSignIn(o)
        PROVE  QueriesInv'
    <3>1. UNCHANGED <<queries, signIns>>
      BY <2>4 DEF GoToSignIn, SignOut, SessionExpires, AdminLogin, SignInFails, SubmitSignIn, sessions
    <3> QED
      BY <1>0, <3>1, QueriesKept
  <2> QED
    BY <2>1, <2>2, <2>3, <2>4 DEF SessionStep
<1> QED
  BY <1>1, <1>2, <1>3, <1>4 DEF IInv

-----------------------------------------------------------------------------
(* The steps of the settings page.                                          *)

SettingsStep ==
    \/ \E k \in Key : Edit(k) \/ SendSetting(k)
    \/ Discard \/ LeaveSettings \/ LoadSettings \/ SaveSettings \/ SetSetting \/ SettingAnswered

\* Saving takes up exactly the keys that were changed.
LEMMA SaveSettingsKeeps ==
    ASSUME SaveInv, FormInv, SaveSettings
    PROVE  SaveInv'
<1>1. /\ todo' = {k \in Key : Changed(k)}
      /\ batch' = [k \in Key |-> IF k \in todo' THEN edits[k] ELSE Unchanged]
      /\ call' = NoCall /\ outcome' = NoOutcome /\ saves' = saves + 1 /\ saves < MaxSaves
  BY DEF SaveSettings
<1>2. \A k \in todo' : edits[k] # Unchanged
  BY <1>1 DEF Changed
<1>3. batch' \in Edits
  BY <1>1 DEF FormInv, Edits
<1>4. Batched' = todo'
  BY <1>1, <1>2 DEF Batched
<1>5. saves' \in 0..MaxSaves
  BY <1>1, PanelAssumption DEF SaveInv
<1>6. /\ outcome' \in [saved : SUBSET Key, failed : SUBSET Key]
      /\ outcome'.saved = {} /\ outcome'.failed = {}
  BY <1>1 DEF NoOutcome
<1> QED
  BY <1>1, <1>3, <1>4, <1>5, <1>6 DEF SaveInv

\* The key of a call is of its save.
LEMMA CallIsOfTheSave ==
    ASSUME SaveInv, call # NoCall
    PROVE  /\ call.key \in todo /\ call.key \in Key
           /\ batch[call.key] \in Value
BY DEF SaveInv, Batched, Edits

\* An answer moves its key from what is to do to what is saved or failed.
LEMMA SettingAnsweredKeeps ==
    ASSUME SaveInv, SettingAnswered
    PROVE  /\ SaveInv'
           /\ todo' = {} => /\ outcome'.saved \cup outcome'.failed = Batched
                            /\ outcome'.saved \cap outcome'.failed = {}
<1>1. /\ call # NoCall /\ call' = NoCall /\ UNCHANGED saves
      /\ batch' = IF todo' = {} THEN NoEdits ELSE batch
  BY DEF SettingAnswered
<1>2. PICK ok \in {call.stage = "written", FALSE} :
          /\ todo' = todo \ {call.key}
          /\ outcome' = IF ok THEN [outcome EXCEPT !.saved = @ \cup {call.key}]
                              ELSE [outcome EXCEPT !.failed = @ \cup {call.key}]
  BY DEF SettingAnswered, Remaining
<1> DEFINE k == call.key
<1>3. k \in todo /\ k \in Key /\ todo \subseteq Key
  BY <1>1, CallIsOfTheSave DEF SaveInv
<1>4. /\ outcome \in [saved : SUBSET Key, failed : SUBSET Key]
      /\ outcome.saved \cup outcome.failed \cup todo = Batched
      /\ (outcome.saved \cup outcome.failed) \cap todo = {}
      /\ outcome.saved \cap outcome.failed = {}
  BY <1>3 DEF SaveInv
<1>5. /\ outcome' \in [saved : SUBSET Key, failed : SUBSET Key]
      /\ outcome'.saved \cup outcome'.failed = outcome.saved \cup outcome.failed \cup {k}
      /\ outcome'.saved \cap outcome'.failed = {}
  <2>1. CASE ok
    <3>1. outcome' = [outcome EXCEPT !.saved = outcome.saved \cup {k}]
      BY <1>2, <2>1
    <3> QED
      BY <1>3, <1>4, <3>1
  <2>2. CASE ~ok
    <3>1. outcome' = [outcome EXCEPT !.failed = outcome.failed \cup {k}]
      BY <1>2, <2>2
    <3> QED
      BY <1>3, <1>4, <3>1
  <2> QED
    BY <2>1, <2>2
<1>6. batch' \in Edits
  BY <1>1 DEF SaveInv, NoEdits, Edits
<1>7. todo' # {} => Batched' = Batched
  BY <1>1 DEF Batched
<1>8. todo' = todo \ {k}
  BY <1>2
<1>9. outcome'.saved \cup outcome'.failed \cup todo' = Batched
  BY <1>3, <1>4, <1>5, <1>8
<1>10. (outcome'.saved \cup outcome'.failed) \cap todo' = {}
  BY <1>3, <1>4, <1>5, <1>8
<1>11. SaveInv'
  BY <1>1, <1>3, <1>5, <1>6, <1>7, <1>8, <1>9, <1>10 DEF SaveInv
<1> QED
  BY <1>5, <1>9, <1>11

LEMMA SettingsStepKeeps ==
    ASSUME IInv, SettingsStep
    PROVE  IInv'
<1>0. SessionsInv /\ QueriesInv /\ FormInv /\ SaveInv
  BY DEF IInv
<1>1. UNCHANGED <<sessions, queries, screen, signing>>
  BY DEF SettingsStep, Edit, SendSetting, Discard, LeaveSettings, LoadSettings, SaveSettings, SetSetting,
     SettingAnswered
<1>2. SessionsInv' /\ QueriesInv'
  BY <1>0, <1>1, SessionsKept, QueriesKept DEF sessions
<1>3. ASSUME NEW k \in Key, Edit(k) PROVE FormInv' /\ SaveInv'
  <2>1. SaveInv'
    BY <1>0, <1>3, SaveKept DEF Edit
  <2>2. UNCHANGED <<settings, shown, mine>> /\ edits' \in Edits
    BY <1>0, <1>3 DEF Edit, FormInv, Edits
  <2> QED
    BY <1>0, <2>1, <2>2 DEF FormInv
<1>4. ASSUME Discard PROVE FormInv' /\ SaveInv'
  <2>1. SaveInv'
    BY <1>0, <1>4, SaveKept DEF Discard
  <2>2. UNCHANGED <<settings, shown, mine>> /\ edits' \in Edits
    BY <1>4 DEF Discard, Edits, NoEdits
  <2> QED
    BY <1>0, <2>1, <2>2 DEF FormInv
<1>b. ASSUME LeaveSettings PROVE FormInv' /\ SaveInv'
  <2>1. SaveInv'
    BY <1>0, <1>b, SaveKept DEF LeaveSettings
  <2>2. UNCHANGED <<settings, shown>> /\ edits' \in Edits /\ mine' \in BOOLEAN
    BY <1>b DEF LeaveSettings, Edits, NoEdits
  <2> QED
    BY <1>0, <2>1, <2>2 DEF FormInv
<1>5. ASSUME LoadSettings PROVE FormInv' /\ SaveInv'
  <2>1. SaveInv'
    BY <1>0, <1>5, SaveKept DEF LoadSettings
  <2>2. UNCHANGED <<settings, edits, mine>> /\ shown' = settings
    BY <1>5 DEF LoadSettings
  <2> QED
    BY <1>0, <2>1, <2>2 DEF FormInv
<1>6. ASSUME SaveSettings PROVE FormInv' /\ SaveInv'
  BY <1>0, <1>6, SaveSettingsKeeps DEF SaveSettings, FormInv
<1>7. ASSUME NEW k \in Key, SendSetting(k) PROVE FormInv' /\ SaveInv'
  <2>1. call' \in [key : Key, stage : {"sent", "written"}] /\ call'.key \in todo
    BY <1>7 DEF SendSetting
  <2> QED
    BY <1>0, <1>7, <2>1, FormKept DEF SendSetting, SaveInv, Batched
<1>8. ASSUME SetSetting PROVE FormInv' /\ SaveInv'
  <2>1. call # NoCall /\ call \in [key : Key, stage : {"sent", "written"}]
    BY <1>0, <1>8 DEF SetSetting, SaveInv, NoCall
  <2>2. settings' \in [Key -> Value]
    BY <1>0, <1>8, <2>1, CallIsOfTheSave DEF SetSetting, FormInv
  <2>3. call' \in [key : Key, stage : {"sent", "written"}] /\ call'.key = call.key
    BY <1>8, <2>1 DEF SetSetting
  <2>4. SaveInv'
    BY <1>0, <1>8, <2>1, <2>3 DEF SetSetting, SaveInv, Batched
  <2> QED
    BY <1>0, <1>8, <2>2, <2>4 DEF SetSetting, FormInv, form
<1>9. ASSUME SettingAnswered PROVE FormInv' /\ SaveInv'
  <2>1. edits' \in {edits, NoEdits} /\ UNCHANGED <<settings, shown, mine>>
    BY <1>9 DEF SettingAnswered
  <2> QED
    BY <1>0, <1>9, <2>1, SettingAnsweredKeeps DEF FormInv, Edits, NoEdits
<1>10. FormInv' /\ SaveInv'
  BY <1>3, <1>4, <1>b, <1>5, <1>6, <1>7, <1>8, <1>9 DEF SettingsStep
<1> QED
  BY <1>2, <1>10 DEF IInv

-----------------------------------------------------------------------------
(* The theorems.                                                            *)

LEMMA Inductive == IInv /\ [Next]_vars => IInv'
<1> SUFFICES ASSUME IInv, [Next]_vars PROVE IInv'
  OBVIOUS
<1>1. CASE UNCHANGED vars
  BY <1>1, SessionsKept, QueriesKept, FormKept, SaveKept DEF vars, IInv, sessions
<1> QED
  BY <1>1, QueryStepKeeps, SessionStepKeeps, SettingsStepKeeps
     DEF Next, QueryStep, SessionStep, SettingsStep

LEMMA InvariantHolds == Spec => []IInv
BY InitHolds, Inductive, PTL DEF Spec

\* Every variable keeps its type: what is cached, typed and saved is of the domains above.
THEOREM TypeCorrect == Spec => []TypeOK
<1>1. IInv => TypeOK
  BY DEF IInv, SessionsInv, QueriesInv, AllSince, FormInv, SaveInv, TypeOK
<1> QED
  BY <1>1, InvariantHolds, PTL

\* No answer read before the last sign-in is shown after it (HousekeepingLoginPage resets the
\* queries), whatever was under way when the two calls of the sign-in completed.
THEOREM AnswersAreOfThisSignIn == Spec => []NothingSurvivesSignIn
<1>1. IInv => NothingSurvivesSignIn
  BY DEF IInv, QueriesInv, AllSince, ReadSince, NothingSurvivesSignIn
<1> QED
  BY <1>1, InvariantHolds, PTL

\* A save that ends has tried every key it set out with and reports each once, however
\* many of them failed and whatever was typed meanwhile (AdminSettingsPage's loop).
THEOREM SavesReportEveryKey == Spec => EveryKeyIsReported
<1> DEFINE Reported ==
      todo # {} /\ todo' = {} =>
          /\ outcome'.saved \cup outcome'.failed = {k \in Key : batch[k] # Unchanged}
          /\ outcome'.saved \cap outcome'.failed = {}
<1>1. IInv /\ [Next]_vars => [Reported]_vars
  <2> SUFFICES ASSUME IInv, [Next]_vars, todo # {}, todo' = {}
               PROVE  Reported
    OBVIOUS
  <2>1. SettingAnswered
    <3>1. todo' # todo
      OBVIOUS
    <3> QED
      BY <3>1 DEF Next, vars, saving, VisitPanel, GoToSignIn, SignOut, SignedOut, SessionExpires,
         SubmitSignIn, AdminLogin, AdminStaffLogin, SignInFails, FetchMe,
         QueryAnswers, QueryFails, Edit, SendSetting, Discard, LeaveSettings, LoadSettings, SaveSettings,
         SetSetting
  <2> QED
    BY <2>1, SettingAnsweredKeeps DEF IInv, Batched
<1>2. [][Reported]_vars => EveryKeyIsReported
  BY DEF EveryKeyIsReported
<1> QED
  BY <1>1, <1>2, InvariantHolds, PTL DEF Spec

-----------------------------------------------------------------------------
(* The gate waits for something.                                            *)

Pends(state) == state.data = Nobody /\ ~state.error

\* What the gate waits for is being asked for.
AskedFor(qs) ==
    /\ Pends(qs["me"]) => qs["me"].fetch # "idle"
    /\ IsStaff(qs["me"].data) /\ Pends(qs["session"]) => qs["session"].fetch # "idle"

\* On the panel; and what the server answered a fetch with is somebody.
AskedInv ==
    /\ screen = "panel" => AskedFor(queries)
    /\ \A q \in Query : queries[q].fetch = "answered" => queries[q].got # Nobody

LEMMA AsksAsks ==
    ASSUME NEW state \in QueryState
    PROVE  Asks(state).fetch = "asked" /\ Asks(state).data = state.data
BY DEF Asks, QueryState

LEMMA UseMeAsks ==
    ASSUME NEW qs \in [Query -> QueryState]
    PROVE  /\ UseMe(qs)["me"].fetch # "idle" /\ UseMe(qs)["me"].data = qs["me"].data
           /\ \A q \in Query : \/ UseMe(qs)[q] = qs[q]
                              \/ UseMe(qs)[q].fetch = "asked"
<1> DEFINE asked == Asks(qs["me"])
<1>1. asked.fetch = "asked" /\ asked.data = qs["me"].data
  BY AsksAsks DEF Query
<1>2. "me" \in Query
  BY DEF Query
<1> HIDE DEF asked
<1> QED
  BY <1>1, <1>2 DEF UseMe, asked

LEMMA UseAdminSessionAsks ==
    ASSUME NEW qs \in [Query -> QueryState]
    PROVE  /\ UseAdminSession(qs)["me"] = qs["me"]
           /\ IsStaff(qs["me"].data) => UseAdminSession(qs)["session"].fetch # "idle"
           /\ \A q \in Query : \/ UseAdminSession(qs)[q] = qs[q]
                              \/ UseAdminSession(qs)[q].fetch = "asked"
<1> DEFINE asked == Asks(qs["session"])
<1>1. asked.fetch = "asked"
  BY AsksAsks DEF Query
<1>2. "me" \in Query /\ "session" \in Query /\ "me" # "session"
  BY DEF Query
<1> HIDE DEF asked
<1> QED
  BY <1>1, <1>2 DEF UseAdminSession, asked

\* One query changes: it is asked, or it has its answer or its error; the other session is
\* asked for by whoever is found to be staff.
LEMMA OneAsked ==
    ASSUME AskedInv, queries \in [Query -> QueryState], NEW q \in Query, NEW state,
           queries' = [queries EXCEPT ![q] = state], UNCHANGED screen,
           \/ state.fetch # "idle"
           \/ state.data # Nobody \/ state.error,
           q = "me" /\ screen = "panel" /\ IsStaff(state.data) => IsStaffByRank,
           state.fetch = "answered" => state.got # Nobody
    PROVE  AskedInv'
<1>1. \A r \in Query : queries'[r] = IF r = q THEN state ELSE queries[r]
  OBVIOUS
<1>2. "me" \in Query /\ "session" \in Query
  BY DEF Query
<1> QED
  BY <1>1, <1>2 DEF AskedInv, AskedFor, Pends, IsStaffByRank, Me

LEMMA QueryStepAsked ==
    ASSUME IInv, AskedInv, QueryStep
    PROVE  AskedInv'
<1>0. /\ queries \in [Query -> QueryState] /\ UNCHANGED screen
      /\ \A q \in Query : queries[q] \in QueryState
  BY DEF IInv, QueriesInv, AllSince, QueryStep, FetchMe, QueryAnswers, QueryFails
<1>2. ASSUME NEW q \in Query, FetchMe(q) PROVE AskedInv'
  <2> DEFINE read == [queries[q] EXCEPT
                        !.fetch = IF Holder(q) = Nobody THEN "refused" ELSE "answered",
                        !.got = Holder(q), !.at = signIns]
  <2>1. /\ read.fetch = IF Holder(q) = Nobody THEN "refused" ELSE "answered"
        /\ read.got = Holder(q) /\ read.data = queries[q].data
    BY <1>0 DEF QueryState
  <2>2. queries' = [queries EXCEPT ![q] = read]
    BY <1>0, <1>2 DEF FetchMe, QueryState
  <2> HIDE DEF read
  <2> QED
    BY <1>0, <2>1, <2>2, OneAsked DEF IsStaffByRank, Me
<1>3. ASSUME NEW q \in Query, QueryAnswers(q) PROVE AskedInv'
  <2> DEFINE state == [Fresh EXCEPT !.data = queries[q].got, !.since = queries[q].at]
             read == [queries EXCEPT ![q] = state]
  <2>1. queries[q].got # Nobody
    BY <1>3 DEF QueryAnswers, AskedInv
  <2>2. state.data # Nobody /\ state.fetch = "idle"
    BY <2>1 DEF Fresh
  <2>3. CASE q = "me" /\ screen = "panel" /\ ~IsStaffByRank
    <3>1. queries' = UseAdminSession(read)
      BY <1>3, <2>3 DEF QueryAnswers
    <3>2. read \in [Query -> QueryState]
      <4>1. /\ Fresh \in QueryState
            /\ queries[q].got \in Who /\ queries[q].at \in 0..MaxSignIns
        BY <1>0, FreshRead DEF QueryState, ReadSince
      <4>2. state \in QueryState
        BY <4>1 DEF QueryState
      <4> QED
        BY <1>0, <4>2
    <3> HIDE DEF state
    <3>3. /\ read["me"] = state /\ \A r \in Query : r # q => read[r] = queries[r]
      BY <1>0, <2>3
    <3> HIDE DEF read
    <3>4. "me" \in Query /\ "session" \in Query
      BY DEF Query
    <3> QED
      BY <1>0, <2>2, <2>3, <3>1, <3>2, <3>3, <3>4, UseAdminSessionAsks
         DEF AskedInv, AskedFor, Pends
  <2>4. CASE ~(q = "me" /\ screen = "panel" /\ ~IsStaffByRank)
    <3>1. queries' = read
      BY <1>3, <2>4 DEF QueryAnswers
    <3> HIDE DEF state
    <3> QED
      BY <1>0, <2>2, <2>4, <3>1, OneAsked
  <2> QED
    BY <2>3, <2>4
<1>4. ASSUME NEW q \in Query, QueryFails(q) PROVE AskedInv'
  <2> DEFINE state == queries[q]
             again == [state EXCEPT !.fetch = "asked", !.tries = @ + 1,
                                    !.got = Nobody, !.at = 0]
             over == [Fresh EXCEPT !.data = state.data, !.since = state.since, !.error = TRUE]
             next == IF RetryAdmin(state, state.fetch = "refused") THEN again ELSE over
  <2>1. /\ again.fetch = "asked" /\ over.error = TRUE /\ over.fetch = "idle"
        /\ again.data = queries[q].data /\ over.data = queries[q].data
    BY <1>0 DEF QueryState, Fresh
  <2>2. next \in {again, over}
    OBVIOUS
  <2>3. queries' = [queries EXCEPT ![q] = next]
    BY <1>4 DEF QueryFails
  <2> HIDE DEF again, over, next
  <2> QED
    BY <1>0, <2>1, <2>2, <2>3, OneAsked DEF IsStaffByRank, Me
<1> QED
  BY <1>2, <1>3, <1>4 DEF QueryStep

LEMMA SessionStepAsked ==
    ASSUME IInv, AskedInv, SessionStep
    PROVE  AskedInv'
<1>0. /\ queries \in [Query -> QueryState] /\ "me" \in Query /\ "session" \in Query
      /\ \A q \in Query : queries[q] \in QueryState
  BY DEF IInv, QueriesInv, AllSince, Query
<1>1. CASE VisitPanel
  <2> DEFINE mid == UseMe(queries)
  <2>1. AllSince(mid, signIns) /\ mid \in [Query -> QueryState]
    BY UseMeRead DEF IInv, QueriesInv, AllSince
  <2>2. queries' = UseAdminSession(mid) /\ screen' = "panel"
    BY <1>1 DEF VisitPanel
  <2>3. /\ mid["me"].fetch # "idle"
        /\ \A q \in Query : mid[q] = queries[q] \/ mid[q].fetch = "asked"
    BY <1>0, UseMeAsks
  <2> HIDE DEF mid
  <2> QED
    BY <1>0, <2>1, <2>2, <2>3, UseAdminSessionAsks DEF AskedInv, AskedFor
<1>2. CASE AdminStaffLogin
  <2>1. /\ Fresh \in QueryState /\ Fresh.data = Nobody /\ Fresh.fetch = "idle"
    BY FreshRead DEF ReadSince, Fresh
  <2>2. Asks(Fresh).fetch = "asked" /\ Asks(Fresh).data = Nobody
    BY <2>1, AsksAsks
  <2>3. /\ queries'["me"] = Asks(Fresh)
        /\ \A q \in Query : queries'[q] \in {Fresh, Asks(Fresh)}
    BY <1>0, <1>2 DEF AdminStaffLogin, ResetQueries
  <2> QED
    BY <1>0, <2>1, <2>2, <2>3 DEF AskedInv, AskedFor, IsStaff
<1>3. CASE SignedOut
  <2>1. screen' = "login" /\ queries' = Cleared
    BY <1>3 DEF SignedOut
  <2>2. ASSUME NEW q \in Query
        PROVE  queries'[q].fetch = queries[q].fetch /\ queries'[q].got = queries[q].got
    BY <1>0, <2>1 DEF Cleared, QueryState
  <2> QED
    BY <2>1, <2>2 DEF AskedInv
<1>4. CASE GoToSignIn
  BY <1>4 DEF GoToSignIn, AskedInv
<1>5. CASE SignOut \/ SessionExpires \/ AdminLogin \/ SignInFails \/ \E o \in Operator : SubmitSignIn(o)
  <2>1. UNCHANGED <<queries, screen>>
    BY <1>5 DEF SignOut, SessionExpires, AdminLogin, SignInFails, SubmitSignIn
  <2> QED
    BY <2>1 DEF AskedInv
<1> QED
  BY <1>1, <1>2, <1>3, <1>4, <1>5 DEF SessionStep

\* The gate never says "Checking your staff session" for want of a question: whatever the
\* panel waits for has been asked for (useMe as AdminLayout mounts, useAdminSession once
\* the first answer names staff), also after a sign-in or a sign-out threw away what was
\* cached or under way.
THEOREM PanelHasAsked ==
    Spec => [](\A q \in Query : Watched(q) /\ Loading(q) => queries[q].fetch # "idle")
<1>1. Init => AskedInv
  BY DEF Init, AskedInv, Fresh
<1>2. IInv /\ AskedInv /\ [Next]_vars => AskedInv'
  <2> SUFFICES ASSUME IInv, AskedInv, [Next]_vars PROVE AskedInv'
    OBVIOUS
  <2>1. CASE SettingsStep \/ UNCHANGED vars
    <3>1. UNCHANGED <<queries, screen>>
      BY <2>1 DEF SettingsStep, Edit, SendSetting, Discard, LeaveSettings, LoadSettings,
         SaveSettings, SetSetting, SettingAnswered, vars
    <3> QED
      BY <3>1 DEF AskedInv
  <2> QED
    BY <2>1, QueryStepAsked, SessionStepAsked
       DEF Next, QueryStep, SessionStep, SettingsStep
<1>3. AskedInv => \A q \in Query : Watched(q) /\ Loading(q) => queries[q].fetch # "idle"
  BY DEF AskedInv, AskedFor, Pends, Watched, Loading, IsStaffByRank, Me, Query
<1> QED
  BY <1>1, <1>2, <1>3, InvariantHolds, PTL DEF Spec
=============================================================================
