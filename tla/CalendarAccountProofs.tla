------------------------ MODULE CalendarAccountProofs ------------------------
(***************************************************************************)
(* Proofs about the calendar's account: that AccountConsistent holds and   *)
(* that AccountKeeps is kept, for any sign-ins and calendars.              *)
(***************************************************************************)
EXTENDS CalendarAccount, TLAPS

-----------------------------------------------------------------------------
(* The inductive invariant.                                                *)

\* Who may hold the lock, doing what: a synchronisation that has read an account, or
\* the sign-out.
CritShape ==
  \/ crit = Nobody
  \/ /\ crit.kind = "sync" /\ crit.step \in {"token", "request", "fetch", "forget"}
     /\ crit.by # "logout" /\ crit.by # None /\ crit.account \in Account
  \/ /\ crit.kind = "logout" /\ crit.by = "logout"
     /\ \/ crit.step = "token" /\ crit.account \in Account
        \/ crit.step \in {"revoke", "delete", "clear"}

\* No sign-in waits for a lock that is its own.
OnePlace == \A l \in Logins : l = crit.by => l \notin waiting

\* A calendar is on the screen once the list was there.
Unlisted == ~shown.listed => shown.on = {} /\ shown.events = {}

Legacy == file # None /\ file.legacy

\* While the file still has the old token, a synchronisation or a sign-out has read
\* it there, no account is being forgotten, and no sign-in has saved one.
LegacyWasRead ==
  Legacy => /\ crit.step = "token" => crit.account.legacy
            /\ crit.step # "forget"
            /\ \A l \in Logins : login[l] # "remember"

\* What makes the token in the file superfluous is in the keyring, until the sign-out
\* that deleted it has taken the file away as well.
SafelyMoved ==
  /\ Legacy /\ (mem.refresh \/ \E l \in Logins : login[l] = "answer") =>
       item \/ crit.step = "clear"
  /\ crit.step = "request" => mem.refresh

IInv == AccountConsistent /\ CritShape /\ OnePlace /\ Unlisted /\ LegacyWasRead /\ SafelyMoved

-----------------------------------------------------------------------------
(* The types.                                                              *)

\* Everything a step of the program may be.
LEMMA Cases ==
  ASSUME Next
  PROVE  \/ SetClient \/ CancelLogin \/ AskLogout \/ LogoutStart \/ Restart
         \/ \E l \in Logins : BeginLogin(l)
         \/ \E l \in Logins : \/ Authorize(l) \/ BeginFails(l) \/ CodeArrives(l) \/ StoreToken(l)
                              \/ SaveAccount(l) \/ Remember(l) \/ LoginFails(l)
         \/ \E by \in Askers : AskSync(by)
         \/ \E by \in waiting : SyncNothing(by) \/ SyncStart(by)
         \/ \E c \in Calendars, enabled \in BOOLEAN : SetCalendar(c, enabled)
         \/ UseAccess \/ RefreshToken \/ RequestAccess \/ FetchDone \/ FetchFails
         \/ Forget \/ Revoke \/ DeleteToken \/ LogoutDone
BY DEF Next, LoginStep, LockStart, LockStep


\* What the steps do to the record on the screen.
LEMMA ViewKept ==
  ASSUME NEW s \in View
  PROVE  /\ Blank \in View
         /\ \A st \in {"idle", "authorizing", "syncing"} : [s EXCEPT !.status = st] \in View
         /\ \A b \in BOOLEAN : [s EXCEPT !.locked = b] \in View
         /\ \A on, events \in SUBSET Calendars, locked, listed \in BOOLEAN :
              /\ [s EXCEPT !.listed = listed, !.on = on, !.events = events] \in View
              /\ [s EXCEPT !.on = on, !.events = events] \in View
              /\ [s EXCEPT !.locked = locked, !.listed = listed, !.on = on, !.events = events] \in View
         /\ s.status \in {"idle", "authorizing", "syncing"} /\ s.on \subseteq Calendars
         /\ s.events \subseteq Calendars /\ s.locked \in BOOLEAN /\ s.listed \in BOOLEAN
         /\ Settled(s) \in View
BY DEF View, Blank, Settled

\* ... to the account on the disk ...
LEMMA AccountKept ==
  ASSUME NEW a \in Account
  PROVE  /\ [a EXCEPT !.legacy = FALSE] \in Account
         /\ [a EXCEPT !.email = TRUE] \in Account
         /\ \A c \in Calendars : [a EXCEPT !.on = @ \cup {c}] \in Account
                                 /\ [a EXCEPT !.on = @ \ {c}] \in Account
         /\ a.on \subseteq Calendars
BY DEF Account

\* ... and to the record of who holds the lock.
LEMMA HolderKept ==
  ASSUME NEW h \in Holder
  PROVE  /\ Nobody \in Holder
         /\ \A st \in {"fetch", "forget", "request", "revoke", "delete", "clear"} :
              [h EXCEPT !.step = st] \in Holder
BY DEF Holder, Nobody

\* A synchronisation that fails keeps the record on the screen one.
LEMMA FailsView ==
  ASSUME NEW r, SyncFails(r), shown \in View
  PROVE  shown' \in View
<1>1. shown.locked \in BOOLEAN
  BY ViewKept
<1>2. CASE r \in {"network", "broken"}
  <2>1. shown' = Settled([shown EXCEPT !.locked = shown.locked])
    BY <1>2 DEF SyncFails, SyncEnd
  <2> QED
    BY <2>1, <1>1, ViewKept
<1>3. CASE r \in {"locked", "dismissed"}
  <2>1. shown' = Settled([shown EXCEPT !.locked = TRUE])
    BY <1>3 DEF SyncFails, SyncEnd
  <2> QED
    BY <2>1, ViewKept
<1>4. CASE r \notin {"network", "broken", "locked", "dismissed"}
  <2>0. (r \in {"locked", "dismissed"}) = FALSE /\ r \notin {"network", "broken"}
    BY <1>4
  <2>1. shown' = Settled([shown EXCEPT !.locked = FALSE])
    BY <2>0, Zenon DEF SyncFails, SyncEnd
  <2> QED
    BY <2>1, ViewKept
<1> QED
  BY <1>2, <1>3, <1>4

\* Every step keeps the types.
LEMMA TypeStep ==
  ASSUME TypeOK, CritShape, [Next]_vars
  PROVE  TypeOK'
<1>t. /\ file \in Account \cup {None} /\ item \in BOOLEAN /\ configured \in BOOLEAN
      /\ mem \in [access: BOOLEAN, refresh: BOOLEAN]
      /\ shown \in View /\ told \in {"yes", "no", "missed"}
      /\ login \in [Logins -> Standing] /\ handle \in Logins \cup {None}
      /\ waiting \subseteq {"background", "refresh", "logout"} \cup Logins
      /\ crit \in Holder
  BY DEF TypeOK
<1>v. /\ Blank \in View /\ Settled(shown) \in View
      /\ shown.status \in {"idle", "authorizing", "syncing"} /\ shown.on \subseteq Calendars
      /\ shown.events \subseteq Calendars /\ shown.locked \in BOOLEAN /\ shown.listed \in BOOLEAN
  BY <1>t, ViewKept
<1>1. CASE SetClient
  BY <1>1 DEF TypeOK, SetClient, Publish
<1>2. CASE CancelLogin
  <2>1. shown' \in View
    BY <1>2, <1>t, ViewKept DEF CancelLogin, StopLogin
  <2>2. crit' \in Holder
    BY <1>2, <1>t, HolderKept DEF CancelLogin, StopLogin
  <2>3. login' \in [Logins -> Standing]
    BY <1>2, <1>t DEF CancelLogin, StopLogin, Stopped, Standing
  <2> QED
    BY <2>1, <2>2, <2>3, <1>2 DEF TypeOK, CancelLogin, StopLogin, Publish, outside
<1>3. CASE AskLogout
  <2>1. shown' \in View
    BY <1>3, <1>t, ViewKept DEF AskLogout, StopLogin
  <2>2. crit' \in Holder
    BY <1>3, <1>t, HolderKept DEF AskLogout, StopLogin
  <2>3. login' \in [Logins -> Standing]
    BY <1>3, <1>t DEF AskLogout, StopLogin, Stopped, Standing
  <2>4. waiting' \subseteq {"background", "refresh", "logout"} \cup Logins
    BY <1>3, <1>t DEF AskLogout, StopLogin
  <2> QED
    BY <2>1, <2>2, <2>3, <2>4, <1>3 DEF TypeOK, AskLogout, StopLogin, Unpublished, outside
<1>4. CASE LogoutStart
  <2>1. crit' \in Holder
    BY <1>4, <1>t DEF LogoutStart, LockFor, Holder
  <2> QED
    BY <2>1, <1>4 DEF TypeOK, LogoutStart, LockFor, outside
<1>5. CASE Restart
  <2>1. shown' \in View
    BY <1>5, <1>t, ViewKept DEF Restart
  <2>2. crit' \in Holder
    BY <1>5, <1>t, HolderKept DEF Restart
  <2>3. login' \in [Logins -> Standing]
    BY <1>5 DEF Restart, Standing
  <2>4. mem' \in [access: BOOLEAN, refresh: BOOLEAN]
    BY <1>5 DEF Restart, Forgotten
  <2> QED
    BY <2>1, <2>2, <2>3, <2>4, <1>5 DEF TypeOK, Restart, Publish, outside
<1>6. ASSUME NEW l \in Logins, BeginLogin(l) PROVE TypeOK'
  <2>1. shown' \in View
    BY <1>6, <1>t, ViewKept DEF BeginLogin, StopLogin
  <2>2. crit' \in Holder
    BY <1>6, <1>t, HolderKept DEF BeginLogin, StopLogin
  <2>3. login' \in [Logins -> Standing]
    BY <1>6, <1>t DEF BeginLogin, StopLogin, Stopped, Standing
  <2> QED
    BY <2>1, <2>2, <2>3, <1>6 DEF TypeOK, BeginLogin, StopLogin, outside
<1>7. ASSUME NEW l \in Logins, Authorize(l) PROVE TypeOK'
  <2>1. shown' \in View
    BY <1>7, <1>t, ViewKept DEF Authorize
  <2>2. login' \in [Logins -> Standing]
    BY <1>7, <1>t DEF Authorize, Standing
  <2> QED
    BY <2>1, <2>2, <1>7 DEF TypeOK, Authorize, Publish, outside
<1>8. ASSUME NEW l \in Logins, CodeArrives(l) PROVE TypeOK'
  <2>1. login' \in [Logins -> Standing]
    BY <1>8, <1>t DEF CodeArrives, Standing
  <2> QED
    BY <2>1, <1>8 DEF TypeOK, CodeArrives, outside
<1>9. ASSUME NEW l \in Logins, StoreToken(l) PROVE TypeOK'
  <2>1. login' \in [Logins -> Standing]
    BY <1>9, <1>t DEF StoreToken, Standing
  <2> QED
    BY <2>1, <1>9 DEF TypeOK, StoreToken
<1>10. ASSUME NEW l \in Logins, SaveAccount(l) PROVE TypeOK'
  <2>1. file' \in Account \cup {None}
    <3>1. CASE file = None
      BY <1>10, <3>1, SelectedAssumption DEF SaveAccount, Account
    <3>2. CASE file # None
      BY <1>10, <1>t, <3>2, AccountKept DEF SaveAccount
    <3> QED
      BY <3>1, <3>2
  <2>2. login' \in [Logins -> Standing]
    BY <1>10, <1>t DEF SaveAccount, Standing
  <2> QED
    BY <2>1, <2>2, <1>10 DEF TypeOK, SaveAccount, Unpublished, outside
<1>11. ASSUME NEW l \in Logins, Remember(l) PROVE TypeOK'
  <2>1. shown' \in View
    BY <1>11, <1>t, ViewKept DEF Remember
  <2>2. login' \in [Logins -> Standing]
    BY <1>11, <1>t DEF Remember, Standing
  <2>3. waiting' \subseteq {"background", "refresh", "logout"} \cup Logins
    BY <1>11, <1>t DEF Remember
  <2>4. mem' \in [access: BOOLEAN, refresh: BOOLEAN]
    BY <1>11 DEF Remember
  <2> QED
    BY <2>1, <2>2, <2>3, <2>4, <1>11 DEF TypeOK, Remember, Unpublished, outside
<1>12. ASSUME NEW l \in Logins, LoginFails(l) PROVE TypeOK'
  <2>1. shown' \in View
    BY <1>12, <1>t, ViewKept DEF LoginFails, Over
  <2>2. login' \in [Logins -> Standing]
    BY <1>12, <1>t DEF LoginFails, Over, Standing
  <2> QED
    BY <2>1, <2>2, <1>12 DEF TypeOK, LoginFails, Over, Publish, outside
<1>27. ASSUME NEW l \in Logins, BeginFails(l) PROVE TypeOK'
  <2>1. login' \in [Logins -> Standing]
    BY <1>27, <1>t DEF BeginFails, Over, Standing
  <2> QED
    BY <2>1, <1>27 DEF TypeOK, BeginFails, outside
<1>13. ASSUME NEW by \in Askers, AskSync(by) PROVE TypeOK'
  <2>1. waiting' \subseteq {"background", "refresh", "logout"} \cup Logins
    BY <1>13, <1>t, AskersAssumption DEF AskSync
  <2> QED
    BY <2>1, <1>13 DEF TypeOK, AskSync, outside
<1>14. ASSUME NEW by \in waiting, SyncNothing(by) PROVE TypeOK'
  <2>1. shown' \in View
    BY <1>14, <1>t, ViewKept DEF SyncNothing, LockFor
  <2>2. login' \in [Logins -> Standing]
    BY <1>14, <1>t DEF SyncNothing, LockFor, Standing
  <2> QED
    BY <2>1, <2>2, <1>14 DEF TypeOK, SyncNothing, LockFor, Publish, outside
<1>15. ASSUME NEW by \in waiting, SyncStart(by) PROVE TypeOK'
  <2>1. shown' \in View
    BY <1>15, <1>t, ViewKept DEF SyncStart, LockFor
  <2>2. crit' \in Holder
    BY <1>15, <1>t DEF SyncStart, LockFor, Holder
  <2> QED
    BY <2>1, <2>2, <1>15 DEF TypeOK, SyncStart, LockFor, Publish, outside
<1>16. ASSUME NEW c \in Calendars, NEW enabled \in BOOLEAN, SetCalendar(c, enabled) PROVE TypeOK'
  <2>1. shown' \in View
    <3>1. PICK on, events \in SUBSET Calendars : shown' = [shown EXCEPT !.on = on, !.events = events]
      BY <1>16, <1>v DEF SetCalendar
    <3> QED
      BY <3>1, <1>t, ViewKept
  <2>2. file' \in Account \cup {None}
    BY <1>16, <1>t, AccountKept DEF SetCalendar
  <2>3. waiting' \subseteq {"background", "refresh", "logout"} \cup Logins
    BY <1>16, <1>t DEF SetCalendar
  <2> QED
    BY <2>1, <2>2, <2>3, <1>16 DEF TypeOK, SetCalendar, Publish, outside
<1>17. CASE UseAccess
  <2>1. crit' \in Holder
    BY <1>17, <1>t, HolderKept DEF UseAccess
  <2> QED
    BY <2>1, <1>17 DEF TypeOK, UseAccess, outside
<1>18. CASE RefreshToken
  <2>1. shown' \in View
    <3>1. CASE shown' = shown
      BY <3>1, <1>t
    <3>2. CASE \E x : SyncFails(x)
      BY <3>2, <1>t, FailsView
    <3> QED
      BY <1>18, <3>1, <3>2 DEF RefreshToken, HaveToken, NoToken, Expire
  <2>2. crit' \in Holder
    BY <1>18, <1>t, HolderKept
      DEF RefreshToken, HaveToken, NoToken, Expire, SyncFails, SyncEnd
  <2>3. login' \in [Logins -> Standing]
    BY <1>18, <1>t
      DEF RefreshToken, HaveToken, NoToken, Expire, SyncFails, SyncEnd, Standing
  <2>4. file' \in Account \cup {None}
    <3>1. file' = file \/ file' = None \/ (file # None /\ file' = [file EXCEPT !.legacy = FALSE])
      BY <1>18 DEF RefreshToken, HaveToken, NoToken, Expire, SyncFails
    <3> QED
      BY <3>1, <1>t, AccountKept
  <2>5. mem' \in [access: BOOLEAN, refresh: BOOLEAN]
    BY <1>18, <1>t DEF RefreshToken, HaveToken, NoToken, Expire
  <2> QED
    BY <2>1, <2>2, <2>3, <2>4, <2>5, <1>18
      DEF TypeOK, RefreshToken, HaveToken, NoToken, Expire, SyncFails, SyncEnd, Publish,
          Unpublished, outside
<1>19. CASE RequestAccess
  <2>1. shown' \in View
    <3>1. CASE shown' = shown
      BY <3>1, <1>t
    <3>2. CASE \E x : SyncFails(x)
      BY <3>2, <1>t, FailsView
    <3> QED
      BY <1>19, <3>1, <3>2 DEF RequestAccess, Expire
  <2>2. crit' \in Holder
    BY <1>19, <1>t, HolderKept DEF RequestAccess, Expire, SyncFails, SyncEnd
  <2>3. login' \in [Logins -> Standing]
    BY <1>19, <1>t DEF RequestAccess, Expire, SyncFails, SyncEnd, Standing
  <2>4. file' \in Account \cup {None}
    BY <1>19, <1>t, AccountKept DEF RequestAccess, Expire, SyncFails
  <2>5. mem' \in [access: BOOLEAN, refresh: BOOLEAN]
    BY <1>19, <1>t DEF RequestAccess, Expire
  <2> QED
    BY <2>1, <2>2, <2>3, <2>4, <2>5, <1>19
      DEF TypeOK, RequestAccess, Expire, SyncFails, SyncEnd, Publish, Unpublished,
          outside
<1>20. CASE FetchDone
  <2>1. shown' \in View
    <3>1. crit.kind = "sync" /\ crit.account \in Account
      BY <1>20 DEF CritShape, FetchDone, At, Nobody
    <3>2. PICK on, got \in SUBSET Calendars :
            shown' = Settled([shown EXCEPT !.locked = FALSE, !.listed = TRUE, !.on = on, !.events = got])
      BY <1>20, <3>1, AccountKept DEF FetchDone, SyncEnd
    <3>3. [shown EXCEPT !.locked = FALSE, !.listed = TRUE, !.on = on, !.events = got] \in View
      BY <1>t, ViewKept
    <3> QED
      BY <3>2, <3>3, ViewKept
  <2>2. crit' \in Holder
    BY <1>20, <1>t, HolderKept DEF FetchDone, SyncEnd
  <2>3. login' \in [Logins -> Standing]
    BY <1>20, <1>t DEF FetchDone, SyncEnd, Standing
  <2>4. file' \in Account \cup {None}
    BY <1>20, <1>t, AccountKept DEF FetchDone
  <2> QED
    BY <2>1, <2>2, <2>3, <2>4, <1>20 DEF TypeOK, FetchDone, SyncEnd, Publish, outside
<1>21. CASE FetchFails
  <2>1. shown' \in View
    BY <1>21, <1>t, ViewKept DEF FetchFails, SyncFails, SyncEnd
  <2>2. crit' \in Holder
    BY <1>21, <1>t, HolderKept DEF FetchFails, SyncFails, SyncEnd
  <2>3. login' \in [Logins -> Standing]
    BY <1>21, <1>t DEF FetchFails, SyncFails, SyncEnd, Standing
  <2>4. mem' \in [access: BOOLEAN, refresh: BOOLEAN]
    BY <1>21, <1>t DEF FetchFails
  <2> QED
    BY <2>1, <2>2, <2>3, <2>4, <1>21
      DEF TypeOK, FetchFails, SyncFails, SyncEnd, Publish, outside
<1>22. CASE Forget
  <2>1. shown' \in View
    BY <1>22, <1>t, ViewKept DEF Forget, SyncEnd
  <2>2. crit' \in Holder
    BY <1>22, <1>t, HolderKept DEF Forget, SyncEnd
  <2>3. login' \in [Logins -> Standing]
    BY <1>22, <1>t DEF Forget, SyncEnd, Standing
  <2>4. mem' \in [access: BOOLEAN, refresh: BOOLEAN]
    BY <1>22 DEF Forget, Forgotten
  <2> QED
    BY <2>1, <2>2, <2>3, <2>4, <1>22 DEF TypeOK, Forget, SyncEnd, Publish
<1>23. CASE Revoke
  <2>1. crit' \in Holder
    BY <1>23, <1>t, HolderKept DEF Revoke
  <2> QED
    BY <2>1, <1>23 DEF TypeOK, Revoke, outside
<1>24. CASE DeleteToken
  <2>1. crit' \in Holder
    BY <1>24, <1>t, HolderKept DEF DeleteToken
  <2> QED
    BY <2>1, <1>24 DEF TypeOK, DeleteToken
<1>25. CASE LogoutDone
  <2>1. shown' \in View
    BY <1>25, <1>t, ViewKept DEF LogoutDone
  <2>2. crit' \in Holder
    BY <1>25, <1>t, HolderKept DEF LogoutDone
  <2>3. mem' \in [access: BOOLEAN, refresh: BOOLEAN]
    BY <1>25 DEF LogoutDone, Forgotten
  <2> QED
    BY <2>1, <2>2, <2>3, <1>25 DEF TypeOK, LogoutDone, Publish, outside
<1>26. CASE UNCHANGED vars
  BY <1>26 DEF TypeOK, vars
<1> QED
  BY <1>1, <1>2, <1>3, <1>4, <1>5, <1>6, <1>7, <1>8, <1>9, <1>10, <1>11, <1>12, <1>13,
     <1>14, <1>15, <1>16, <1>17, <1>18, <1>19, <1>20, <1>21, <1>22, <1>23, <1>24, <1>25,
     <1>26, <1>27, Cases

-----------------------------------------------------------------------------
(* Who holds the lock, and who waits for it.                               *)

\* What a lookup of the refresh token, or a request for an access token, comes to.
LEMMA TokenOutcome ==
  ASSUME CritShape, RefreshToken \/ RequestAccess
  PROVE  /\ \/ crit.kind = "sync" /\ crit.account \in Account
            \/ crit.kind = "logout" /\ crit.step = "token" /\ crit.account \in Account
         /\ \/ crit.kind = "sync" /\ \E r : SyncFails(r)
            \/ crit.kind = "sync" /\ Expire
            \/ crit.kind = "sync" /\ crit' = [crit EXCEPT !.step = "request"]
               /\ UNCHANGED <<shown, told, login, waiting>>
            \/ crit.kind = "sync" /\ crit' = [crit EXCEPT !.step = "fetch"]
               /\ UNCHANGED <<shown, told, login, waiting>>
            \/ crit.kind = "logout" /\ crit' = [crit EXCEPT !.step = "revoke"]
               /\ UNCHANGED <<shown, told, login, waiting>>
            \/ crit.kind = "logout" /\ crit' = [crit EXCEPT !.step = "delete"]
               /\ UNCHANGED <<shown, told, login, waiting>>
<1>1. \/ crit.kind = "sync" /\ crit.account \in Account
      \/ crit.kind = "logout" /\ crit.step = "token" /\ crit.account \in Account
  BY DEF CritShape, Nobody, RefreshToken, RequestAccess, At
<1>2. CASE RefreshToken
  <2>1. HaveToken \/ (\E r : NoToken(r)) \/ (crit.kind = "sync" /\ Expire)
    BY <1>2 DEF RefreshToken
  <2>2. CASE HaveToken
    BY <1>1, <2>2 DEF HaveToken
  <2>3. CASE \E r : NoToken(r)
    BY <1>1, <2>3 DEF NoToken
  <2> QED
    BY <1>1, <2>1, <2>2, <2>3
<1>3. CASE RequestAccess
  <2>1. crit.kind = "sync"
    BY <1>3 DEF CritShape, Nobody, RequestAccess, At
  <2> QED
    BY <1>1, <1>3, <2>1 DEF RequestAccess
<1> QED
  BY <1>2, <1>3

\* The lock is held by a synchronisation or by a sign-out, and each goes its own way.
LEMMA CritStep ==
  ASSUME TypeOK, CritShape, [Next]_vars
  PROVE  CritShape'
<1>t. /\ file \in Account \cup {None} /\ handle \in Logins \cup {None}
      /\ waiting \subseteq {"background", "refresh", "logout"} \cup Logins
      /\ crit \in Holder
  BY DEF TypeOK
<1>1. CASE SetClient
  BY <1>1 DEF CritShape, SetClient
<1>2. CASE CancelLogin
  BY <1>2 DEF CritShape, CancelLogin, StopLogin
<1>3. CASE AskLogout
  BY <1>3 DEF CritShape, AskLogout, StopLogin
<1>4. CASE LogoutStart
  BY <1>4, <1>t DEF CritShape, LogoutStart, LockFor
<1>5. CASE Restart
  BY <1>5 DEF CritShape, Restart
<1>6. ASSUME NEW l \in Logins, BeginLogin(l) PROVE CritShape'
  BY <1>6 DEF CritShape, BeginLogin, StopLogin
<1>7. ASSUME NEW l \in Logins, Authorize(l) PROVE CritShape'
  BY <1>7 DEF CritShape, Authorize
<1>8. ASSUME NEW l \in Logins, CodeArrives(l) PROVE CritShape'
  BY <1>8 DEF CritShape, CodeArrives
<1>9. ASSUME NEW l \in Logins, StoreToken(l) PROVE CritShape'
  BY <1>9 DEF CritShape, StoreToken
<1>10. ASSUME NEW l \in Logins, SaveAccount(l) PROVE CritShape'
  BY <1>10 DEF CritShape, SaveAccount
<1>11. ASSUME NEW l \in Logins, Remember(l) PROVE CritShape'
  BY <1>11 DEF CritShape, Remember
<1>12. ASSUME NEW l \in Logins, LoginFails(l) PROVE CritShape'
  BY <1>12 DEF CritShape, LoginFails, Over
<1>27. ASSUME NEW l \in Logins, BeginFails(l) PROVE CritShape'
  BY <1>27 DEF CritShape, BeginFails
<1>13. ASSUME NEW by \in Askers, AskSync(by) PROVE CritShape'
  BY <1>13 DEF CritShape, AskSync
<1>14. ASSUME NEW by \in waiting, SyncNothing(by) PROVE CritShape'
  BY <1>14 DEF CritShape, SyncNothing, LockFor
<1>15. ASSUME NEW by \in waiting, SyncStart(by) PROVE CritShape'
  BY <1>15, <1>t, NamesAssumption, NoneAssumption DEF CritShape, SyncStart, LockFor
<1>16. ASSUME NEW c \in Calendars, NEW enabled \in BOOLEAN, SetCalendar(c, enabled) PROVE CritShape'
  BY <1>16 DEF CritShape, SetCalendar
<1>17. CASE UseAccess
  BY <1>17 DEF CritShape, Nobody, UseAccess
<1>18. CASE RefreshToken \/ RequestAccess
  <2>1. CASE \E r : SyncFails(r)
    BY <2>1 DEF CritShape, SyncFails, SyncEnd
  <2>2. CASE Expire
    BY <1>18, <1>t, <2>2, TokenOutcome DEF CritShape, Nobody, Holder, Expire
  <2> QED
    BY <1>18, <1>t, <2>1, <2>2, TokenOutcome DEF CritShape, Nobody, Holder
<1>20. CASE FetchDone
  BY <1>20 DEF CritShape, FetchDone, SyncEnd
<1>21. CASE FetchFails
  BY <1>21 DEF CritShape, FetchFails, SyncFails, SyncEnd
<1>22. CASE Forget
  BY <1>22 DEF CritShape, Forget, SyncEnd
<1>23. CASE Revoke
  BY <1>23 DEF CritShape, Nobody, At, Revoke
<1>24. CASE DeleteToken
  BY <1>24 DEF CritShape, Nobody, At, DeleteToken
<1>25. CASE LogoutDone
  BY <1>25 DEF CritShape, LogoutDone
<1>26. CASE UNCHANGED vars
  BY <1>26 DEF CritShape, vars
<1> QED
  BY <1>1, <1>2, <1>3, <1>4, <1>5, <1>6, <1>7, <1>8, <1>9, <1>10, <1>11, <1>12, <1>13,
     <1>14, <1>15, <1>16, <1>17, <1>18, <1>20, <1>21, <1>22, <1>23, <1>24, <1>25, <1>26,
     <1>27, Cases

\* A sign-in that synchronises waits for the lock or holds it.
Waits == \A l \in Logins : login[l] = "sync" <=> (l \in waiting) # (l = crit.by)

\* It moves from the one place to the other, and leaves both when it is aborted.
LEMMA WaitStep ==
  ASSUME TypeOK, CritShape, Waits, OnePlace, [Next]_vars
  PROVE  (Waits /\ OnePlace)'
<1>t. /\ handle \in Logins \cup {None} /\ login \in [Logins -> Standing]
      /\ waiting \subseteq {"background", "refresh", "logout"} \cup Logins
  BY DEF TypeOK
<1>1. CASE SetClient
  BY <1>1 DEF Waits, OnePlace, SetClient
<1>2. CASE CancelLogin
  BY <1>2, NoneAssumption DEF Waits, OnePlace, Nobody, CancelLogin, StopLogin, Stopped
<1>3. CASE AskLogout
  BY <1>3, NamesAssumption, NoneAssumption
    DEF Waits, OnePlace, Nobody, AskLogout, StopLogin, Stopped
<1>4. CASE LogoutStart
  BY <1>4, NoneAssumption DEF Waits, OnePlace, Nobody, LogoutStart, LockFor
<1>5. CASE Restart
  BY <1>5, NoneAssumption DEF Waits, OnePlace, Nobody, Restart
<1>6. ASSUME NEW l \in Logins, BeginLogin(l) PROVE (Waits /\ OnePlace)'
  BY <1>6, NoneAssumption DEF Waits, OnePlace, Nobody, BeginLogin, StopLogin, Stopped
<1>7. ASSUME NEW l \in Logins, Authorize(l) PROVE (Waits /\ OnePlace)'
  BY <1>7 DEF Waits, OnePlace, Authorize
<1>8. ASSUME NEW l \in Logins, CodeArrives(l) PROVE (Waits /\ OnePlace)'
  BY <1>8 DEF Waits, OnePlace, CodeArrives
<1>9. ASSUME NEW l \in Logins, StoreToken(l) PROVE (Waits /\ OnePlace)'
  BY <1>9 DEF Waits, OnePlace, StoreToken
<1>10. ASSUME NEW l \in Logins, SaveAccount(l) PROVE (Waits /\ OnePlace)'
  BY <1>10 DEF Waits, OnePlace, SaveAccount
<1>11. ASSUME NEW l \in Logins, Remember(l) PROVE (Waits /\ OnePlace)'
  BY <1>11, <1>t DEF Waits, OnePlace, Remember
<1>12. ASSUME NEW l \in Logins, LoginFails(l) PROVE (Waits /\ OnePlace)'
  BY <1>12 DEF Waits, OnePlace, LoginFails, Over
<1>27. ASSUME NEW l \in Logins, BeginFails(l) PROVE (Waits /\ OnePlace)'
  BY <1>27 DEF Waits, OnePlace, BeginFails, Over
<1>13. ASSUME NEW by \in Askers, AskSync(by) PROVE (Waits /\ OnePlace)'
  BY <1>13, NamesAssumption, AskersAssumption DEF Waits, OnePlace, AskSync
<1>14. ASSUME NEW by \in waiting, SyncNothing(by) PROVE (Waits /\ OnePlace)'
  BY <1>14 DEF Waits, OnePlace, SyncNothing, LockFor
<1>15. ASSUME NEW by \in waiting, SyncStart(by) PROVE (Waits /\ OnePlace)'
  BY <1>15, NoneAssumption DEF Waits, OnePlace, Nobody, SyncStart, LockFor
<1>16. ASSUME NEW c \in Calendars, NEW enabled \in BOOLEAN, SetCalendar(c, enabled) PROVE (Waits /\ OnePlace)'
  BY <1>16, NamesAssumption DEF Waits, OnePlace, SetCalendar
<1>17. CASE UseAccess
  BY <1>17 DEF Waits, OnePlace, UseAccess
<1>18. CASE RefreshToken \/ RequestAccess
  <2>1. CASE \E r : SyncFails(r)
    BY <2>1, NoneAssumption DEF Waits, OnePlace, Nobody, SyncFails, SyncEnd
  <2>2. CASE crit'.by = crit.by /\ UNCHANGED <<login, waiting>>
    BY <2>2 DEF Waits, OnePlace
  <2>3. crit \in Holder
    BY DEF TypeOK
  <2> QED
    BY <1>18, <2>1, <2>2, <2>3, TokenOutcome DEF Holder, Expire
<1>20. CASE FetchDone
  BY <1>20, NoneAssumption DEF Waits, OnePlace, Nobody, FetchDone, SyncEnd
<1>21. CASE FetchFails
  BY <1>21, NoneAssumption DEF Waits, OnePlace, Nobody, FetchFails, SyncFails, SyncEnd
<1>22. CASE Forget
  BY <1>22, NoneAssumption DEF Waits, OnePlace, Nobody, Forget, SyncEnd
<1>23. CASE Revoke
  BY <1>23 DEF Waits, OnePlace, Revoke
<1>24. CASE DeleteToken
  BY <1>24 DEF Waits, OnePlace, DeleteToken
<1>25. CASE LogoutDone
  BY <1>25, NamesAssumption, NoneAssumption
    DEF CritShape, Waits, OnePlace, Nobody, At, LogoutDone
<1>26. CASE UNCHANGED vars
  BY <1>26 DEF Waits, OnePlace, vars
<1> QED
  BY <1>1, <1>2, <1>3, <1>4, <1>5, <1>6, <1>7, <1>8, <1>9, <1>10, <1>11, <1>12, <1>13,
     <1>14, <1>15, <1>16, <1>17, <1>18, <1>20, <1>21, <1>22, <1>23, <1>24, <1>25, <1>26,
     <1>27, Cases

-----------------------------------------------------------------------------
(* What the subscribers know, and what is on the screen.                   *)

\* Once nothing runs, nobody owes the subscribers a push.
Told == Quiet => told # "no"

\* What changes something without a push leaves somebody running who will push.
LEMMA ToldStep ==
  ASSUME TypeOK, CritShape, Told, [Next]_vars
  PROVE  Told'
<1>t. login \in [Logins -> Standing] /\ crit \in Holder
  BY DEF TypeOK
<1>1. CASE SetClient
  BY <1>1 DEF Told, Quiet, SetClient, Publish
<1>2. CASE CancelLogin
  BY <1>2 DEF Told, Quiet, CancelLogin, StopLogin, Publish
<1>3. CASE AskLogout
  BY <1>3 DEF Told, Quiet, AskLogout, StopLogin
<1>4. CASE LogoutStart
  BY <1>4 DEF Told, Quiet, Nobody, LogoutStart, LockFor
<1>5. CASE Restart
  BY <1>5 DEF Told, Quiet, Restart, Publish
<1>6. ASSUME NEW l \in Logins, BeginLogin(l) PROVE Told'
  BY <1>6, <1>t DEF Told, Quiet, BeginLogin, StopLogin, Stopped
<1>7. ASSUME NEW l \in Logins, Authorize(l) PROVE Told'
  BY <1>7 DEF Told, Quiet, Authorize, Publish
<1>8. ASSUME NEW l \in Logins, CodeArrives(l) PROVE Told'
  BY <1>8 DEF Told, Quiet, CodeArrives
<1>9. ASSUME NEW l \in Logins, StoreToken(l) PROVE Told'
  BY <1>9 DEF Told, Quiet, StoreToken
<1>10. ASSUME NEW l \in Logins, SaveAccount(l) PROVE Told'
  BY <1>10, <1>t DEF Told, Quiet, SaveAccount
<1>11. ASSUME NEW l \in Logins, Remember(l) PROVE Told'
  BY <1>11 DEF Told, Quiet, Remember
<1>12. ASSUME NEW l \in Logins, LoginFails(l) PROVE Told'
  BY <1>12 DEF Told, Quiet, LoginFails, Over, Publish
<1>27. ASSUME NEW l \in Logins, BeginFails(l) PROVE Told'
  BY <1>27 DEF Told, Quiet, BeginFails, Over
<1>13. ASSUME NEW by \in Askers, AskSync(by) PROVE Told'
  BY <1>13 DEF Told, Quiet, AskSync
<1>14. ASSUME NEW by \in waiting, SyncNothing(by) PROVE Told'
  BY <1>14 DEF Told, Quiet, SyncNothing, LockFor, Publish
<1>15. ASSUME NEW by \in waiting, SyncStart(by) PROVE Told'
  BY <1>15 DEF Told, Quiet, Nobody, SyncStart, LockFor
<1>16. ASSUME NEW c \in Calendars, NEW enabled \in BOOLEAN, SetCalendar(c, enabled) PROVE Told'
  BY <1>16 DEF Told, Quiet, SetCalendar
<1>17. CASE UseAccess
  BY <1>17 DEF Told, Quiet, Nobody, UseAccess
<1>18. CASE RefreshToken \/ RequestAccess
  <2>1. CASE \E r : SyncFails(r)
    BY <2>1 DEF Told, SyncFails, SyncEnd, Publish
  <2>2. CASE crit'.step \in {"request", "fetch", "revoke", "delete", "forget"}
    BY <2>2 DEF Told, Quiet, Nobody
  <2> QED
    BY <1>18, <1>t, <2>1, <2>2, TokenOutcome DEF Holder, Expire
<1>20. CASE FetchDone
  BY <1>20 DEF Told, Quiet, FetchDone, SyncEnd, Publish
<1>21. CASE FetchFails
  BY <1>21 DEF Told, Quiet, FetchFails, SyncFails, SyncEnd, Publish
<1>22. CASE Forget
  BY <1>22 DEF Told, Quiet, Forget, SyncEnd, Publish
<1>23. CASE Revoke
  BY <1>23 DEF Told, Quiet, Nobody, Revoke
<1>24. CASE DeleteToken
  BY <1>24 DEF Told, Quiet, Nobody, DeleteToken
<1>25. CASE LogoutDone
  BY <1>25 DEF Told, Quiet, LogoutDone, Publish
<1>26. CASE UNCHANGED vars
  BY <1>26 DEF Told, Quiet, vars
<1> QED
  BY <1>1, <1>2, <1>3, <1>4, <1>5, <1>6, <1>7, <1>8, <1>9, <1>10, <1>11, <1>12, <1>13,
     <1>14, <1>15, <1>16, <1>17, <1>18, <1>20, <1>21, <1>22, <1>23, <1>24, <1>25, <1>26,
     <1>27, Cases

\* Events are shown of calendars that are on.
OnScreen == shown.events \subseteq shown.on

\* The list and the events are taken down together, and one is set with the other.
LEMMA ScreenStep ==
  ASSUME TypeOK, CritShape, OnScreen, Unlisted, [Next]_vars
  PROVE  (OnScreen /\ Unlisted)'
<1>t. shown \in View /\ crit \in Holder
  BY DEF TypeOK
<1>1. CASE SetClient
  BY <1>1 DEF OnScreen, Unlisted, View, Blank, Settled, SetClient
<1>2. CASE CancelLogin
  BY <1>2 DEF OnScreen, Unlisted, View, Blank, Settled, CancelLogin, StopLogin
<1>3. CASE AskLogout
  BY <1>3 DEF OnScreen, Unlisted, View, Blank, Settled, AskLogout, StopLogin
<1>4. CASE LogoutStart
  BY <1>4 DEF OnScreen, Unlisted, View, Blank, Settled, LogoutStart, LockFor
<1>5. CASE Restart
  BY <1>5 DEF OnScreen, Unlisted, View, Blank, Settled, Restart
<1>6. ASSUME NEW l \in Logins, BeginLogin(l) PROVE (OnScreen /\ Unlisted)'
  BY <1>6 DEF OnScreen, Unlisted, View, Blank, Settled, BeginLogin, StopLogin
<1>7. ASSUME NEW l \in Logins, Authorize(l) PROVE (OnScreen /\ Unlisted)'
  BY <1>7 DEF OnScreen, Unlisted, View, Blank, Settled, Authorize
<1>8. ASSUME NEW l \in Logins, CodeArrives(l) PROVE (OnScreen /\ Unlisted)'
  BY <1>8 DEF OnScreen, Unlisted, View, Blank, Settled, CodeArrives
<1>9. ASSUME NEW l \in Logins, StoreToken(l) PROVE (OnScreen /\ Unlisted)'
  BY <1>9 DEF OnScreen, Unlisted, View, Blank, Settled, StoreToken
<1>10. ASSUME NEW l \in Logins, SaveAccount(l) PROVE (OnScreen /\ Unlisted)'
  BY <1>10 DEF OnScreen, Unlisted, View, Blank, Settled, SaveAccount
<1>11. ASSUME NEW l \in Logins, Remember(l) PROVE (OnScreen /\ Unlisted)'
  BY <1>11 DEF OnScreen, Unlisted, View, Blank, Settled, Remember
<1>12. ASSUME NEW l \in Logins, LoginFails(l) PROVE (OnScreen /\ Unlisted)'
  BY <1>12 DEF OnScreen, Unlisted, View, Blank, Settled, LoginFails, Over
<1>27. ASSUME NEW l \in Logins, BeginFails(l) PROVE (OnScreen /\ Unlisted)'
  BY <1>27 DEF OnScreen, Unlisted, View, Blank, Settled, BeginFails
<1>13. ASSUME NEW by \in Askers, AskSync(by) PROVE (OnScreen /\ Unlisted)'
  BY <1>13 DEF OnScreen, Unlisted, View, Blank, Settled, AskSync
<1>14. ASSUME NEW by \in waiting, SyncNothing(by) PROVE (OnScreen /\ Unlisted)'
  BY <1>14 DEF OnScreen, Unlisted, View, Blank, Settled, SyncNothing, LockFor
<1>15. ASSUME NEW by \in waiting, SyncStart(by) PROVE (OnScreen /\ Unlisted)'
  BY <1>15 DEF OnScreen, Unlisted, View, Blank, Settled, SyncStart, LockFor
<1>16. ASSUME NEW c \in Calendars, NEW enabled \in BOOLEAN, SetCalendar(c, enabled) PROVE (OnScreen /\ Unlisted)'
  BY <1>16 DEF OnScreen, Unlisted, View, Blank, Settled, SetCalendar
<1>17. CASE UseAccess
  BY <1>17 DEF OnScreen, Unlisted, View, Blank, Settled, UseAccess
<1>18. CASE RefreshToken \/ RequestAccess
  <2>1. CASE \E r : SyncFails(r)
    BY <2>1 DEF OnScreen, Unlisted, View, Settled, SyncFails, SyncEnd
  <2>2. CASE UNCHANGED shown
    BY <2>2 DEF OnScreen, Unlisted
  <2> QED
    BY <1>18, <2>1, <2>2, TokenOutcome DEF Expire
<1>20. CASE FetchDone
  BY <1>20 DEF OnScreen, Unlisted, View, Blank, Settled, FetchDone, SyncEnd
<1>21. CASE FetchFails
  BY <1>21 DEF OnScreen, Unlisted, View, Blank, Settled, FetchFails, SyncFails, SyncEnd
<1>22. CASE Forget
  BY <1>22 DEF OnScreen, Unlisted, View, Blank, Settled, Forget, SyncEnd
<1>23. CASE Revoke
  BY <1>23 DEF OnScreen, Unlisted, View, Blank, Settled, Revoke
<1>24. CASE DeleteToken
  BY <1>24 DEF OnScreen, Unlisted, View, Blank, Settled, DeleteToken
<1>25. CASE LogoutDone
  BY <1>25 DEF OnScreen, Unlisted, View, Blank, Settled, LogoutDone
<1>26. CASE UNCHANGED vars
  BY <1>26 DEF OnScreen, Unlisted, View, Blank, Settled, vars
<1> QED
  BY <1>1, <1>2, <1>3, <1>4, <1>5, <1>6, <1>7, <1>8, <1>9, <1>10, <1>11, <1>12, <1>13,
     <1>14, <1>15, <1>16, <1>17, <1>18, <1>20, <1>21, <1>22, <1>23, <1>24, <1>25, <1>26,
     <1>27, Cases

-----------------------------------------------------------------------------
(* Where the token is.                                                     *)

\* The old token leaves the file for good; a token that counts on the keyring is there.
LEMMA TokenStep ==
  ASSUME TypeOK, CritShape, LegacyWasRead, SafelyMoved, [Next]_vars
  PROVE  (LegacyWasRead /\ SafelyMoved)'
<1>t. /\ file \in Account \cup {None} /\ mem \in [access: BOOLEAN, refresh: BOOLEAN]
      /\ login \in [Logins -> Standing] /\ crit \in Holder /\ handle \in Logins \cup {None}
  BY DEF TypeOK
<1>1. CASE SetClient
  BY <1>1 DEF LegacyWasRead, SafelyMoved, Legacy, SetClient
<1>2. CASE CancelLogin
  BY <1>2, <1>t, NamesAssumption
    DEF CritShape, LegacyWasRead, SafelyMoved, Legacy, Nobody, CancelLogin, StopLogin,
        Stopped, outside
<1>3. CASE AskLogout
  BY <1>3
    DEF CritShape, LegacyWasRead, SafelyMoved, Legacy, Nobody, AskLogout, StopLogin,
        Stopped, outside
<1>4. CASE LogoutStart
  BY <1>4 DEF LegacyWasRead, SafelyMoved, Legacy, Nobody, LogoutStart, LockFor, outside
<1>5. CASE Restart
  BY <1>5 DEF LegacyWasRead, SafelyMoved, Legacy, Nobody, Forgotten, Restart
<1>6. ASSUME NEW l \in Logins, BeginLogin(l) PROVE (LegacyWasRead /\ SafelyMoved)'
  BY <1>6, <1>t, NamesAssumption
    DEF CritShape, LegacyWasRead, SafelyMoved, Legacy, Nobody, BeginLogin, StopLogin,
        Stopped, outside
<1>7. ASSUME NEW l \in Logins, Authorize(l) PROVE (LegacyWasRead /\ SafelyMoved)'
  BY <1>7 DEF LegacyWasRead, SafelyMoved, Legacy, Authorize, outside
<1>8. ASSUME NEW l \in Logins, CodeArrives(l) PROVE (LegacyWasRead /\ SafelyMoved)'
  BY <1>8 DEF LegacyWasRead, SafelyMoved, Legacy, CodeArrives, outside
<1>9. ASSUME NEW l \in Logins, StoreToken(l) PROVE (LegacyWasRead /\ SafelyMoved)'
  BY <1>9 DEF LegacyWasRead, SafelyMoved, Legacy, StoreToken
<1>10. ASSUME NEW l \in Logins, SaveAccount(l) PROVE (LegacyWasRead /\ SafelyMoved)'
  BY <1>10 DEF LegacyWasRead, SafelyMoved, Legacy, SaveAccount
<1>11. ASSUME NEW l \in Logins, Remember(l) PROVE (LegacyWasRead /\ SafelyMoved)'
  BY <1>11 DEF LegacyWasRead, SafelyMoved, Legacy, Remember
<1>12. ASSUME NEW l \in Logins, LoginFails(l) PROVE (LegacyWasRead /\ SafelyMoved)'
  BY <1>12 DEF LegacyWasRead, SafelyMoved, Legacy, LoginFails, Over, outside
<1>27. ASSUME NEW l \in Logins, BeginFails(l) PROVE (LegacyWasRead /\ SafelyMoved)'
  BY <1>27 DEF LegacyWasRead, SafelyMoved, Legacy, BeginFails, Over, outside
<1>13. ASSUME NEW by \in Askers, AskSync(by) PROVE (LegacyWasRead /\ SafelyMoved)'
  BY <1>13 DEF LegacyWasRead, SafelyMoved, Legacy, AskSync, outside
<1>14. ASSUME NEW by \in waiting, SyncNothing(by) PROVE (LegacyWasRead /\ SafelyMoved)'
  BY <1>14 DEF LegacyWasRead, SafelyMoved, Legacy, SyncNothing, LockFor, outside
<1>15. ASSUME NEW by \in waiting, SyncStart(by) PROVE (LegacyWasRead /\ SafelyMoved)'
  BY <1>15 DEF LegacyWasRead, SafelyMoved, Legacy, Nobody, SyncStart, LockFor, outside
<1>16. ASSUME NEW c \in Calendars, NEW enabled \in BOOLEAN, SetCalendar(c, enabled) PROVE (LegacyWasRead /\ SafelyMoved)'
  BY <1>16 DEF LegacyWasRead, SafelyMoved, Legacy, SetCalendar, outside
<1>17. CASE UseAccess
  BY <1>17 DEF LegacyWasRead, SafelyMoved, Legacy, At, UseAccess, outside
<1>18. CASE RefreshToken
  <2>1. CASE HaveToken
    BY <1>18, <1>t, <2>1
      DEF LegacyWasRead, SafelyMoved, Legacy, Account, Holder, At, RefreshToken,
          HaveToken, NoToken, Expire
  <2>2. CASE \E r : NoToken(r) /\ UNCHANGED file
    BY <1>18, <1>t, <2>2
      DEF LegacyWasRead, SafelyMoved, Legacy, Holder, Nobody, At, RefreshToken, NoToken,
          SyncFails, SyncEnd, outside
  <2>3. CASE crit.kind = "sync" /\ Expire
    BY <1>18, <2>3 DEF LegacyWasRead, SafelyMoved, Legacy, Expire
  <2> QED
    BY <1>18, <2>1, <2>2, <2>3 DEF RefreshToken, NoToken, SyncFails, HaveToken
<1>19. CASE RequestAccess
  BY <1>19, <1>t
    DEF LegacyWasRead, SafelyMoved, Legacy, Holder, Nobody, At, RequestAccess, Expire,
        SyncFails, SyncEnd, outside
<1>20. CASE FetchDone
  BY <1>20 DEF LegacyWasRead, SafelyMoved, Legacy, Nobody, At, FetchDone, SyncEnd, outside
<1>21. CASE FetchFails
  BY <1>21
    DEF LegacyWasRead, SafelyMoved, Legacy, Nobody, At, FetchFails, SyncFails, SyncEnd,
        outside
<1>22. CASE Forget
  BY <1>22 DEF LegacyWasRead, SafelyMoved, Legacy, Nobody, Forget, SyncEnd
<1>23. CASE Revoke
  BY <1>23 DEF LegacyWasRead, SafelyMoved, Legacy, At, Revoke, outside
<1>24. CASE DeleteToken
  BY <1>24 DEF LegacyWasRead, SafelyMoved, Legacy, DeleteToken
<1>25. CASE LogoutDone
  BY <1>25 DEF LegacyWasRead, SafelyMoved, Legacy, Nobody, LogoutDone
<1>26. CASE UNCHANGED vars
  BY <1>26 DEF LegacyWasRead, SafelyMoved, Legacy, vars
<1> QED
  BY <1>1, <1>2, <1>3, <1>4, <1>5, <1>6, <1>7, <1>8, <1>9, <1>10, <1>11, <1>12, <1>13,
     <1>14, <1>15, <1>16, <1>17, <1>18, <1>19, <1>20, <1>21, <1>22, <1>23, <1>24, <1>25,
     <1>26, <1>27, Cases

-----------------------------------------------------------------------------
(* What a step does to an account that stays, and to the token.            *)

\* The first half of AccountKeeps: nobody undoes another's work in the file.
ChoicesStay ==
  file # None /\ file' # None =>
    /\ file'.legacy => file.legacy
    /\ file.email => file'.email
    /\ file'.on = file.on \/ \E c \in Calendars, e \in BOOLEAN : SetCalendar(c, e)

\* The second half: only forgetting and signing out may lose the token.
TokenStays ==
  HasToken /\ ~HasToken' => crit.step \in {"forget", "delete", "clear"}

\* Each write of the file changes what it is about.
LEMMA ChoicesStep ==
  ASSUME TypeOK, [Next]_vars
  PROVE  ChoicesStay
<1>t. file \in Account \cup {None}
  BY DEF TypeOK
<1>1. CASE SetClient
  BY <1>1 DEF ChoicesStay, SetClient
<1>2. CASE CancelLogin
  BY <1>2 DEF ChoicesStay, CancelLogin, StopLogin
<1>3. CASE AskLogout
  BY <1>3 DEF ChoicesStay, AskLogout, StopLogin
<1>4. CASE LogoutStart
  BY <1>4 DEF ChoicesStay, LogoutStart, LockFor
<1>5. CASE Restart
  BY <1>5 DEF ChoicesStay, Restart
<1>6. ASSUME NEW l \in Logins, BeginLogin(l) PROVE ChoicesStay
  BY <1>6 DEF ChoicesStay, BeginLogin, StopLogin
<1>7. ASSUME NEW l \in Logins, Authorize(l) PROVE ChoicesStay
  BY <1>7 DEF ChoicesStay, Authorize
<1>8. ASSUME NEW l \in Logins, CodeArrives(l) PROVE ChoicesStay
  BY <1>8 DEF ChoicesStay, CodeArrives
<1>9. ASSUME NEW l \in Logins, StoreToken(l) PROVE ChoicesStay
  BY <1>9 DEF ChoicesStay, StoreToken
<1>10. ASSUME NEW l \in Logins, SaveAccount(l) PROVE ChoicesStay
  BY <1>10 DEF ChoicesStay, SaveAccount
<1>11. ASSUME NEW l \in Logins, Remember(l) PROVE ChoicesStay
  BY <1>11 DEF ChoicesStay, Remember
<1>12. ASSUME NEW l \in Logins, LoginFails(l) PROVE ChoicesStay
  BY <1>12 DEF ChoicesStay, LoginFails, Over
<1>27. ASSUME NEW l \in Logins, BeginFails(l) PROVE ChoicesStay
  BY <1>27 DEF ChoicesStay, BeginFails, Over
<1>13. ASSUME NEW by \in Askers, AskSync(by) PROVE ChoicesStay
  BY <1>13 DEF ChoicesStay, AskSync
<1>14. ASSUME NEW by \in waiting, SyncNothing(by) PROVE ChoicesStay
  BY <1>14 DEF ChoicesStay, SyncNothing, LockFor
<1>15. ASSUME NEW by \in waiting, SyncStart(by) PROVE ChoicesStay
  BY <1>15 DEF ChoicesStay, SyncStart, LockFor
<1>16. ASSUME NEW c \in Calendars, NEW enabled \in BOOLEAN, SetCalendar(c, enabled) PROVE ChoicesStay
  BY <1>16, <1>t DEF ChoicesStay, Account, SetCalendar
<1>17. CASE UseAccess
  BY <1>17 DEF ChoicesStay, UseAccess
<1>18. CASE RefreshToken
  BY <1>18, <1>t
    DEF ChoicesStay, Account, RefreshToken, HaveToken, NoToken, Expire, SyncFails
<1>19. CASE RequestAccess
  BY <1>19 DEF ChoicesStay, RequestAccess, Expire, SyncFails
<1>20. CASE FetchDone
  BY <1>20 DEF ChoicesStay, FetchDone
<1>21. CASE FetchFails
  BY <1>21 DEF ChoicesStay, FetchFails, SyncFails
<1>22. CASE Forget
  BY <1>22 DEF ChoicesStay, Forget
<1>23. CASE Revoke
  BY <1>23 DEF ChoicesStay, Revoke
<1>24. CASE DeleteToken
  BY <1>24 DEF ChoicesStay, DeleteToken
<1>25. CASE LogoutDone
  BY <1>25 DEF ChoicesStay, LogoutDone
<1>26. CASE UNCHANGED vars
  BY <1>26 DEF ChoicesStay, vars
<1> QED
  BY <1>1, <1>2, <1>3, <1>4, <1>5, <1>6, <1>7, <1>8, <1>9, <1>10, <1>11, <1>12, <1>13,
     <1>14, <1>15, <1>16, <1>17, <1>18, <1>19, <1>20, <1>21, <1>22, <1>23, <1>24, <1>25,
     <1>26, <1>27, Cases

\* The file gives the token up only when the keyring has it.
LEMMA TokenStaysStep ==
  ASSUME TypeOK, CritShape, LegacyWasRead, SafelyMoved, [Next]_vars
  PROVE  TokenStays
<1>t. /\ file \in Account \cup {None} /\ mem \in [access: BOOLEAN, refresh: BOOLEAN]
      /\ login \in [Logins -> Standing] /\ crit \in Holder
  BY DEF TypeOK
<1>1. CASE SetClient
  BY <1>1 DEF TokenStays, HasToken, LegacyWasRead, SafelyMoved, Legacy, SetClient
<1>2. CASE CancelLogin
  BY <1>2
    DEF TokenStays, HasToken, LegacyWasRead, SafelyMoved, Legacy, CancelLogin, StopLogin,
        outside
<1>3. CASE AskLogout
  BY <1>3
    DEF TokenStays, HasToken, LegacyWasRead, SafelyMoved, Legacy, AskLogout, StopLogin,
        outside
<1>4. CASE LogoutStart
  BY <1>4
    DEF TokenStays, HasToken, LegacyWasRead, SafelyMoved, Legacy, LogoutStart, LockFor,
        outside
<1>5. CASE Restart
  BY <1>5 DEF TokenStays, HasToken, LegacyWasRead, SafelyMoved, Legacy, Restart, outside
<1>6. ASSUME NEW l \in Logins, BeginLogin(l) PROVE TokenStays
  BY <1>6
    DEF TokenStays, HasToken, LegacyWasRead, SafelyMoved, Legacy, BeginLogin, StopLogin,
        outside
<1>7. ASSUME NEW l \in Logins, Authorize(l) PROVE TokenStays
  BY <1>7 DEF TokenStays, HasToken, LegacyWasRead, SafelyMoved, Legacy, Authorize, outside
<1>8. ASSUME NEW l \in Logins, CodeArrives(l) PROVE TokenStays
  BY <1>8
    DEF TokenStays, HasToken, LegacyWasRead, SafelyMoved, Legacy, CodeArrives, outside
<1>9. ASSUME NEW l \in Logins, StoreToken(l) PROVE TokenStays
  BY <1>9 DEF TokenStays, HasToken, LegacyWasRead, SafelyMoved, Legacy, StoreToken
<1>10. ASSUME NEW l \in Logins, SaveAccount(l) PROVE TokenStays
  BY <1>10
    DEF TokenStays, HasToken, LegacyWasRead, SafelyMoved, Legacy, SaveAccount, outside
<1>11. ASSUME NEW l \in Logins, Remember(l) PROVE TokenStays
  BY <1>11 DEF TokenStays, HasToken, LegacyWasRead, SafelyMoved, Legacy, Remember, outside
<1>12. ASSUME NEW l \in Logins, LoginFails(l) PROVE TokenStays
  BY <1>12
    DEF TokenStays, HasToken, LegacyWasRead, SafelyMoved, Legacy, LoginFails, Over,
        outside
<1>27. ASSUME NEW l \in Logins, BeginFails(l) PROVE TokenStays
  BY <1>27 DEF TokenStays, HasToken, LegacyWasRead, SafelyMoved, Legacy, BeginFails, Over,
        outside
<1>13. ASSUME NEW by \in Askers, AskSync(by) PROVE TokenStays
  BY <1>13 DEF TokenStays, HasToken, LegacyWasRead, SafelyMoved, Legacy, AskSync, outside
<1>14. ASSUME NEW by \in waiting, SyncNothing(by) PROVE TokenStays
  BY <1>14
    DEF TokenStays, HasToken, LegacyWasRead, SafelyMoved, Legacy, SyncNothing, LockFor,
        outside
<1>15. ASSUME NEW by \in waiting, SyncStart(by) PROVE TokenStays
  BY <1>15
    DEF TokenStays, HasToken, LegacyWasRead, SafelyMoved, Legacy, SyncStart, LockFor,
        outside
<1>16. ASSUME NEW c \in Calendars, NEW enabled \in BOOLEAN, SetCalendar(c, enabled) PROVE TokenStays
  <2>1. item' = item /\ (file # None => file' \in Account /\ file'.legacy = file.legacy)
    BY <1>16, <1>t, AccountKept DEF SetCalendar, Account, outside
  <2> QED
    BY <2>1, NoneAssumption DEF TokenStays, HasToken
<1>17. CASE UseAccess
  BY <1>17
    DEF TokenStays, HasToken, LegacyWasRead, SafelyMoved, Legacy, UseAccess, outside
<1>18. CASE RefreshToken
  BY <1>18
    DEF TokenStays, HasToken, LegacyWasRead, SafelyMoved, Legacy, At, RefreshToken,
        HaveToken, NoToken, Expire, SyncFails, outside
<1>19. CASE RequestAccess
  BY <1>19
    DEF TokenStays, HasToken, LegacyWasRead, SafelyMoved, Legacy, At, RequestAccess,
        Expire, SyncFails, outside
<1>20. CASE FetchDone
  <2>1. item' = item /\ (file # None => file' \in Account /\ file'.legacy = file.legacy)
    BY <1>20, <1>t, AccountKept DEF FetchDone, Account, outside
  <2> QED
    BY <2>1, NoneAssumption DEF TokenStays, HasToken
<1>21. CASE FetchFails
  BY <1>21
    DEF TokenStays, HasToken, LegacyWasRead, SafelyMoved, Legacy, FetchFails, SyncFails,
        outside
<1>22. CASE Forget
  BY <1>22 DEF TokenStays, HasToken, LegacyWasRead, SafelyMoved, Legacy, Forget
<1>23. CASE Revoke
  BY <1>23 DEF TokenStays, HasToken, LegacyWasRead, SafelyMoved, Legacy, Revoke, outside
<1>24. CASE DeleteToken
  BY <1>24 DEF TokenStays, HasToken, LegacyWasRead, SafelyMoved, Legacy, At, DeleteToken
<1>25. CASE LogoutDone
  BY <1>25 DEF TokenStays, HasToken, LegacyWasRead, SafelyMoved, Legacy, At, LogoutDone
<1>26. CASE UNCHANGED vars
  BY <1>26 DEF TokenStays, HasToken, LegacyWasRead, SafelyMoved, Legacy, vars
<1> QED
  BY <1>1, <1>2, <1>3, <1>4, <1>5, <1>6, <1>7, <1>8, <1>9, <1>10, <1>11, <1>12, <1>13,
     <1>14, <1>15, <1>16, <1>17, <1>18, <1>19, <1>20, <1>21, <1>22, <1>23, <1>24, <1>25,
     <1>26, <1>27, Cases

-----------------------------------------------------------------------------
(* The theorems.                                                           *)

\* The invariant holds when the daemon starts ...
LEMMA InvInit == Init => IInv
<1> SUFFICES ASSUME Init PROVE IInv
  OBVIOUS
<1>1. TypeOK
  <2>1. file \in Account \cup {None}
    BY SelectedAssumption DEF Init, Account
  <2>2. shown \in View /\ crit \in Holder /\ login \in [Logins -> Standing]
    BY DEF Init, View, Blank, Holder, Nobody, Standing
  <2> QED
    BY <2>1, <2>2 DEF Init, TypeOK, Forgotten
<1>2. (Quiet => told # "no") /\ shown.events \subseteq shown.on /\ Unlisted
  BY DEF Init, Blank, Unlisted
<1>3. Waits /\ OnePlace /\ CritShape
  BY NoneAssumption DEF Init, Nobody, Waits, OnePlace, CritShape
<1>4. LegacyWasRead /\ SafelyMoved
  BY DEF Init, LegacyWasRead, SafelyMoved, Legacy, Nobody, Forgotten
<1> QED
  BY <1>1, <1>2, <1>3, <1>4 DEF IInv, AccountConsistent, Waits

\* ... and every step keeps it.
LEMMA InvStep == IInv /\ [Next]_vars => IInv'
<1> SUFFICES ASSUME IInv, [Next]_vars PROVE IInv'
  OBVIOUS
<1>1. TypeOK /\ Told /\ OnScreen /\ Waits
  BY DEF IInv, AccountConsistent, Told, OnScreen, Waits
<1>2. CritShape /\ OnePlace /\ Unlisted /\ LegacyWasRead /\ SafelyMoved
  BY DEF IInv
<1>3. TypeOK' /\ CritShape'
  BY <1>1, <1>2, TypeStep, CritStep
<1>4. Waits' /\ OnePlace'
  BY <1>1, <1>2, WaitStep
<1>5. Told'
  BY <1>1, <1>2, ToldStep
<1>6. OnScreen' /\ Unlisted'
  BY <1>1, <1>2, ScreenStep
<1>7. LegacyWasRead' /\ SafelyMoved'
  BY <1>1, <1>2, TokenStep
<1> QED
  BY <1>3, <1>4, <1>5, <1>6, <1>7 DEF IInv, AccountConsistent, Told, OnScreen, Waits

\* The inductive invariant holds.
THEOREM Invariant == Spec => []IInv
<1> QED
  BY InvInit, InvStep, PTL DEF Spec

\* Once nothing runs, nobody owes the subscribers a push (calendar.rs: publish after
\* every change; a sign-in that fails to begin, lines 311-317, is the one that ends
\* without making it); no calendar that is off has events on the screen; a sign-in
\* waits for the lock or holds it (sync under sync_lock).
THEOREM AccountAgrees == Spec => []AccountConsistent
<1>1. IInv => AccountConsistent
  BY DEF IInv
<1> QED
  BY <1>1, Invariant, PTL

\* No step undoes a choice of the user, brings a token back into the file, or leaves
\* it on the way to the keyring in neither place (calendar.rs: save_account,
\* refresh_token, expire, logout).
THEOREM AccountIsKept == Spec => AccountKeeps
<1>1. IInv /\ [Next]_vars => ChoicesStay /\ TokenStays
  BY ChoicesStep, TokenStaysStep DEF IInv, AccountConsistent
<1>2. IInv /\ [Next]_vars =>
        [/\ file # None /\ file' # None =>
              /\ file'.legacy => file.legacy
              /\ file.email => file'.email
              /\ file'.on = file.on \/ \E c \in Calendars, e \in BOOLEAN : SetCalendar(c, e)
         /\ HasToken /\ ~HasToken' => crit.step \in {"forget", "delete", "clear"}]_vars
  BY <1>1 DEF ChoicesStay, TokenStays
<1> QED
  BY <1>2, Invariant, PTL DEF Spec, AccountKeeps
=============================================================================
