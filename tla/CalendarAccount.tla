--------------------------- MODULE CalendarAccount ---------------------------
(***************************************************************************)
(* The Google Calendar module of the daemon (modules/calendar.rs) and the  *)
(* keyring client it stores its token with (secret.rs): signing in through *)
(* the browser, signing out, hiding a calendar, and the synchronisation    *)
(* that runs in the background, after a sign-in and on request.            *)
(*                                                                         *)
(* The daemon runs on one thread, so a step here is what happens between   *)
(* two awaits that really wait (network, keyring, browser, a lock somebody *)
(* else holds).  A sign-in stays in three places that can disagree: the    *)
(* account file, the keyring, and the tokens the daemon remembers.         *)
(***************************************************************************)
EXTENDS Naturals, FiniteSets

CONSTANTS Logins,     \* sign-ins that may be started
          Calendars,  \* calendars of the Google account
          Selected,   \* those Google shows itself
          Askers,     \* who asks for a synchronisation: "background", "refresh"
          MaxWaiting, \* bound: requests that may wait for the lock
          None        \* no account, no task

\* The part of the sign-in that is no secret: a token an older version left in it,
\* whether the address is known, the calendars on (by choice, else by Google's).
Account == [legacy: BOOLEAN, email: BOOLEAN, on: SUBSET Calendars]

ASSUME SelectedAssumption == Selected \subseteq Calendars
ASSUME NoneAssumption == None \notin Logins \cup Account
ASSUME NamesAssumption ==
  {"background", "refresh", "logout"} \cap (Logins \cup {None}) = {}
ASSUME AskersAssumption == Askers \subseteq {"background", "refresh"}
ASSUME MaxWaitingAssumption == MaxWaiting \in Nat

VARIABLES file,       \* the account file, None: not signed in
          item,       \* the keyring holds a refresh token
          configured, \* an OAuth client is known
          mem,        \* the access and the refresh token in memory: is there one
          shown,      \* the module's state, as its mutex guards it
          told,       \* have the subscribers been told the last change: "yes", "no",
                      \* or "missed": whoever owed the push has ended without it
          login,      \* where each sign-in stands
          handle,     \* the sign-in task that can be aborted
          waiting,    \* who waits for the synchronisation lock
          crit        \* who holds it, and how far it is

vars == <<file, item, configured, mem, shown, told, login, handle, waiting, crit>>
outside == <<item, configured>>

\* The address for the browser is there while the status is "authorizing": both are set
\* together and taken down together.
View == [status: {"idle", "authorizing", "syncing"}, locked: BOOLEAN,
         listed: BOOLEAN, on: SUBSET Calendars, events: SUBSET Calendars]

Blank == [status |-> "idle", locked |-> FALSE, listed |-> FALSE,
          on |-> {}, events |-> {}]

Nobody == [kind |-> "none", step |-> "none", by |-> None, account |-> None]

Forgotten == [access |-> FALSE, refresh |-> FALSE]

Init ==
  /\ file \in {None} \cup [legacy: BOOLEAN, email: BOOLEAN, on: {Selected}]
  /\ item = (file # None /\ ~file.legacy)
  /\ configured = (file # None)
  /\ mem = Forgotten
  /\ shown = Blank
  /\ told = "yes"
  /\ login = [l \in Logins |-> "none"]
  /\ handle = None
  /\ waiting = {}
  /\ crit = Nobody

Publish == told' = "yes"

\* A change the subscribers are still to be told.
Unpublished == told' = "no"

-----------------------------------------------------------------------------
(* The keyring: what a request can come to.  Only a user's own action may   *)
(* open the password prompt; a background one finds the keyring locked.     *)

Interactive(by) == by # "background"

PromptResults(by) == IF Interactive(by) THEN {"done", "dismissed", "broken"} ELSE {"locked"}

UnlockResults(by) == PromptResults(by)

LookupResults(by) == {"done", "unavailable", "broken"} \cup UnlockResults(by)

StoreResults(by) == {"done", "unavailable", "broken"} \cup UnlockResults(by) \cup PromptResults(by)

DeleteResults(by) == {"done", "unavailable", "broken"} \cup UnlockResults(by) \cup PromptResults(by)

-----------------------------------------------------------------------------
(* Signing in.                                                              *)

\* Forgetting an account keeps the state's mutex while it talks to the keyring.
InnerFree == crit.step # "forget"

Over(l) == login' = [login EXCEPT ![l] = "none"]

\* Mutant: the aborted sign-in's status is left standing.
StopLoginKeepsStatus ==
  /\ InnerFree \/ crit.by = handle
  /\ handle' = None
  /\ crit' = IF handle # None /\ crit.by = handle THEN Nobody ELSE crit
  /\ UNCHANGED shown

\* cancel_login: the task ends where it waits, with its place in or before the lock.
StopLogin ==
  /\ InnerFree \/ crit.by = handle
  /\ handle' = None
  /\ crit' = IF handle # None /\ crit.by = handle THEN Nobody ELSE crit
  /\ shown' = [shown EXCEPT !.status = IF @ = "authorizing" THEN "idle" ELSE @]

Stopped == [l \in Logins |-> IF l = handle THEN "none" ELSE login[l]]

SetClient ==
  /\ InnerFree
  /\ ~configured
  /\ configured' = TRUE
  /\ UNCHANGED <<file, item, mem, shown, login, handle, waiting, crit>>
  /\ Publish

\* An older sign-in is cancelled first; what that changed, and what the cancelled one
\* still had to push, is left to the new one.
BeginLogin(l) ==
  /\ login[l] = "none"
  /\ configured
  /\ StopLogin
  /\ login' = [Stopped EXCEPT ![l] = "binding"]
  /\ waiting' = waiting \ {handle}
  /\ told' = IF shown' = shown THEN told ELSE "no"
  /\ UNCHANGED <<file, outside, mem>>

\* No port, no random bytes or no address to send the browser to: the call fails, and
\* nobody pushes what it had changed.
BeginFails(l) ==
  /\ login[l] = "binding"
  /\ Over(l)
  /\ told' = IF told = "no" THEN "missed" ELSE told
  /\ UNCHANGED <<file, outside, mem, shown, handle, waiting, crit>>

\* The port is bound: the URL goes out, the task is spawned and becomes the one
\* that a cancel aborts, whatever was in that place.
Authorize(l) ==
  /\ InnerFree
  /\ login[l] = "binding"
  /\ login' = [login EXCEPT ![l] = "browser"]
  /\ shown' = [shown EXCEPT !.status = "authorizing"]
  /\ handle' = l
  /\ UNCHANGED <<file, outside, mem, waiting, crit>>
  /\ Publish

\* The browser comes back with the code of this sign-in, and Google takes it.
CodeArrives(l) ==
  /\ login[l] = "browser"
  /\ login' = [login EXCEPT ![l] = "store"]
  /\ UNCHANGED <<file, outside, mem, shown, told, handle, waiting, crit>>

StoreToken(l) ==
  /\ login[l] = "store"
  /\ "done" \in StoreResults(l)
  /\ item' = TRUE
  /\ login' = [login EXCEPT ![l] = "answer"]
  /\ UNCHANGED <<file, configured, mem, shown, told, handle, waiting, crit>>

\* The browser has its answer.  An account that is known keeps its choices, and
\* a token that was kept in the file leaves it.
SaveAccount(l) ==
  /\ login[l] = "answer"
  /\ file' = IF file # None THEN [file EXCEPT !.legacy = FALSE]
             ELSE [legacy |-> FALSE, email |-> FALSE, on |-> Selected]
  /\ login' = [login EXCEPT ![l] = "remember"]
  /\ UNCHANGED <<outside, mem, shown, handle, waiting, crit>>
  /\ Unpublished

\* The sign-in has succeeded; its task goes on to synchronise.
Remember(l) ==
  /\ InnerFree
  /\ login[l] = "remember"
  /\ mem' = [access |-> TRUE, refresh |-> TRUE]
  /\ shown' = [shown EXCEPT !.status = "idle"]
  /\ login' = [login EXCEPT ![l] = "sync"]
  /\ waiting' = waiting \cup {l}
  /\ UNCHANGED <<file, outside, handle, crit>>
  /\ Unpublished

\* The user refused, a stranger answered, Google or the keyring said no (then the
\* token is revoked), the file could not be written, or five minutes have passed.
LoginFails(l) ==
  /\ InnerFree
  /\ login[l] \in {"browser", "store", "answer"}
  /\ Over(l)
  /\ shown' = [shown EXCEPT !.status = "idle"]
  /\ UNCHANGED <<file, outside, mem, handle, waiting, crit>>
  /\ Publish

CancelLogin ==
  /\ StopLogin
  /\ login' = Stopped
  /\ waiting' = waiting \ {handle}
  /\ UNCHANGED <<file, outside, mem>>
  /\ Publish

-----------------------------------------------------------------------------
(* Synchronising.                                                           *)

\* The module's own loop comes round, or somebody asks for a refresh.  What waits in
\* the background, for the loop or for a switched calendar, stands here as one.
AskSync(by) ==
  /\ by \notin waiting \cup {crit.by} /\ Cardinality(waiting) < MaxWaiting
  /\ waiting' = waiting \cup {by}
  /\ UNCHANGED <<file, outside, mem, shown, told, login, handle, crit>>

\* Mutant: a calendar that is switched off keeps its events.
SetCalendarKeepsEvents(c, enabled) ==
  /\ InnerFree
  /\ file # None
  /\ Cardinality(waiting \ {"background"}) < MaxWaiting
  /\ file' = [file EXCEPT !.on = IF enabled THEN @ \cup {c} ELSE @ \ {c}]
  /\ shown' = [shown EXCEPT !.on = IF enabled /\ shown.listed THEN @ \cup {c} ELSE @ \ {c}]
  /\ waiting' = waiting \cup {"background"}
  /\ UNCHANGED <<outside, mem, login, handle, crit>>
  /\ Publish

SetCalendar(c, enabled) ==
  /\ InnerFree
  /\ file # None
  /\ Cardinality(waiting \ {"background"}) < MaxWaiting
  /\ file' = [file EXCEPT !.on = IF enabled THEN @ \cup {c} ELSE @ \ {c}]
  /\ shown' = [shown EXCEPT !.on = IF enabled /\ shown.listed THEN @ \cup {c} ELSE @ \ {c},
                            !.events = IF enabled THEN @ ELSE @ \ {c}]
  /\ waiting' = waiting \cup {"background"}
  /\ UNCHANGED <<outside, mem, login, handle, crit>>
  /\ Publish

LockFor(by) == crit = Nobody /\ by \in waiting /\ waiting' = waiting \ {by}

\* Nobody is signed in, or there is no client: there is nothing to show.
SyncNothing(by) ==
  /\ by # "logout"
  /\ LockFor(by)
  /\ file = None \/ ~configured
  /\ shown' = [shown EXCEPT !.listed = FALSE, !.on = {}, !.events = {}]
  /\ login' = [l \in Logins |-> IF l = by THEN "none" ELSE login[l]]
  /\ UNCHANGED <<file, outside, mem, handle, crit>>
  /\ Publish

SyncStart(by) ==
  /\ by # "logout"
  /\ LockFor(by)
  /\ file # None /\ configured
  /\ crit' = [kind |-> "sync", step |-> "token", by |-> by, account |-> file]
  /\ shown' = [shown EXCEPT !.status = IF @ = "authorizing" THEN @ ELSE "syncing"]
  /\ UNCHANGED <<file, outside, mem, login, handle>>
  /\ Publish

Settled(s) == [s EXCEPT !.status = IF @ = "syncing" THEN "idle" ELSE @]

SyncEnd(s) ==
  /\ shown' = Settled(s)
  /\ crit' = Nobody
  /\ login' = [l \in Logins |-> IF l = crit.by THEN "none" ELSE login[l]]
  /\ Publish

\* A token Google refused: the account goes, and the state stays locked until
\* the keyring has answered.
Expire ==
  /\ file' = None
  /\ crit' = [crit EXCEPT !.step = "forget"]
  /\ UNCHANGED <<outside, mem, shown, login, handle, waiting>>
  /\ Unpublished

Forget ==
  /\ crit.step = "forget"
  /\ \E r \in DeleteResults("background") : item' = IF r = "done" THEN FALSE ELSE item
  /\ mem' = Forgotten
  /\ UNCHANGED <<file, configured, handle, waiting>>
  /\ SyncEnd([Blank EXCEPT !.status = shown.status])

\* What was shown stays; a keyring that is locked or was not unlocked is told of.
SyncFails(r) ==
  /\ UNCHANGED <<file, outside, handle, waiting>>
  /\ SyncEnd([shown EXCEPT !.locked = IF r \in {"network", "broken"} THEN @ ELSE r \in {"locked", "dismissed"}])

At(step) == crit.step = step

UseAccess ==
  /\ At("token") /\ crit.kind = "sync" /\ mem.access
  /\ crit' = [crit EXCEPT !.step = "fetch"]
  /\ UNCHANGED <<file, outside, mem, shown, told, login, handle, waiting>>

HaveToken ==
  /\ mem' = [mem EXCEPT !.refresh = TRUE]
  /\ crit' = [crit EXCEPT !.step = IF crit.kind = "sync" THEN "request" ELSE "revoke"]
  /\ UNCHANGED <<configured, shown, told, login, handle, waiting>>

\* No token could be had: a sign-out goes on without one.
NoToken(r) ==
  IF crit.kind = "sync"
  THEN SyncFails(r) /\ UNCHANGED mem
  ELSE /\ crit' = [crit EXCEPT !.step = "delete"]
       /\ UNCHANGED <<file, outside, mem, shown, told, login, handle, waiting>>

\* refresh_token: from memory, from the keyring, or moved there from the file.
RefreshToken ==
  /\ At("token")
  /\ \/ mem.refresh /\ HaveToken /\ UNCHANGED <<file, item>>
     \/ /\ ~mem.refresh
        /\ \E r \in LookupResults(crit.by) \ {"done"} : NoToken(r)
     \/ /\ ~mem.refresh /\ item
        /\ HaveToken /\ UNCHANGED <<file, item>>
     \/ /\ ~mem.refresh /\ ~item /\ crit.account.legacy
        /\ item' = TRUE
        /\ file' = IF file = None THEN None ELSE [file EXCEPT !.legacy = FALSE]
        /\ HaveToken
     \/ /\ ~mem.refresh /\ ~item /\ ~crit.account.legacy
        /\ IF crit.kind = "sync" THEN Expire ELSE NoToken("expired")

RequestAccess ==
  /\ At("request")
  /\ \/ SyncFails("network") /\ UNCHANGED mem
     \/ Expire
     \/ /\ mem' = [mem EXCEPT !.access = TRUE]
        /\ crit' = [crit EXCEPT !.step = "fetch"]
        /\ UNCHANGED <<file, outside, shown, told, login, handle, waiting>>

\* Mutant: the learned address is saved with the account read at the start.
FetchDoneStale ==
  /\ At("fetch")
  /\ file' = IF file # None /\ ~crit.account.email
             THEN [crit.account EXCEPT !.email = TRUE] ELSE file
  /\ UNCHANGED <<outside, mem, handle, waiting>>
  /\ \E got \in SUBSET crit.account.on :
       /\ got # {} \/ crit.account.on = {}
       /\ SyncEnd([shown EXCEPT !.locked = FALSE, !.listed = TRUE,
                                !.on = crit.account.on, !.events = got])

\* The list and the events of the calendars that are on, as the account read at
\* the start has them.  One calendar that fails does not take the others along.
FetchDone ==
  /\ At("fetch")
  /\ file' = IF file # None /\ ~crit.account.email THEN [file EXCEPT !.email = TRUE] ELSE file
  /\ UNCHANGED <<outside, mem, handle, waiting>>
  /\ \E got \in SUBSET crit.account.on :
       /\ got # {} \/ crit.account.on = {}
       /\ SyncEnd([shown EXCEPT !.locked = FALSE, !.listed = TRUE,
                                !.on = crit.account.on, !.events = got])

\* An access token that is no longer taken is not used again.
FetchFails ==
  /\ At("fetch")
  /\ \E unauthorized \in BOOLEAN :
       mem' = IF unauthorized THEN [mem EXCEPT !.access = FALSE] ELSE mem
  /\ SyncFails("network")

-----------------------------------------------------------------------------
(* Signing out.                                                             *)

AskLogout ==
  /\ "logout" \notin waiting /\ crit.by # "logout" /\ Cardinality(waiting) < MaxWaiting
  /\ StopLogin
  /\ login' = Stopped
  /\ waiting' = (waiting \ {handle}) \cup {"logout"}
  /\ UNCHANGED <<file, outside, mem>>
  /\ Unpublished

LogoutStart ==
  /\ LockFor("logout")
  /\ crit' = [kind |-> "logout", step |-> IF file = None THEN "delete" ELSE "token",
              by |-> "logout", account |-> file]
  /\ UNCHANGED <<file, outside, mem, shown, told, login, handle>>

Revoke ==
  /\ At("revoke")
  /\ crit' = [crit EXCEPT !.step = "delete"]
  /\ UNCHANGED <<file, outside, mem, shown, told, login, handle, waiting>>

DeleteToken ==
  /\ At("delete")
  /\ \E r \in DeleteResults("logout") : item' = IF r = "done" THEN FALSE ELSE item
  /\ crit' = [crit EXCEPT !.step = "clear"]
  /\ UNCHANGED <<file, configured, mem, shown, told, login, handle, waiting>>

LogoutDone ==
  /\ At("clear")
  /\ file' = None
  /\ mem' = Forgotten
  /\ shown' = Blank
  /\ crit' = Nobody
  /\ UNCHANGED <<outside, login, handle, waiting>>
  /\ Publish

-----------------------------------------------------------------------------
(* Outside.                                                                 *)

\* The daemon dies and comes back: the file and the keyring are what is left.
Restart ==
  /\ mem' = Forgotten
  /\ shown' = Blank
  /\ login' = [l \in Logins |-> "none"]
  /\ handle' = None
  /\ waiting' = {}
  /\ crit' = Nobody
  /\ UNCHANGED <<file, outside>>
  /\ Publish

LoginStep(l) ==
  \/ Authorize(l) \/ BeginFails(l) \/ CodeArrives(l) \/ StoreToken(l)
  \/ SaveAccount(l) \/ Remember(l) \/ LoginFails(l)

LockStart ==
  \/ \E by \in waiting : SyncNothing(by) \/ SyncStart(by)
  \/ LogoutStart

LockStep ==
  \/ UseAccess \/ RefreshToken \/ RequestAccess \/ FetchDone \/ FetchFails \/ Forget
  \/ Revoke \/ DeleteToken \/ LogoutDone

Next ==
  \/ SetClient \/ CancelLogin \/ AskLogout \/ LockStart \/ LockStep \/ Restart
  \/ \E l \in Logins : BeginLogin(l) \/ LoginStep(l)
  \/ \E by \in Askers : AskSync(by)
  \/ \E c \in Calendars, enabled \in BOOLEAN : SetCalendar(c, enabled)

Fairness ==
  /\ WF_vars(AskSync("background"))
  /\ WF_vars(LockStart)
  /\ WF_vars(LockStep)
  /\ \A l \in Logins : WF_vars(LoginStep(l))

Spec == Init /\ [][Next]_vars /\ Fairness

-----------------------------------------------------------------------------
(* Properties.                                                              *)

Standing == {"binding", "browser", "store", "answer", "remember", "sync", "none"}

Holder ==
  [kind: {"none", "sync", "logout"}, by: {None, "background", "refresh", "logout"} \cup Logins,
   step: {"none", "token", "request", "fetch", "forget", "revoke", "delete", "clear"},
   account: Account \cup {None}]

TypeOK ==
  /\ file \in Account \cup {None}
  /\ item \in BOOLEAN /\ configured \in BOOLEAN
  /\ mem \in [access: BOOLEAN, refresh: BOOLEAN]
  /\ shown \in View
  /\ told \in {"yes", "no", "missed"}
  /\ login \in [Logins -> Standing]
  /\ handle \in Logins \cup {None}
  /\ waiting \subseteq {"background", "refresh", "logout"} \cup Logins
  /\ crit \in Holder

\* Nothing runs that still has a push to make.
Quiet ==
  /\ crit = Nobody /\ waiting = {}
  /\ \A l \in Logins : login[l] \notin {"binding", "remember", "sync"}

\* Whatever was aborted, refused or overtaken on the way: once nothing runs, nobody
\* owes the subscribers the state the module is in (publish after every change of the
\* state or of the account file), no calendar that is off has events on the screen,
\* and a sign-in waits for the lock or holds it, never both.  The one push that is
\* lost is that of a sign-in that fails to begin after it has cancelled an older one
\* (begin_login's ? between cancel_login and publish): that is told as "missed".
AccountConsistent ==
  /\ TypeOK
  /\ Quiet => told # "no"
  /\ shown.events \subseteq shown.on
  /\ \A l \in Logins : login[l] = "sync" <=> (l \in waiting) # (l = crit.by)

HasToken == item \/ (file # None /\ file.legacy)

\* The account file is written by sign-ins, by the switch of a calendar, by the
\* move of an old token and by a synchronisation that learned the address; none
\* of them undoes another's work: a choice changes by its switch only, a token
\* that has left the file does not come back, and on the way to the keyring it
\* is never in neither place.
AccountKeeps ==
  [][/\ file # None /\ file' # None =>
          /\ file'.legacy => file.legacy
          /\ file.email => file'.email
          /\ file'.on = file.on \/ \E c \in Calendars, e \in BOOLEAN : SetCalendar(c, e)
     /\ HasToken /\ ~HasToken' => crit.step \in {"forget", "delete", "clear"}]_vars

\* However a sign-in or a synchronisation ends (refused, timed out, aborted by
\* another in the middle of its synchronisation), the screen does not go on
\* saying that it runs; what a lost account showed is taken down; and a push that was
\* missed is made up for, by the next background synchronisation at the latest.
ScreenSettles ==
  /\ []<>(shown.status # "authorizing")
  /\ []<>(shown.status # "syncing" \/ file = None)
  /\ []<>(file # None \/ shown.events = {})
  /\ []<>(told = "yes")

\* "The account file's existence means being signed in; the token itself is in
\* the keyring (or, with an old file, still here, waiting to be moved)", says
\* load_account.  The daemon that remembers a token and has an account finds
\* both gone from the keyring when the deletion of an older sign-in's token
\* overtook the new one's: the next start of the daemon is signed out.
SignedInHasToken ==
  (Quiet /\ file # None /\ mem.refresh) => HasToken
=============================================================================
