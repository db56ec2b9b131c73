---------------------------- MODULE Notifications ----------------------------
(***************************************************************************)
(* Notifications of one user: the Celery task that mails and records one,  *)
(* the read marks, and the preference row that the first request to want   *)
(* it creates.                                                             *)
(***************************************************************************)
EXTENDS Naturals, FiniteSets

CONSTANTS
    Notices,        \* events another service wants the user told of
    PrefClients,    \* requests for the preferences
    HasBuilders,    \* whether dispatcher.py has every name the task imports
    MaxDispatches   \* 1 + max_retries of dispatch_notification

ASSUME NotificationsAssumption ==
    HasBuilders \in BOOLEAN /\ MaxDispatches \in Nat \ {0}

VARIABLES
    dispatch,   \* the task of each notice: where it is
    attempt,    \* attempts made
    emails,     \* emails sent
    inbox,      \* notifications rows: <<notice, attempt>>
    readRows,   \* those with is_read
    prefs,      \* the notification_preferences row: absent, or email_enabled
    asking      \* each preferences request: idle, or what it read and will write

notificationVars ==
    <<dispatch, attempt, emails, inbox, readRows, prefs, asking>>

TaskState == {"none", "queued", "mailed", "committed", "done", "skipped", "failed"}
PrefRow   == {"absent", "on", "off"}

Unread == inbox \ readRows

NotificationsInit ==
    /\ dispatch = [n \in Notices |-> "none"]
    /\ attempt = [n \in Notices |-> 0]
    /\ emails = [n \in Notices |-> 0]
    /\ inbox = {} /\ readRows = {}
    /\ prefs = "absent"
    /\ asking = [c \in PrefClients |-> [at |-> "idle", row |-> "absent", to |-> "on"]]

-----------------------------------------------------------------------------
(* dispatch_notification.                                                   *)

Queue(n) ==
    /\ dispatch[n] = "none"
    /\ dispatch' = [dispatch EXCEPT ![n] = "queued"]
    /\ UNCHANGED <<attempt, emails, inbox, readRows, prefs, asking>>

\* self.retry, until the attempts are used up.
Retried(n) == dispatch' = [dispatch EXCEPT ![n] =
                 IF attempt'[n] < MaxDispatches THEN "queued" ELSE "failed"]

\* The import of a name that is not there raises before anything is read;
\* otherwise the mail is sent first, if the preference row allows it.
DispatchMails(n) ==
    /\ dispatch[n] = "queued"
    /\ attempt' = [attempt EXCEPT ![n] = @ + 1]
    /\ IF HasBuilders
       THEN /\ emails' = [emails EXCEPT ![n] = IF prefs = "off" THEN @ ELSE @ + 1]
            /\ dispatch' = [dispatch EXCEPT ![n] = "mailed"]
       ELSE Retried(n) /\ UNCHANGED emails
    /\ UNCHANGED <<inbox, readRows, prefs, asking>>

\* No row of the user: the task ends as one that succeeded.
DispatchSkips(n) ==
    /\ dispatch[n] = "queued" /\ HasBuilders
    /\ attempt' = [attempt EXCEPT ![n] = @ + 1]
    /\ dispatch' = [dispatch EXCEPT ![n] = "skipped"]
    /\ UNCHANGED <<emails, inbox, readRows, prefs, asking>>

MUT_DispatchCommits(n) ==
    /\ dispatch[n] = "mailed"
    /\ inbox' = inbox \cup {<<n, 1>>}
    /\ dispatch' = [dispatch EXCEPT ![n] = "committed"]
    /\ UNCHANGED <<attempt, emails, readRows, prefs, asking>>

DispatchCommits(n) ==
    /\ dispatch[n] = "mailed"
    /\ inbox' = inbox \cup {<<n, attempt[n]>>}
    /\ dispatch' = [dispatch EXCEPT ![n] = "committed"]
    /\ UNCHANGED <<attempt, emails, readRows, prefs, asking>>

\* The row is read again for the answer.
DispatchReturns(n) ==
    /\ dispatch[n] = "committed"
    /\ dispatch' = [dispatch EXCEPT ![n] = "done"]
    /\ UNCHANGED <<attempt, emails, inbox, readRows, prefs, asking>>

\* The database is lost before the commit, or before that last read.
DispatchBreaks(n) ==
    /\ dispatch[n] \in {"mailed", "committed"}
    /\ UNCHANGED attempt /\ Retried(n)
    /\ UNCHANGED <<emails, inbox, readRows, prefs, asking>>

-----------------------------------------------------------------------------
(* The inbox.                                                               *)

\* POST /notifications/{id}/read and /mark-all-read, of the user's own rows.
MarkRead(r) ==
    /\ r \in inbox
    /\ readRows' = readRows \cup {r}
    /\ UNCHANGED <<dispatch, attempt, emails, inbox, prefs, asking>>

MarkAllRead ==
    /\ Unread # {}
    /\ readRows' = inbox
    /\ UNCHANGED <<dispatch, attempt, emails, inbox, prefs, asking>>

-----------------------------------------------------------------------------
(* GET and PUT /notifications/preferences.                                  *)

AskPrefs(c, to) ==
    /\ asking[c].at = "idle"
    /\ asking' = [asking EXCEPT ![c] = [at |-> "read", row |-> prefs, to |-> to]]
    /\ UNCHANGED <<dispatch, attempt, emails, inbox, readRows, prefs>>

MUT_WritePrefs(c) ==
    /\ asking[c].at = "read"
    /\ prefs' = IF asking[c].to = "keep" THEN "on" ELSE asking[c].to
    /\ asking' = [asking EXCEPT ![c].at = "idle"]
    /\ UNCHANGED <<dispatch, attempt, emails, inbox, readRows>>

\* A request that saw no row inserts one, which the unique user_id refuses (500)
\* when another did so meanwhile.  A GET ("keep") writes the default or nothing.
WritePrefs(c) ==
    LET a == asking[c]
        new == IF a.to # "keep" THEN a.to ELSE IF a.row = "absent" THEN "on" ELSE prefs
    IN
    /\ a.at = "read"
    /\ prefs' = IF a.row = "absent" /\ prefs # "absent" THEN prefs ELSE new
    /\ asking' = [asking EXCEPT ![c].at = "idle"]
    /\ UNCHANGED <<dispatch, attempt, emails, inbox, readRows>>

-----------------------------------------------------------------------------

NotificationsNext ==
    \/ \E n \in Notices :
          \/ Queue(n) \/ DispatchMails(n) \/ DispatchSkips(n) \/ DispatchCommits(n)
          \/ DispatchReturns(n) \/ DispatchBreaks(n)
    \/ \E r \in Notices \X (1..MaxDispatches) : MarkRead(r)
    \/ MarkAllRead
    \/ \E c \in PrefClients :
          (\E to \in {"on", "off", "keep"} : AskPrefs(c, to)) \/ WritePrefs(c)

NotificationsSpec ==
    NotificationsInit /\ [][NotificationsNext]_notificationVars

\* Celery works off its queue, and the database is not lost for ever.
NotificationsFairSpec ==
    /\ NotificationsSpec
    /\ \A n \in Notices : /\ WF_notificationVars(DispatchMails(n))
                          /\ SF_notificationVars(DispatchCommits(n))
                          /\ SF_notificationVars(DispatchReturns(n))

-----------------------------------------------------------------------------
(* Properties that hold *)

\* Every variable keeps its type.
NotificationsTypeOK ==
    /\ dispatch \in [Notices -> TaskState]
    /\ attempt \in [Notices -> 0..MaxDispatches]
    /\ emails \in [Notices -> Nat]
    /\ inbox \subseteq Notices \X (1..MaxDispatches) /\ readRows \subseteq inbox
    /\ prefs \in PrefRow
    /\ asking \in [PrefClients -> [at: {"idle", "read"}, row: PrefRow,
                                   to: {"on", "off", "keep"}]]

\* A retry may tell the user twice, by mail and in the inbox, but each row has
\* the attempt that wrote it, and an attempt that ended well has left one: unless it
\* did not find the user, and then it has left none.
AttemptsAccountForRows ==
    \A n \in Notices :
        /\ emails[n] <= attempt[n]
        /\ \A r \in inbox : r[1] = n => r[2] <= attempt[n]
        /\ dispatch[n] \in {"committed", "done"} => <<n, attempt[n]>> \in inbox
        /\ dispatch[n] = "skipped" =>
              emails[n] < attempt[n] /\ <<n, attempt[n]>> \notin inbox

\* Opting out of mail is undone only by opting in: not by a GET that had found no
\* row and comes to insert the default one.
OptOutIsKept ==
    [][prefs = "off" /\ prefs' # "off" =>
         \E c \in PrefClients : asking[c].at = "read" /\ asking[c].to = "on"
                                /\ asking'[c].at = "idle"]_notificationVars

-----------------------------------------------------------------------------
(* Claims of the code's own text that its behaviour contradicts *)

\* tasks.py: "Create in-app Notification record" is a step of every dispatch.
NoticeIsRecorded ==
    \A n \in Notices : dispatch[n] = "queued" ~> \E r \in inbox : r[1] = n
=============================================================================
