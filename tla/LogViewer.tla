----------------------------- MODULE LogViewer ------------------------------
(***************************************************************************)
(* The page that follows the log of a command                               *)
(* (app/core/log_viewer_template.py, refresh), the route it polls           *)
(* (app/api/v1/command.py, get_command_trace_ui) and the session it polls   *)
(* with: the login form, the cookie it sets and the scopes of users.json.   *)
(*                                                                          *)
(* The page fetches, takes the answer in and sets its timer again; while    *)
(* the answer is on its way the log grows, the command ends and the cookie  *)
(* runs out.  What deploy-service does is external: an answer carries its   *)
(* log from the offset asked for, all of it or a part.                      *)
(***************************************************************************)
EXTENDS Integers, SequencesExt

CONSTANTS
  MaxFailures,  \* MAX_FAILURES: polls that may fail in a row (5)
  MaxInterval,  \* MAX_INTERVAL: the longest wait, in steps of 5 s (6)
  HardCap,      \* the longest log that is displayed
  MaxLog,       \* bound: how long the log gets
  MaxEvents,    \* bound: how often the session or deploy-service changes
  MaxVisits     \* bound: how often the page is opened

ASSUME ViewerAssumption ==
  /\ MaxFailures \in Nat \ {0} /\ MaxInterval \in Nat \ {0}
  /\ HardCap \in Nat /\ MaxLog \in Nat /\ MaxEvents \in Nat /\ MaxVisits \in Nat \ {0}

VARIABLES
  \* deploy-service
  status,       \* of the command
  logged,       \* the command runs with logged: true
  log,          \* what it has written: lines, and blanks that are no line
  whole,        \* an answer carries the log to its end
  trusted,      \* it accepts the credentials of this service
  \* the session
  account,      \* what users.json gives the user
  cookie,       \* what the access_token cookie carries
  events,
  \* the page
  page,         \* what the browser shows
  visits,       \* how often the viewer was opened
  phase,        \* what refresh is at; "stopped" when timer is null
  response,     \* the answer on its way
  offset,       \* currentByteOffset
  lineNum,      \* currentLineNum
  interval,     \* currentInterval
  failures,     \* consecutiveFailures
  shown,        \* the rendered lines
  outcome,      \* why polling has stopped
  streak        \* history: how many answers in a row were failures

upstream == <<status, logged, log, whole, trusted>>
session == <<account, cookie, events>>
cursor == <<offset, lineNum, interval, shown>>
vars == <<upstream, session, page, visits, phase, response, cursor, failures, outcome, streak>>

Statuses == {"running", "killing", "killed", "success", "failed"}
\* The statuses after which a command does nothing any more.
Ended == {"killed", "success", "failed"}

\* Slip: a command that is being killed is taken for ended.
TerminalKilling == {"killing", "killed", "success", "failed"}
\* Slip: a killed command is not taken for ended.
TerminalUnlessKilled == {"success", "failed"}
\* TERMINAL_STATUSES, as view_command renders it.
Terminal == {"success", "failed", "killed"}

Outcomes == {"none", "finished", "poll_failed", "too_large", "not_logged"}
NoResponse == [kind |-> "none"]

\* The lines of a log between two offsets, numbered from num, as deploy-service
\* cuts and numbers them.
Lines(entries, from, to, num) ==
  LET cut[i \in 0..(to - from)] ==
        IF i = 0 THEN <<>>
        ELSE IF entries[from + i] = "line"
          THEN Append(cut[i - 1], [num |-> num + Len(cut[i - 1]), at |-> from + i])
        ELSE cut[i - 1]
  IN cut[to - from]

Init ==
  /\ status = "running" /\ logged \in BOOLEAN /\ log = <<>>
  /\ whole \in BOOLEAN /\ trusted = TRUE
  /\ account = "scoped" /\ cookie \in {"none", "scoped"} /\ events = 0
  /\ page = "viewer" /\ visits = 1 /\ phase = "timer" /\ response = NoResponse
  /\ offset = 0 /\ lineNum = 1 /\ interval = 1 /\ shown = <<>>
  /\ failures = 0 /\ outcome = "none" /\ streak = 0

-----------------------------------------------------------------------------
(* The route                                                                *)

\* The timer fires: refresh fetches with what it has now.
Fire ==
  /\ page = "viewer" /\ phase = "timer"
  /\ phase' = "fetch"
  /\ UNCHANGED <<upstream, session, page, visits, response, cursor, failures, outcome, streak>>

Answer(r) ==
  /\ phase' = "answered" /\ response' = r
  /\ UNCHANGED <<upstream, session, page, visits, cursor, failures, outcome>>

\* get_current_user_cookie_or_header: no token is a 401, no scope a 403.
Authorized == cookie = "scoped"

\* 401 or 403: from the session, or from deploy-service, which does not trust
\* this service when it asks for a token.
Refuse ==
  /\ phase = "fetch"
  /\ ~Authorized \/ ~trusted
  /\ Answer([kind |-> "refused"])
  /\ streak' = 0

\* Any other error, of the connection or of the answer.
Fail ==
  /\ phase = "fetch"
  /\ Answer([kind |-> "failed"])
  /\ streak' = IF streak < MaxFailures THEN streak + 1 ELSE streak

Trace(to) ==
  [kind |-> "ok", status |-> status, to |-> to, lines |-> Lines(log, offset, to, lineNum),
   not_logged |-> ~logged, too_large |-> Len(log) > HardCap]

\* A slice of the log, with the status of the command.
Serve ==
  /\ phase = "fetch" /\ Authorized
  /\ \E to \in offset..Len(log) : (whole => to = Len(log)) /\ Answer(Trace(to))
  /\ streak' = 0

-----------------------------------------------------------------------------
(* refresh, from the answer on                                              *)

\* Both leave the timer null.
Stop(reason) == phase' = "stopped" /\ outcome' = reason
Continue == phase' = "timer" /\ UNCHANGED outcome

Redirected ==
  /\ phase = "answered" /\ response.kind = "refused"
  /\ page' = "login" /\ phase' = "stopped" /\ response' = NoResponse
  /\ UNCHANGED <<upstream, session, visits, cursor, failures, outcome, streak>>

PollFailed ==
  /\ phase = "answered" /\ response.kind = "failed"
  /\ failures' = failures + 1
  /\ IF failures' >= MaxFailures THEN Stop("poll_failed") ELSE Continue
  /\ response' = NoResponse
  /\ UNCHANGED <<upstream, session, page, visits, cursor, streak>>

\* There is no log, or too much of it: what is rendered stays.
Notice ==
  /\ phase = "answered" /\ response.kind = "ok"
  /\ \/ response.not_logged /\ Stop("not_logged")
     \/ ~response.not_logged /\ response.too_large /\ Stop("too_large")
  /\ failures' = 0 /\ response' = NoResponse
  /\ UNCHANGED <<upstream, session, page, visits, cursor, streak>>

\* Slip: the wait grows without end.
BackoffForever == interval + 1
\* The wait after an answer without a line.
Backoff == IF interval < MaxInterval THEN interval + 1 ELSE MaxInterval

\* Slip: the cursor moves to the end of the log, past what the slice holds.
AdvanceToEnd ==
  /\ offset' = Len(log)
  /\ lineNum' = lineNum + Len(response.lines)
  /\ interval' = IF response.lines = <<>> THEN Backoff ELSE 1
  /\ shown' = shown \o response.lines

\* The cursor moves on in any case, and lines are rendered.
Advance ==
  /\ offset' = response.to
  /\ lineNum' = lineNum + Len(response.lines)
  /\ interval' = IF response.lines = <<>> THEN Backoff ELSE 1
  /\ shown' = shown \o response.lines

\* Slip: the last slice is not rendered.
TakeUnlessEnded ==
  /\ phase = "answered" /\ response.kind = "ok" /\ ~response.not_logged /\ ~response.too_large
  /\ IF response.status \in Terminal THEN Stop("finished") /\ UNCHANGED cursor ELSE Continue /\ Advance
  /\ failures' = 0 /\ response' = NoResponse
  /\ UNCHANGED <<upstream, session, page, visits, streak>>

\* A slice is rendered; with a terminal status it is the last one.
Take ==
  /\ phase = "answered" /\ response.kind = "ok" /\ ~response.not_logged /\ ~response.too_large
  /\ IF response.status \in Terminal THEN Stop("finished") ELSE Continue
  /\ Advance
  /\ failures' = 0 /\ response' = NoResponse
  /\ UNCHANGED <<upstream, session, page, visits, streak>>

ViewerStep == Fire \/ Refuse \/ Fail \/ Serve \/ Redirected \/ PollFailed \/ Notice \/ Take

-----------------------------------------------------------------------------
(* The user                                                                 *)

\* The page starts from nothing whenever it is opened.
Open ==
  /\ visits < MaxVisits /\ visits' = visits + 1
  /\ page' = "viewer" /\ phase' = "timer" /\ response' = NoResponse
  /\ offset' = 0 /\ lineNum' = 1 /\ interval' = 1 /\ shown' = <<>>
  /\ failures' = 0 /\ outcome' = "none" /\ streak' = 0
  /\ UNCHANGED <<upstream, account, events>>

\* AuthService.authenticate reads users.json anew; the token it leads to
\* carries the scopes the account has at that moment.
Authenticated == account # "gone"
Issued == account

\* login_submit sets the cookie and sends the browser back to the viewer.  An
\* account that is not there gets the form again.
Login ==
  /\ page = "login" /\ Authenticated
  /\ cookie' = Issued
  /\ Open

\* The user opens the page anew.
Reload == page = "viewer" /\ UNCHANGED cookie /\ Open

-----------------------------------------------------------------------------
(* deploy-service, the operators and the clock                              *)

LogGrows(entry) ==
  /\ status \notin Ended /\ logged /\ Len(log) < MaxLog
  /\ log' = Append(log, entry)
  /\ UNCHANGED <<status, logged, whole, trusted, session, page, visits, phase, response, cursor, failures, outcome, streak>>

StatusChanges ==
  /\ \/ status = "running" /\ status' \in Statuses \ {"running", "killed"}
     \/ status = "killing" /\ status' \in Ended
  /\ UNCHANGED <<logged, log, whole, trusted, session, page, visits, phase, response, cursor, failures, outcome, streak>>

SessionChanges ==
  /\ events < MaxEvents /\ events' = events + 1
  /\ UNCHANGED <<status, logged, log, whole, page, visits, phase, response, cursor, failures, outcome, streak>>

\* The token and the cookie that carries it last equally long.
CookieExpires ==
  /\ cookie # "none" /\ cookie' = "none"
  /\ SessionChanges
  /\ UNCHANGED <<account, trusted>>

\* users.json is edited: cookies already given out keep what they carry.
EditUsers ==
  /\ account' \in {"scoped", "unscoped", "gone"} \ {account}
  /\ SessionChanges
  /\ UNCHANGED <<cookie, trusted>>

\* deploy-service changes its mind about this service's credentials.
TrustChanges ==
  /\ trusted' = ~trusted
  /\ SessionChanges
  /\ UNCHANGED <<cookie, account>>

Next ==
  \/ ViewerStep \/ Login \/ Reload
  \/ StatusChanges \/ CookieExpires \/ EditUsers \/ TrustChanges
  \/ \E entry \in {"line", "blank"} : LogGrows(entry)

Spec == Init /\ [][Next]_vars

\* Timers fire and fetches end.  Nobody has to log in.
FairSpec == Spec /\ WF_vars(ViewerStep)

-----------------------------------------------------------------------------
(* Properties                                                               *)

\* The type invariant of the page, the session and the command.
TypeOK ==
  /\ status \in Statuses /\ logged \in BOOLEAN /\ whole \in BOOLEAN /\ trusted \in BOOLEAN
  /\ log \in Seq({"line", "blank"}) /\ Len(log) <= MaxLog
  /\ account \in {"scoped", "unscoped", "gone"}
  /\ cookie \in {"none", "scoped", "unscoped"}
  /\ events \in 0..MaxEvents
  /\ page \in {"viewer", "login"} /\ visits \in 1..MaxVisits
  /\ phase \in {"timer", "fetch", "answered", "stopped"}
  /\ response.kind \in {"none", "refused", "failed", "ok"}
  /\ offset \in 0..Len(log) /\ lineNum \in 1..(Len(log) + 1)
  /\ interval \in 1..MaxInterval
  /\ failures \in 0..MaxFailures /\ streak \in 0..MaxFailures
  /\ outcome \in Outcomes

\* What is rendered is the log up to the cursor: no line is missing, repeated
\* or misnumbered, whatever is fetched while the log grows, polls fail, and
\* slices hold no line.
ShownIsTheLog == shown = Lines(log, 0, offset, 1) /\ lineNum = Len(shown) + 1

\* A viewer that has finished shows the log to its last line, provided that
\* the answers of deploy-service are not cut short.
FinishedShowsAll == (outcome = "finished" /\ whole) => offset = Len(log)

\* Polling stops only for a reason that lasts: the command has ended, its log
\* is beyond the cap, or there is none; or the last MaxFailures answers were
\* failures, with no good one between them.
StoppedForAReason ==
  /\ outcome = "finished" => status \in Ended
  /\ outcome = "too_large" => Len(log) > HardCap
  /\ outcome = "not_logged" => ~logged
  /\ outcome = "poll_failed" => streak = MaxFailures
  /\ (outcome = "none" /\ phase = "stopped") => page = "login"

\* No viewer polls for ever once its command has ended, whatever mixture of
\* failures and slices it is answered.
EndedIsFollowed == status \in Ended ~> phase = "stopped"

-----------------------------------------------------------------------------
(* What the comments say, and the code does not do                          *)

\* "Not logged in (no auth cookie/header): send the browser to the login page,
\* which will return them to this viewer afterwards"
\* (app/core/log_viewer_template.py:422-423).
OnlyLoggedOutAreSentToLogin ==
  [][page = "viewer" /\ page' = "login" => cookie = "none"]_vars
=============================================================================
