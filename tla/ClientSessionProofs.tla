-------------------------- MODULE ClientSessionProofs --------------------------
(***************************************************************************)
(* Proofs about ClientSession, for any accounts, any number of requests,   *)
(* sign-ins, page loads and pairs of tokens.                               *)
(*                                                                         *)
(* The argument: a call that may still change the session is one of the    *)
(* session version the tab is at, and every such call is about the account *)
(* the tab was last told to use (HeldOK).  There is one such sign-in or one *)
(* such refresh, which is the shared one, for the pair that is held        *)
(* (FlightOK); so its refusal speaks of that pair.                         *)
(***************************************************************************)
EXTENDS ClientSession, TLAPS

-----------------------------------------------------------------------------
(* The inductive invariant.                                                *)

\* The calls whose answer still counts.
SignInNow(c) == c.kind \in {"login", "oauth"} /\ Current(c)
RefreshNow(c) == c.kind = "refresh" /\ Current(c)

\* Nothing is of a later version than the tab; the tab holds tokens only at a
\* version the user opened.
VersionsOK ==
    /\ version <= MaxVersion + 1
    /\ \A c \in calls : c.version <= version /\ c.version <= MaxVersion
    /\ \A r \in Requests : request[r].version <= version
    /\ held # None => version <= MaxVersion

\* A call brings tokens of the account it is about.
CallsOK ==
    \A c \in calls :
        /\ c.kind = "refresh" => c.pair \in Pairs /\ c.pair.user = c.user
        /\ c.tokens \in Pairs => c.tokens.user = c.user

HeldOK ==
    /\ SignedInAsAsked
    /\ \A c \in calls :
          SignInNow(c) \/ RefreshNow(c) =>
              asked # None /\ (~overtaken => c.user = asked)

\* A request of the session is the account's.
RequestsOK ==
    \A r \in Requests :
        /\ request[r].phase \in {"sent", "refreshing"}
        /\ request[r].version = version
        /\ request[r].first # None /\ ~overtaken
        => request[r].first.user = asked

\* What is on its way for the session: one sign-in, or the shared refresh of what is held.
FlightOK ==
    ~overtaken =>
        /\ \A c, d \in calls : RefreshNow(c) /\ RefreshNow(d) => c = d
        /\ \A c \in calls : RefreshNow(c) =>
              flight = <<c.pair, c.version>> /\ (held # None => c.pair = held)
        /\ \A c, d \in calls : SignInNow(c) /\ SignInNow(d) => c = d
        /\ \A c, d \in calls : SignInNow(c) => held = None /\ ~RefreshNow(d)

IInv == TypeOK /\ VersionsOK /\ CallsOK /\ HeldOK /\ RequestsOK /\ FlightOK

-----------------------------------------------------------------------------
(* Steps.                                                                  *)

\* What a new call is.
LEMMA CallType ==
    ASSUME NEW kind \in Kinds, NEW u \in Users, NEW pair \in Pairs \cup {None},
           NEW v \in 0..2 * MaxVersion + 1
    PROVE  Call(kind, u, pair, v) \in Calls
BY DEF Call, Calls

\* What a page load sends.
LEMMA StartType ==
    ASSUME NEW pair \in Pairs \cup {None}, NEW v \in 1..MaxVersion
    PROVE  /\ StartRefresh(pair, v) \subseteq Calls
           /\ StartFlight(pair, v) \in (Pairs \X (1..2 * MaxVersion + 1)) \cup {None}
           /\ StartWait(pair, v) \in 0..2 * MaxVersion + 1
           /\ OwnerOf(pair) \in Users \cup {None}
<1>1. v \in 1..2 * MaxVersion + 1 /\ v \in 0..2 * MaxVersion + 1 BY SessionAssumption
<1>2. CASE pair = None BY <1>2, SessionAssumption DEF StartRefresh, StartFlight, StartWait, OwnerOf
<1>3. CASE pair \in Pairs /\ pair # None
  <2>1. pair.user \in Users BY <1>3 DEF Pairs
  <2>2. Call("refresh", pair.user, pair, v) \in Calls BY <1>1, <1>3, <2>1, CallType DEF Kinds
  <2>3. QED BY <1>1, <1>3, <2>1, <2>2 DEF StartRefresh, StartFlight, StartWait, OwnerOf
<1>4. QED BY <1>2, <1>3

LEMMA DoneType ==
    /\ Done \in [phase : Phases, version : 0..2 * MaxVersion + 1,
                 first : Pairs \cup {None}, last : Pairs \cup {None}]
    /\ NoRequest \in [phase : Phases, version : 0..2 * MaxVersion + 1,
                      first : Pairs \cup {None}, last : Pairs \cup {None}]
    /\ Done.phase = "done" /\ Done.version = 0 /\ NoRequest.phase = "idle" /\ NoRequest.version = 0
BY SessionAssumption DEF Done, NoRequest, Phases

RequestType == [phase : Phases, version : 0..2 * MaxVersion + 1,
                first : Pairs \cup {None}, last : Pairs \cup {None}]

\* What a call the tab makes looks like.
LEMMA CallFields ==
    ASSUME NEW kind, NEW u, NEW pair, NEW v, NEW c, c = Call(kind, u, pair, v)
    PROVE  c.kind = kind /\ c.user = u /\ c.pair = pair /\ c.version = v /\ c.tokens = None
BY DEF Call

\* What the server makes of a call.
LEMMA ServedFields ==
    ASSUME NEW c \in Calls, NEW tokens \in Pairs \cup {Lost}, NEW d,
           d = [c EXCEPT !.tokens = tokens]
    PROVE  /\ d \in Calls /\ d.tokens = tokens
           /\ d.kind = c.kind /\ d.user = c.user /\ d.pair = c.pair /\ d.version = c.version
BY DEF Calls

\* What the server does: it serves one call, with or without tokens as its answer.
LEMMA ServeCases ==
    ASSUME TypeOK, Serve
    PROVE  \E c \in calls :
              \/ \E tokens \in Pairs \cup {Lost} :
                    \E d \in Calls :
                        /\ c.kind \in {"login", "oauth", "refresh"} /\ c.tokens = None
                        /\ calls' = (calls \ {c}) \cup {d}
                        /\ d.kind = c.kind /\ d.user = c.user /\ d.pair = c.pair
                        /\ d.version = c.version /\ d.tokens = tokens
                        /\ tokens \in Pairs => tokens.user = c.user
                        /\ UNCHANGED <<tab, request, lapsed>>
                        /\ current' \in [Users -> 0..MaxIssued] /\ issued' \in 0..MaxIssued
              \/ /\ c.kind = "logout"
                 /\ calls' = calls \ {c}
                 /\ UNCHANGED <<tab, request, lapsed, issued>>
                 /\ current' \in [Users -> 0..MaxIssued]
<1>1. PICK c \in calls : /\ c.tokens = None
                         /\ Issue(c) \/ Revoke(c)
                         /\ UNCHANGED <<tab, request, lapsed>>
  BY DEF Serve
<1>2. c \in Calls BY <1>1 DEF TypeOK
<1>3. CASE Issue(c)
  <2>1. issued + 1 \in 1..MaxIssued BY <1>3, SessionAssumption DEF Issue, TypeOK
  <2>2. [user |-> c.user, n |-> issued + 1] \in Pairs BY <1>2, <2>1 DEF Calls, Pairs
  <2>3. PICK tokens \in {[user |-> c.user, n |-> issued + 1], Lost} :
            calls' = (calls \ {c}) \cup {[c EXCEPT !.tokens = tokens]}
    BY <1>3 DEF Issue
  <2>4. tokens \in Pairs \cup {Lost} BY <2>2, <2>3
  <2>5. PICK d : d = [c EXCEPT !.tokens = tokens] OBVIOUS
  <2>6. /\ d \in Calls /\ d.tokens = tokens
        /\ d.kind = c.kind /\ d.user = c.user /\ d.pair = c.pair /\ d.version = c.version
    BY <1>2, <2>4, <2>5, ServedFields
  <2>7. calls' = (calls \ {c}) \cup {d} BY <2>3, <2>5
  <2>8. tokens \in Pairs => tokens.user = c.user BY <2>3, SessionAssumption
  <2>9. current' \in [Users -> 0..MaxIssued] /\ issued' \in 0..MaxIssued
    <3>1. issued' = issued + 1 /\ current' = [current EXCEPT ![c.user] = issued + 1]
      BY <1>3 DEF Issue
    <3>2. PICK n \in 0..MaxIssued : n = issued + 1 BY <2>1
    <3>3. current \in [Users -> 0..MaxIssued] BY DEF TypeOK
    <3>4. QED BY <3>1, <3>2, <3>3
  <2>10. c.kind \in {"login", "oauth", "refresh"} BY <1>3 DEF Issue
  <2>11. QED BY <1>1, <2>4, <2>6, <2>7, <2>8, <2>9, <2>10
<1>4. CASE Revoke(c)
  <2>1. current' \in [Users -> 0..MaxIssued]
    <3>1. current' = [current EXCEPT ![c.user] = 0] BY <1>4 DEF Revoke
    <3>2. PICK n \in 0..MaxIssued : n = 0 BY SessionAssumption
    <3>3. current \in [Users -> 0..MaxIssued] BY DEF TypeOK
    <3>4. QED BY <3>1, <3>2, <3>3
  <2>2. QED BY <1>1, <1>4, <2>1 DEF Revoke
<1>5. QED BY <1>1, <1>3, <1>4

\* The numbers of versions.
LEMMA VersionBounds ==
    ASSUME IInv
    PROVE  /\ version \in 1..2 * MaxVersion + 1
           /\ version < MaxVersion => version + 1 \in 1..MaxVersion
           /\ version <= MaxVersion => version + 1 \in 1..2 * MaxVersion + 1
           /\ \A c \in calls : Current(c) => version <= MaxVersion
           /\ 0 \in 0..2 * MaxVersion + 1 /\ MaxVersion \in Nat
           /\ 1..2 * MaxVersion + 1 \subseteq 0..2 * MaxVersion + 1
           /\ 1..MaxVersion \subseteq 1..2 * MaxVersion + 1
BY SessionAssumption DEF IInv, TypeOK, VersionsOK, Current

\* A sign-in opens a version and sends its call.
LEMMA SignInType ==
    ASSUME IInv, NEW kind \in {"login", "oauth"}, NEW u \in Users, SignIn(kind, u)
    PROVE  /\ version' \in 1..2 * MaxVersion + 1
           /\ version + 1 \in 0..2 * MaxVersion + 1
           /\ asked' \in Users \cup {None} /\ overtaken' \in BOOLEAN
           /\ calls' \subseteq Calls
<1>1. version < MaxVersion BY DEF SignIn
<1>2. PICK v \in 1..MaxVersion : v = version + 1 BY <1>1, VersionBounds
<1>3. v \in 0..2 * MaxVersion + 1 /\ v \in 1..2 * MaxVersion + 1 BY VersionBounds
<1>4. Call(kind, u, None, v) \in Calls BY <1>3, CallType DEF Kinds
<1>5. calls' = calls \cup {Call(kind, u, None, v)} BY <1>2 DEF SignIn
<1>6. calls' \subseteq Calls BY <1>4, <1>5 DEF IInv, TypeOK
<1>7. QED BY <1>2, <1>3, <1>6 DEF SignIn

\* The variables keep their types.
LEMMA TypeKept ==
    ASSUME IInv, [Next]_vars
    PROVE  TypeOK'
<1> USE DEF IInv
<1>1. ASSUME NEW to \in Pages, Load(to) PROVE TypeOK'
  <2>1. PICK v \in 1..MaxVersion : v = version + 1 BY <1>1, VersionBounds DEF Load
  <2>2. kept \in Pairs \cup {None} BY DEF TypeOK
  <2>3. /\ StartRefresh(kept, v) \subseteq Calls
        /\ StartFlight(kept, v) \in (Pairs \X (1..2 * MaxVersion + 1)) \cup {None}
        /\ StartWait(kept, v) \in 0..2 * MaxVersion + 1
        /\ OwnerOf(kept) \in Users \cup {None}
    BY <2>2, StartType
  <2>4. /\ version' = v /\ held' = None /\ asked' = OwnerOf(kept) /\ overtaken' = FALSE
        /\ page' = to /\ submitting' = 0 /\ flight' = StartFlight(kept, v)
        /\ starting' = StartWait(kept, v)
        /\ request' = [r \in Requests |-> IF request[r] = NoRequest THEN NoRequest ELSE Done]
        /\ calls' = {c \in calls : c.kind # "signup"} \cup StartRefresh(kept, v)
        /\ UNCHANGED <<kept, current, issued, lapsed>>
    BY <1>1, <2>1 DEF Load, server
  <2>5. calls' \subseteq Calls BY <2>3, <2>4 DEF TypeOK
  <2>6. request' \in [Requests -> RequestType] BY <2>4, DoneType DEF RequestType
  <2>7. version' \in 1..2 * MaxVersion + 1 /\ submitting' \in 0..2 * MaxVersion + 1
    BY <2>4, VersionBounds
  <2>8. QED BY <2>3, <2>4, <2>5, <2>6, <2>7 DEF TypeOK, RequestType
<1>2. ASSUME NEW u \in Users, SubmitLogin(u) PROVE TypeOK'
  <2>1. SignIn("login", u) BY <1>2 DEF SubmitLogin
  <2>2. /\ version' \in 1..2 * MaxVersion + 1
        /\ version + 1 \in 0..2 * MaxVersion + 1
        /\ asked' \in Users \cup {None} /\ overtaken' \in BOOLEAN
        /\ calls' \subseteq Calls
    BY <2>1, SignInType
  <2>3. /\ submitting' = version + 1
        /\ UNCHANGED <<held, kept, flight, starting, page, request, current, issued, lapsed>>
    BY <1>2 DEF SubmitLogin, server
  <2>4. QED BY <2>2, <2>3 DEF TypeOK
<1>3. ASSUME NEW u \in Users, SubmitSignup(u) PROVE TypeOK'
  <2>1. Call("signup", u, None, 0) \in Calls BY CallType, VersionBounds DEF Kinds
  <2>2. calls' \subseteq Calls BY <1>3, <2>1 DEF SubmitSignup, TypeOK
  <2>3. QED BY <1>3, <2>2 DEF SubmitSignup, TypeOK, tab, history, server
<1>4. ASSUME NEW u \in Users, OAuthEffect(u) PROVE TypeOK'
  <2>1. SignIn("oauth", u) BY <1>4 DEF OAuthEffect
  <2>2. /\ version' \in 1..2 * MaxVersion + 1
        /\ asked' \in Users \cup {None} /\ overtaken' \in BOOLEAN
        /\ calls' \subseteq Calls
    BY <2>1, SignInType
  <2>3. /\ page' = "oauth"
        /\ UNCHANGED <<held, kept, flight, starting, submitting, request, current, issued, lapsed>>
    BY <1>4 DEF OAuthEffect, server
  <2>4. QED BY <2>2, <2>3 DEF TypeOK, Pages
<1>5. CASE Logout
  <2>1. /\ version < MaxVersion /\ held # None
        /\ version' = version + 1 /\ held' = None /\ kept' = None /\ asked' = None
        /\ overtaken' = FALSE /\ page' = "public"
        /\ calls' = calls \cup {Call("logout", held.user, held, version)}
        /\ UNCHANGED <<flight, starting, submitting, request, current, issued, lapsed>>
    BY <1>5 DEF Logout, ClearTokens, server
  <2>2. PICK p \in Pairs : p = held BY <2>1 DEF TypeOK
  <2>3. p.user \in Users BY DEF Pairs
  <2>4. Call("logout", p.user, p, version) \in Calls BY <2>3, CallType, VersionBounds DEF Kinds
  <2>5. calls' \subseteq Calls BY <2>1, <2>2, <2>4 DEF TypeOK
  <2>6. version' \in 1..2 * MaxVersion + 1 BY <2>1, VersionBounds
  <2>7. QED BY <2>1, <2>5, <2>6 DEF TypeOK, Pages
<1>6. ASSUME NEW to \in Pages, FollowLink(to) PROVE TypeOK'
  BY <1>6, VersionBounds DEF FollowLink, TypeOK, history, server
<1>7. CASE KeepOut
  BY <1>7 DEF KeepOut, TypeOK, history, server, Pages
<1>8. CASE LeaveForm
  BY <1>8, VersionBounds DEF LeaveForm, TypeOK, history, server, Pages
<1>9. ASSUME NEW q \in RequestType, NEW r \in Requests, request' = [request EXCEPT ![r] = q],
             UNCHANGED <<version, held, kept, starting, page, submitting, history, server>>,
             flight' \in (Pairs \X (1..2 * MaxVersion + 1)) \cup {None}, calls' \subseteq Calls
      PROVE  TypeOK'
  <2>1. request' \in [Requests -> RequestType] BY <1>9 DEF TypeOK, RequestType
  <2>2. QED BY <1>9, <2>1 DEF TypeOK, history, server, RequestType
<1>10. Done \in RequestType BY DoneType DEF RequestType
<1>11. ASSUME NEW r \in Requests, Send(r) PROVE TypeOK'
  <2>1. [phase |-> "sent", version |-> version, first |-> held, last |-> held] \in RequestType
    BY VersionBounds DEF RequestType, TypeOK, Phases
  <2>2. QED BY <1>9, <1>11, <2>1 DEF Send, tab, TypeOK
<1>12. ASSUME NEW r \in Requests, Settle(r) \/ GiveUp(r) PROVE TypeOK'
  BY <1>9, <1>10, <1>12 DEF Settle, GiveUp, tab, TypeOK
<1>13. ASSUME NEW r \in Requests, RetryAtOnce(r) PROVE TypeOK'
  <2>1. PICK q : q = [request[r] EXCEPT !.phase = "retried", !.last = held] OBVIOUS
  <2>2. q \in RequestType BY <2>1 DEF RequestType, TypeOK, Phases
  <2>3. request' = [request EXCEPT ![r] = q] BY <1>13, <2>1 DEF RetryAtOnce, TypeOK
  <2>4. QED BY <1>9, <1>13, <2>2, <2>3 DEF RetryAtOnce, tab, TypeOK
<1>14. ASSUME NEW r \in Requests, AwaitRefresh(r) PROVE TypeOK'
  <2>1. PICK q : q = [request[r] EXCEPT !.phase = "refreshing"] OBVIOUS
  <2>2. q \in RequestType BY <2>1 DEF RequestType, TypeOK, Phases
  <2>3. request' = [request EXCEPT ![r] = q] BY <1>14, <2>1 DEF AwaitRefresh, TypeOK
  <2>4. PICK p \in Pairs : p = held BY <1>14 DEF AwaitRefresh, TypeOK
  <2>5. p.user \in Users BY DEF Pairs
  <2>6. Call("refresh", p.user, p, version) \in Calls BY <2>5, CallType, VersionBounds DEF Kinds
  <2>7. calls' \subseteq Calls
    BY <1>14, <2>4, <2>6 DEF AwaitRefresh, RefreshSession, RefreshCall, TypeOK
  <2>8. flight' \in (Pairs \X (1..2 * MaxVersion + 1)) \cup {None}
    BY <1>14, <2>4, VersionBounds DEF AwaitRefresh, RefreshSession
  <2>9. QED BY <1>9, <1>14, <2>2, <2>3, <2>7, <2>8 DEF AwaitRefresh
<1>15. ASSUME NEW c \in calls, RefreshArrives(c) PROVE TypeOK'
  <2>1. /\ version' \in 1..2 * MaxVersion + 1
        /\ held' \in Pairs \cup {None} /\ kept' \in Pairs \cup {None}
        /\ asked' \in Users \cup {None} /\ overtaken' \in BOOLEAN
    <3>1. CASE Brings(c) /\ Current(c) /\ ApplyTokens(c.tokens)
      BY <3>1 DEF Brings, ApplyTokens, TypeOK, history
    <3>2. CASE Refused(c) /\ Current(c) /\ ClearTokens
      BY <3>2, VersionBounds DEF ClearTokens
    <3>3. CASE KeepTokens
      BY <3>3 DEF KeepTokens, TypeOK, history
    <3>4. QED BY <1>15, <3>1, <3>2, <3>3 DEF RefreshArrives
  <2>2. flight' \in (Pairs \X (1..2 * MaxVersion + 1)) \cup {None}
        /\ starting' \in 0..2 * MaxVersion + 1
    BY <1>15, VersionBounds DEF RefreshArrives, RefreshOver, TypeOK
  <2>3. request' \in [Requests -> RequestType]
    <3>1. ASSUME NEW r \in Requests, Brings(c)
          PROVE  [request[r] EXCEPT !.phase = "retried", !.last = c.tokens] \in RequestType
      BY <3>1 DEF Brings, RequestType, TypeOK, Phases
    <3>2. \A r \in Requests : request[r] \in RequestType BY DEF TypeOK, RequestType
    <3>3. QED BY <1>10, <1>15, <3>1, <3>2 DEF RefreshArrives, Resume
  <2>4. calls' \subseteq Calls BY <1>15 DEF RefreshArrives, TypeOK
  <2>5. UNCHANGED <<page, submitting, current, issued, lapsed>> BY <1>15 DEF RefreshArrives, server
  <2>6. QED BY <2>1, <2>2, <2>3, <2>4, <2>5 DEF TypeOK, RequestType
<1>16. ASSUME NEW c \in calls, SignInArrives(c) PROVE TypeOK'
  <2>1. /\ version' = version /\ held' \in Pairs \cup {None} /\ kept' \in Pairs \cup {None}
        /\ UNCHANGED <<asked, overtaken>>
    BY <1>16 DEF SignInArrives, Brings, ApplyTokens, KeepTokens, TypeOK, history
  <2>2. page' \in Pages /\ submitting' \in 0..2 * MaxVersion + 1 /\ calls' \subseteq Calls
    BY <1>16, VersionBounds DEF SignInArrives, TypeOK, Pages
  <2>3. UNCHANGED <<flight, starting, request, current, issued, lapsed>>
    BY <1>16 DEF SignInArrives, server
  <2>4. QED BY <2>1, <2>2, <2>3 DEF TypeOK
<1>17. ASSUME NEW c \in calls, SignupArrives(c) PROVE TypeOK'
  <2>1. c \in Calls /\ calls \ {c} \subseteq Calls BY DEF TypeOK
  <2>2. /\ version' \in 1..2 * MaxVersion + 1 /\ calls' \subseteq Calls
        /\ asked' \in Users \cup {None} /\ overtaken' \in BOOLEAN
    <3>1. CASE version' = version + 1
      <4>1. /\ version < MaxVersion /\ asked' = c.user /\ overtaken' = (held # None)
            /\ calls' = (calls \ {c}) \cup {Call("login", c.user, None, version + 1)}
        BY <1>17, <3>1, VersionBounds DEF SignupArrives
      <4>2. PICK v \in 1..MaxVersion : v = version + 1 BY <4>1, VersionBounds
      <4>3. v \in 0..2 * MaxVersion + 1 /\ v \in 1..2 * MaxVersion + 1 /\ c.user \in Users
        BY <2>1, VersionBounds DEF Calls
      <4>4. Call("login", c.user, None, v) \in Calls BY <4>3, CallType DEF Kinds
      <4>5. calls' \subseteq Calls BY <2>1, <4>1, <4>2, <4>4
      <4>6. QED BY <3>1, <4>1, <4>2, <4>3, <4>5
    <3>2. CASE calls' = calls \ {c} /\ UNCHANGED <<version, history>>
      BY <3>2, <2>1 DEF TypeOK, history
    <3>3. QED BY <1>17, <3>1, <3>2 DEF SignupArrives
  <2>3. UNCHANGED <<held, kept, flight, starting, page, submitting, request, current, issued, lapsed>>
    BY <1>17 DEF SignupArrives, server
  <2>4. QED BY <2>2, <2>3 DEF TypeOK
<1>18. ASSUME NEW c \in calls, LogoutArrives(c) PROVE TypeOK'
  BY <1>18 DEF LogoutArrives, TypeOK, tab, history, server
<1>19. CASE Serve
  <2>1. /\ UNCHANGED <<tab, request, lapsed>> /\ calls' \subseteq Calls
        /\ current' \in [Users -> 0..MaxIssued] /\ issued' \in 0..MaxIssued
    BY <1>19, ServeCases DEF TypeOK
  <2>2. QED BY <2>1 DEF TypeOK, tab, history
<1>20. CASE Lapse
  BY <1>20 DEF Lapse, TypeOK, tab, history
<1>21. CASE Expire
  <2>1. current' = [current EXCEPT ![kept.user] = 0] /\ UNCHANGED <<tab, request, calls, issued, lapsed>>
    BY <1>21 DEF Expire
  <2>2. 0 \in 0..MaxIssued BY SessionAssumption
  <2>3. current' \in [Users -> 0..MaxIssued] BY <2>1, <2>2 DEF TypeOK
  <2>4. QED BY <2>1, <2>3 DEF TypeOK, tab, history
<1>22. CASE UNCHANGED vars
  BY <1>22 DEF vars, tab, history, server, TypeOK
<1>23. QED
  BY <1>1, <1>2, <1>3, <1>4, <1>5, <1>6, <1>7, <1>8, <1>11, <1>12, <1>13, <1>14, <1>15, <1>16,
     <1>17, <1>18, <1>19, <1>20, <1>21, <1>22
     DEF Next, Reload, SignUps, Fetches, Arrive, Pages

\* What a step does to the session, the requests and the calls.
session == <<version, held, kept, flight, asked, overtaken>>

\* A sign-in opens a version; the calls in rest remain.
Opens(kind, u, rest) ==
    /\ version < MaxVersion
    /\ version' = version + 1
    /\ asked' = u
    /\ overtaken' = (held # None)
    /\ calls' = rest \cup {Call(kind, u, None, version + 1)}
    /\ UNCHANGED <<held, kept, flight, request>>

\* A call is over without a consequence for the session.
Drops(c) == calls' = calls \ {c} /\ UNCHANGED <<session, request>>

\* The server makes d of a call.
Serves(c, d) ==
    /\ c.kind \in {"login", "oauth", "refresh"}
    /\ calls' = (calls \ {c}) \cup {d}
    /\ d.kind = c.kind /\ d.user = c.user /\ d.pair = c.pair /\ d.version = c.version
    /\ d.tokens \in Pairs => d.tokens.user = c.user
    /\ UNCHANGED <<session, request>>

LEMMA StepCases ==
    ASSUME IInv, [Next]_vars
    PROVE  \/ \E to \in Pages : Load(to)
           \/ \E kind \in {"login", "oauth"}, u \in Users, rest \in SUBSET calls : Opens(kind, u, rest)
           \/ \E u \in Users : SubmitSignup(u)
           \/ Logout
           \/ \E r \in Requests : Send(r) \/ Settle(r) \/ GiveUp(r) \/ RetryAtOnce(r) \/ AwaitRefresh(r)
           \/ \E c \in calls : RefreshArrives(c) \/ SignInArrives(c) \/ Drops(c)
           \/ \E c \in calls, d \in Calls : Serves(c, d)
           \/ UNCHANGED <<session, request, calls>>
<1>1. ASSUME NEW u \in Users, SubmitLogin(u) PROVE Opens("login", u, calls)
  BY <1>1 DEF SubmitLogin, SignIn, Opens
<1>2. ASSUME NEW u \in Users, OAuthEffect(u) PROVE Opens("oauth", u, calls)
  BY <1>2 DEF OAuthEffect, SignIn, Opens
<1>3. ASSUME NEW to \in Pages, FollowLink(to) \/ KeepOut \/ LeaveForm
      PROVE  UNCHANGED <<session, request, calls>>
  BY <1>3 DEF FollowLink, KeepOut, LeaveForm, session, history
<1>4. ASSUME NEW c \in calls, SignupArrives(c)
      PROVE  (\E u \in Users : Opens("login", u, calls \ {c})) \/ Drops(c)
  <2>1. c.user \in Users BY DEF IInv, TypeOK, Calls
  <2>2. QED BY <1>4, <2>1 DEF SignupArrives, Opens, Drops, session, history
<1>5. ASSUME NEW c \in calls, LogoutArrives(c) PROVE Drops(c)
  BY <1>5 DEF LogoutArrives, Drops, session, tab, history
<1>6. CASE Serve
  <2>1. ASSUME UNCHANGED <<tab, request, lapsed>> PROVE UNCHANGED <<session, request>>
    BY <2>1 DEF session, tab, history
  <2>2. QED BY <1>6, <2>1, ServeCases DEF IInv, Serves, Drops
<1>7. CASE Lapse \/ Expire \/ UNCHANGED vars
  BY <1>7 DEF Lapse, Expire, vars, session, tab, history
<1>8. calls \in SUBSET calls /\ \A c \in calls : calls \ {c} \in SUBSET calls OBVIOUS
<1>9. CASE Reload \/ Load("oauth") BY <1>9 DEF Reload, Pages
<1>10. CASE SignUps BY <1>1, <1>2, <1>8, <1>10 DEF SignUps
<1>11. ASSUME NEW kind \in Kinds, Arrive(kind)
       PROVE  \/ \E k \in {"login", "oauth"}, u \in Users, rest \in SUBSET calls : Opens(k, u, rest)
              \/ \E c \in calls : RefreshArrives(c) \/ SignInArrives(c) \/ Drops(c)
  <2>1. PICK c \in calls :
            RefreshArrives(c) \/ SignInArrives(c) \/ SignupArrives(c) \/ LogoutArrives(c)
    BY <1>11 DEF Arrive
  <2>2. QED BY <2>1, <1>4, <1>5, <1>8
<1>12. CASE Fetches BY <1>12 DEF Fetches
<1>13. "public" \in Pages BY DEF Pages
<1>14. QED
  BY <1>3, <1>6, <1>7, <1>9, <1>10, <1>11, <1>12, <1>13 DEF Next

\* What a page load does.
LEMMA LoadEffect ==
    ASSUME IInv, NEW to \in Pages, Load(to)
    PROVE  /\ version < MaxVersion /\ version' = version + 1
           /\ held' = None /\ kept' = kept /\ overtaken' = FALSE
           /\ asked' = OwnerOf(kept) /\ flight' = StartFlight(kept, version + 1)
           /\ starting' = StartWait(kept, version + 1)
           /\ \A r \in Requests : request'[r].phase \in {"idle", "done"} /\ request'[r].version = 0
           /\ \A c \in calls' : \/ c \in calls
                                \/ /\ kept # None /\ kept \in Pairs
                                   /\ c = Call("refresh", kept.user, kept, version + 1)
<1>1. \A r \in Requests : request'[r].phase \in {"idle", "done"} /\ request'[r].version = 0
  BY DoneType DEF Load
<1>2. ASSUME NEW c \in calls', c \notin calls
      PROVE  /\ kept # None /\ kept \in Pairs
             /\ c = Call("refresh", kept.user, kept, version + 1)
  BY <1>2 DEF Load, StartRefresh, IInv, TypeOK
<1>3. QED BY <1>1, <1>2 DEF Load

\* What a sign-out does.
LEMMA LogoutEffect ==
    ASSUME IInv, Logout
    PROVE  /\ version < MaxVersion /\ version' = version + 1
           /\ held # None /\ held \in Pairs /\ held' = None /\ kept' = None
           /\ asked' = None /\ overtaken' = FALSE
           /\ calls' = calls \cup {Call("logout", held.user, held, version)}
           /\ UNCHANGED <<flight, request>>
BY DEF Logout, ClearTokens, IInv, TypeOK

\* What the answer to a refresh does to the session.
LEMMA RefreshEffect ==
    ASSUME IInv, NEW c \in calls, RefreshArrives(c)
    PROVE  /\ c.kind = "refresh" /\ calls' = calls \ {c}
           /\ \/ /\ RefreshNow(c) /\ c.tokens \in Pairs
                 /\ held' = c.tokens /\ kept' = c.tokens
                 /\ UNCHANGED <<version, asked, overtaken>>
              \/ /\ RefreshNow(c) /\ Refused(c)
                 /\ version' = version + 1
                 /\ held' = None /\ kept' = None /\ asked' = None /\ overtaken' = FALSE
              \/ UNCHANGED <<version, held, kept, asked, overtaken>>
           /\ flight' = IF flight = <<c.pair, c.version>> THEN None ELSE flight
           /\ \A r \in Requests :
                 \/ request'[r] = request[r]
                 \/ request'[r] = Done
                 \/ /\ RefreshNow(c) /\ c.tokens \in Pairs /\ request[r].phase = "refreshing"
                    /\ request[r].first = c.pair /\ SameSession(r)
                    /\ request'[r].phase = "retried" /\ request'[r].last = c.tokens
                    /\ request'[r].version = request[r].version
<1>1. /\ c.kind = "refresh" /\ calls' = calls \ {c}
      /\ flight' = IF flight = <<c.pair, c.version>> THEN None ELSE flight
  BY DEF RefreshArrives, RefreshOver
<1>2. \/ /\ RefreshNow(c) /\ c.tokens \in Pairs
         /\ held' = c.tokens /\ kept' = c.tokens
         /\ UNCHANGED <<version, asked, overtaken>>
      \/ /\ RefreshNow(c) /\ Refused(c)
         /\ version' = version + 1
         /\ held' = None /\ kept' = None /\ asked' = None /\ overtaken' = FALSE
      \/ UNCHANGED <<version, held, kept, asked, overtaken>>
  BY DEF RefreshArrives, RefreshNow, Brings, ApplyTokens, ClearTokens, KeepTokens, history
<1>3. ASSUME NEW r \in Requests, request'[r] # request[r], request'[r] # Done
      PROVE  /\ RefreshNow(c) /\ c.tokens \in Pairs /\ request[r].phase = "refreshing"
             /\ request[r].first = c.pair /\ SameSession(r)
             /\ request'[r].phase = "retried" /\ request'[r].last = c.tokens
             /\ request'[r].version = request[r].version
  <2>1. /\ Brings(c) /\ Current(c) /\ SameSession(r)
        /\ request[r].phase = "refreshing" /\ request[r].first = c.pair
        /\ request'[r] = [request[r] EXCEPT !.phase = "retried", !.last = c.tokens]
    BY <1>3 DEF RefreshArrives, Resume
  <2>2. request[r] \in RequestType BY DEF IInv, TypeOK, RequestType
  <2>3. PICK q : q = [request[r] EXCEPT !.phase = "retried", !.last = c.tokens] OBVIOUS
  <2>4. q.phase = "retried" /\ q.last = c.tokens /\ q.version = request[r].version
    BY <2>2, <2>3 DEF RequestType
  <2>5. QED BY <1>1, <2>1, <2>3, <2>4 DEF RefreshNow, Brings
<1>4. QED BY <1>1, <1>2, <1>3

\* What the answer to a sign-in does to the session.
LEMMA SignInEffect ==
    ASSUME IInv, NEW c \in calls, SignInArrives(c)
    PROVE  /\ calls' = calls \ {c}
           /\ \/ /\ SignInNow(c) /\ c.tokens \in Pairs
                 /\ held' = c.tokens /\ kept' = c.tokens
              \/ UNCHANGED <<held, kept>>
           /\ UNCHANGED <<version, asked, overtaken, flight, request>>
BY DEF SignInArrives, SignInNow, Brings, ApplyTokens, KeepTokens, history

\* What may become of a request.
FetchStep(q) ==
    \/ request'[q] = request[q]
    \/ request'[q] = Done
    \/ /\ request'[q].phase = "sent" /\ request'[q].version = version
       /\ request'[q].first = held
    \/ /\ request[q].phase = "sent" /\ SameSession(q)
       /\ held # None /\ request'[q].phase = "retried" /\ request'[q].last = held
       /\ request'[q].version = request[q].version
    \/ /\ request[q].phase = "sent" /\ request'[q].phase = "refreshing"
       /\ request'[q].version = request[q].version
       /\ request'[q].first = request[q].first

\* What a request does.
LEMMA FetchEffect ==
    ASSUME IInv, NEW r \in Requests, NEW q \in Requests,
           Send(r) \/ Settle(r) \/ GiveUp(r) \/ RetryAtOnce(r) \/ AwaitRefresh(r)
    PROVE  /\ UNCHANGED <<version, held, kept, asked, overtaken>>
           /\ \/ UNCHANGED <<flight, calls>>
              \/ /\ held # None /\ held \in Pairs
                 /\ flight' = <<held, version>>
                 /\ \/ flight = <<held, version>> /\ calls' = calls
                    \/ /\ flight # <<held, version>>
                       /\ calls' = calls \cup {Call("refresh", held.user, held, version)}
           /\ FetchStep(q)
<1>1. UNCHANGED <<version, held, kept, asked, overtaken>>
  BY DEF Send, Settle, GiveUp, RetryAtOnce, AwaitRefresh, tab, history
<1>2. \/ UNCHANGED <<flight, calls>>
      \/ /\ held # None /\ held \in Pairs
         /\ flight' = <<held, version>>
         /\ \/ flight = <<held, version>> /\ calls' = calls
            \/ /\ flight # <<held, version>>
               /\ calls' = calls \cup {Call("refresh", held.user, held, version)}
  BY DEF Send, Settle, GiveUp, RetryAtOnce, AwaitRefresh, tab, RefreshSession, RefreshCall,
         IInv, TypeOK
<1>3. request \in [Requests -> RequestType] /\ request[q] \in RequestType
  BY DEF IInv, TypeOK, RequestType
<1>4. q # r => request'[q] = request[q]
  BY <1>3 DEF Send, Settle, GiveUp, RetryAtOnce, AwaitRefresh
<1>5. ASSUME q = r PROVE FetchStep(q)
  <2>1. CASE Send(r)
    BY <1>3, <1>5, <2>1 DEF Send, FetchStep
  <2>2. CASE Settle(r) \/ GiveUp(r)
    BY <1>3, <1>5, <2>2 DEF Settle, GiveUp, FetchStep
  <2>3. CASE RetryAtOnce(r)
    BY <1>3, <1>5, <2>3 DEF RetryAtOnce, Unauthorized, RequestType, FetchStep
  <2>4. CASE AwaitRefresh(r)
    BY <1>3, <1>5, <2>4 DEF AwaitRefresh, Unauthorized, RequestType, FetchStep
  <2>5. QED BY <2>1, <2>2, <2>3, <2>4
<1>6. QED BY <1>1, <1>2, <1>4, <1>5 DEF FetchStep

\* The types that the parts below compare.
LEMMA Typed ==
    ASSUME IInv
    PROVE  /\ version \in Nat /\ MaxVersion \in Nat
           /\ \A c \in calls : c \in Calls /\ c.version \in Nat /\ c.user \in Users
           /\ \A c \in Calls : c.version \in Nat
           /\ \A r \in Requests : request[r] \in RequestType /\ request[r].version \in Nat
           /\ held \in Pairs \cup {None} /\ kept \in Pairs \cup {None}
           /\ asked \in Users \cup {None} /\ overtaken \in BOOLEAN
           /\ None \notin Pairs /\ None \notin Users
           /\ \A p \in Pairs : p.user \in Users
<1>1. version \in Nat /\ MaxVersion \in Nat BY SessionAssumption DEF IInv, TypeOK
<1>2. \A c \in Calls : c.version \in Nat /\ c.user \in Users BY <1>1 DEF Calls
<1>3. \A r \in Requests : request[r] \in RequestType /\ request[r].version \in Nat
  BY <1>1 DEF IInv, TypeOK, RequestType
<1>4. None \notin Pairs /\ None \notin Users /\ \A p \in Pairs : p.user \in Users
  BY SessionAssumption DEF Pairs
<1>5. QED BY <1>1, <1>2, <1>3, <1>4 DEF IInv, TypeOK

\* Versions only grow, by what the user does or by a refusal.
LEMMA VersionsKept ==
    ASSUME IInv, [Next]_vars
    PROVE  VersionsOK'
<1> USE Typed, SessionAssumption DEF IInv, VersionsOK
<1>1. ASSUME NEW to \in Pages, Load(to) PROVE VersionsOK'
  <2>1. ASSUME NEW c \in calls' PROVE c.version <= version' /\ c.version <= MaxVersion
    <3>1. version < MaxVersion /\ version' = version + 1 BY <1>1, LoadEffect
    <3>2. CASE c \in calls BY <3>1, <3>2
    <3>3. CASE c = Call("refresh", kept.user, kept, version + 1) BY <3>1, <3>3, CallFields
    <3>4. QED BY <1>1, <2>1, <3>2, <3>3, LoadEffect
  <2>2. /\ version < MaxVersion /\ version' = version + 1 /\ held' = None
        /\ \A r \in Requests : request'[r].version = 0
    BY <1>1, LoadEffect
  <2>3. QED BY <2>1, <2>2
<1>2. ASSUME NEW kind \in {"login", "oauth"}, NEW u \in Users, NEW rest \in SUBSET calls,
             Opens(kind, u, rest)
      PROVE  VersionsOK'
  <2>1. PICK d : d = Call(kind, u, None, version + 1) OBVIOUS
  <2>2. d.version = version + 1 BY <2>1, CallFields
  <2>3. QED BY <1>2, <2>1, <2>2 DEF Opens
<1>3. ASSUME NEW u \in Users, SubmitSignup(u) PROVE VersionsOK'
  <2>1. PICK d : d = Call("signup", u, None, 0) OBVIOUS
  <2>2. d.version = 0 BY <2>1, CallFields
  <2>3. calls' = calls \cup {d} /\ UNCHANGED <<version, held, request>>
    BY <1>3, <2>1 DEF SubmitSignup, tab
  <2>4. QED BY <2>2, <2>3
<1>4. CASE Logout
  <2>1. PICK d : d = Call("logout", held.user, held, version) OBVIOUS
  <2>2. d.version = version BY <2>1, CallFields
  <2>3. /\ version < MaxVersion /\ version' = version + 1 /\ held' = None
        /\ calls' = calls \cup {d} /\ request' = request
    BY <1>4, <2>1, LogoutEffect
  <2>4. QED BY <2>2, <2>3
<1>5. ASSUME NEW r \in Requests,
             Send(r) \/ Settle(r) \/ GiveUp(r) \/ RetryAtOnce(r) \/ AwaitRefresh(r)
      PROVE  VersionsOK'
  <2>1. PICK d : d = Call("refresh", held.user, held, version) OBVIOUS
  <2>2. d.version = version BY <2>1, CallFields
  <2>3. UNCHANGED <<version, held>> BY <1>5, FetchEffect
  <2>4. \A c \in calls' : c.version <= version /\ c.version <= MaxVersion
    BY <1>5, <2>1, <2>2, FetchEffect
  <2>5. ASSUME NEW q \in Requests PROVE request'[q].version <= version
    <3>1. FetchStep(q) BY <1>5, FetchEffect
    <3>2. QED BY <3>1, DoneType DEF FetchStep
  <2>6. QED BY <2>3, <2>4, <2>5
<1>6. ASSUME NEW c \in calls, RefreshArrives(c) PROVE VersionsOK'
  <2>1. RefreshNow(c) => version <= MaxVersion BY DEF RefreshNow, Current
  <2>2. version' <= MaxVersion + 1 /\ version <= version' /\ version' \in Nat
    <3>1. version' = version \/ (version' = version + 1 /\ RefreshNow(c)) BY <1>6, RefreshEffect
    <3>2. QED BY <2>1, <3>1
  <2>3. held' # None => version' <= MaxVersion
    BY <1>6, <2>1, RefreshEffect
  <2>4. ASSUME NEW r \in Requests PROVE request'[r].version <= version
    <3>1. request'[r].version = request[r].version \/ request'[r] = Done BY <1>6, RefreshEffect
    <3>2. QED BY <3>1, DoneType
  <2>5. calls' = calls \ {c} BY <1>6, RefreshEffect
  <2>6. ASSUME NEW d \in calls' PROVE d.version <= version' /\ d.version <= MaxVersion
    BY <2>2, <2>5, <2>6
  <2>7. ASSUME NEW r \in Requests PROVE request'[r].version <= version'
    <3>1. request'[r].version = request[r].version \/ request'[r] = Done BY <1>6, RefreshEffect
    <3>2. request'[r].version \in Nat BY <3>1, DoneType
    <3>3. QED BY <2>2, <2>4, <3>2
  <2>8. QED BY <2>2, <2>3, <2>6, <2>7
<1>7. ASSUME NEW c \in calls, SignInArrives(c) PROVE VersionsOK'
  BY <1>7, SignInEffect DEF SignInNow, Current
<1>8. ASSUME NEW c \in calls, Drops(c) PROVE VersionsOK'
  BY <1>8 DEF Drops, session
<1>9. ASSUME NEW c \in calls, NEW d \in Calls, Serves(c, d) PROVE VersionsOK'
  BY <1>9 DEF Serves, session
<1>10. CASE UNCHANGED <<session, request, calls>>
  BY <1>10 DEF session
<1>11. QED
  BY <1>1, <1>2, <1>3, <1>4, <1>5, <1>6, <1>7, <1>8, <1>9, <1>10, StepCases

\* Calls and their answers stay those of an account.
LEMMA CallsKept ==
    ASSUME IInv, [Next]_vars
    PROVE  CallsOK'
<1> DEFINE OK(c) == /\ c.kind = "refresh" => c.pair \in Pairs /\ c.pair.user = c.user
                    /\ c.tokens \in Pairs => c.tokens.user = c.user
<1>1. \A c \in calls : OK(c) BY DEF IInv, CallsOK
<1>2. ASSUME NEW kind, NEW u, NEW pair, NEW v, NEW c, c = Call(kind, u, pair, v),
             kind = "refresh" => pair \in Pairs /\ pair.user = u
      PROVE  OK(c)
  <2>1. c.kind = kind /\ c.user = u /\ c.pair = pair /\ c.tokens = None BY <1>2, CallFields
  <2>2. None \notin Pairs BY Typed
  <2>3. QED BY <1>2, <2>1, <2>2
<1>3. ASSUME NEW to \in Pages, Load(to), NEW c \in calls' PROVE OK(c)
  <2>1. CASE c \in calls BY <1>1, <2>1
  <2>2. CASE kept \in Pairs /\ c = Call("refresh", kept.user, kept, version + 1) BY <1>2, <2>2
  <2>3. QED BY <1>3, <2>1, <2>2, LoadEffect
<1>4. ASSUME NEW kind \in {"login", "oauth"}, NEW u \in Users, NEW rest \in SUBSET calls,
             Opens(kind, u, rest), NEW c \in calls'
      PROVE  OK(c)
  BY <1>1, <1>2, <1>4 DEF Opens
<1>5. ASSUME NEW u \in Users, SubmitSignup(u), NEW c \in calls' PROVE OK(c)
  BY <1>1, <1>2, <1>5 DEF SubmitSignup
<1>6. ASSUME Logout, NEW c \in calls' PROVE OK(c)
  BY <1>1, <1>2, <1>6, LogoutEffect
<1>7. ASSUME NEW r \in Requests,
             Send(r) \/ Settle(r) \/ GiveUp(r) \/ RetryAtOnce(r) \/ AwaitRefresh(r), NEW c \in calls'
      PROVE  OK(c)
  BY <1>1, <1>2, <1>7, FetchEffect
<1>8. ASSUME NEW c \in calls, RefreshArrives(c) \/ SignInArrives(c) \/ Drops(c), NEW d \in calls'
      PROVE  OK(d)
  BY <1>1, <1>8, RefreshEffect, SignInEffect DEF Drops
<1>9. ASSUME NEW c \in calls, NEW d \in Calls, Serves(c, d), NEW e \in calls' PROVE OK(e)
  BY <1>1, <1>9 DEF Serves
<1>10. ASSUME UNCHANGED <<session, request, calls>>, NEW c \in calls' PROVE OK(c)
  BY <1>1, <1>10
<1>11. \A c \in calls' : OK(c)
  BY <1>3, <1>4, <1>5, <1>6, <1>7, <1>8, <1>9, <1>10, StepCases
<1>12. QED BY <1>11 DEF CallsOK

\* The tab stays with the account asked for.
LEMMA HeldKept ==
    ASSUME IInv, [Next]_vars
    PROVE  HeldOK'
<1> DEFINE Right(c) == c.kind \in {"login", "oauth", "refresh"} /\ c.version = version =>
                           asked # None /\ (~overtaken => c.user = asked)
<1>1. /\ held # None /\ ~overtaken => held.user = asked
      /\ held # None => kept = held
      /\ asked = None => kept = None
      /\ \A c \in calls : Right(c)
  BY DEF IInv, HeldOK, SignedInAsAsked, SignInNow, RefreshNow, Current
<1>2. SUFFICES /\ held' # None /\ ~overtaken' => held'.user = asked'
               /\ held' # None => kept' = held'
               /\ asked' = None => kept' = None
               /\ \A c \in calls' : c.kind \in {"login", "oauth", "refresh"} /\ c.version = version' =>
                                        asked' # None /\ (~overtaken' => c.user = asked')
  BY DEF HeldOK, SignedInAsAsked, SignInNow, RefreshNow, Current
<1> DEFINE Goal == /\ held' # None /\ ~overtaken' => held'.user = asked'
                   /\ held' # None => kept' = held'
                   /\ asked' = None => kept' = None
                   /\ \A c \in calls' : c.kind \in {"login", "oauth", "refresh"} /\ c.version = version' =>
                                            asked' # None /\ (~overtaken' => c.user = asked')
<1>3. \A c \in calls : c.version <= version /\ c.version \in Nat /\ c.version # version + 1
  BY Typed DEF IInv, VersionsOK
<1>4. ASSUME NEW to \in Pages, Load(to) PROVE Goal
  <2>1. /\ version' = version + 1 /\ held' = None /\ kept' = kept /\ asked' = OwnerOf(kept)
    BY <1>4, LoadEffect
  <2>2. asked' = None => kept' = None BY <2>1, Typed DEF OwnerOf
  <2>3. ASSUME NEW c \in calls', c.version = version + 1 PROVE asked' # None /\ c.user = asked'
    <3>1. /\ kept \in Pairs /\ kept # None
          /\ c = Call("refresh", kept.user, kept, version + 1)
      BY <1>3, <1>4, <2>3, LoadEffect
    <3>2. c.user = kept.user BY <3>1, CallFields
    <3>3. asked' = kept.user /\ kept.user \in Users BY <2>1, <3>1, Typed DEF OwnerOf
    <3>4. QED BY <3>2, <3>3, Typed
  <2>4. QED BY <2>1, <2>2, <2>3
<1>5. ASSUME NEW kind \in {"login", "oauth"}, NEW u \in Users, NEW rest \in SUBSET calls,
             Opens(kind, u, rest)
      PROVE  Goal
  <2>1. PICK d : d = Call(kind, u, None, version + 1) OBVIOUS
  <2>2. d.user = u BY <2>1, CallFields
  <2>3. /\ version' = version + 1 /\ asked' = u /\ overtaken' = (held # None)
        /\ calls' = rest \cup {d} /\ UNCHANGED <<held, kept>>
    BY <1>5, <2>1 DEF Opens
  <2>4. asked' # None BY <2>3, Typed
  <2>5. ASSUME NEW c \in calls', c.version = version + 1 PROVE c = d
    BY <1>3, <2>3, <2>5
  <2>6. QED BY <1>1, <2>2, <2>3, <2>4, <2>5
<1>6. ASSUME NEW u \in Users, SubmitSignup(u) PROVE Goal
  <2>1. PICK d : d = Call("signup", u, None, 0) OBVIOUS
  <2>2. d.kind = "signup" BY <2>1, CallFields
  <2>3. calls' = calls \cup {d} /\ UNCHANGED <<version, held, kept, asked, overtaken>>
    BY <1>6, <2>1 DEF SubmitSignup, tab, history
  <2>4. QED BY <1>1, <2>2, <2>3
<1>7. ASSUME Logout PROVE Goal
  <2>1. PICK d : d = Call("logout", held.user, held, version) OBVIOUS
  <2>2. d.kind = "logout" BY <2>1, CallFields
  <2>3. /\ version' = version + 1 /\ held' = None /\ kept' = None
        /\ calls' = calls \cup {d}
    BY <1>7, <2>1, LogoutEffect
  <2>4. QED BY <1>3, <2>2, <2>3
<1>8. ASSUME NEW r \in Requests,
             Send(r) \/ Settle(r) \/ GiveUp(r) \/ RetryAtOnce(r) \/ AwaitRefresh(r)
      PROVE  Goal
  <2>1. PICK d : d = Call("refresh", held.user, held, version) OBVIOUS
  <2>2. d.user = held.user BY <2>1, CallFields
  <2>3. UNCHANGED <<version, held, kept, asked, overtaken>> BY <1>8, FetchEffect
  <2>4. calls' = calls \/ (held # None /\ calls' = calls \cup {d}) BY <1>8, <2>1, FetchEffect
  <2>5. held # None => asked # None BY <1>1
  <2>6. QED BY <1>1, <2>2, <2>3, <2>4, <2>5
<1>9. ASSUME NEW c \in calls, RefreshArrives(c) PROVE Goal
  <2>1. calls' = calls \ {c} BY <1>9, RefreshEffect
  <2>2. CASE /\ RefreshNow(c) /\ c.tokens \in Pairs
             /\ held' = c.tokens /\ kept' = c.tokens
             /\ UNCHANGED <<version, asked, overtaken>>
    <3>1. c.tokens.user = c.user BY <2>2 DEF IInv, CallsOK
    <3>2. asked # None /\ (~overtaken => c.user = asked)
      BY <1>1, <2>2 DEF RefreshNow, Current
    <3>3. QED BY <1>1, <2>1, <2>2, <3>1, <3>2
  <2>3. CASE /\ version' = version + 1
             /\ held' = None /\ kept' = None /\ asked' = None /\ overtaken' = FALSE
    BY <1>3, <2>1, <2>3
  <2>4. CASE UNCHANGED <<version, held, kept, asked, overtaken>>
    BY <1>1, <2>1, <2>4
  <2>5. QED BY <1>9, <2>2, <2>3, <2>4, RefreshEffect
<1>10. ASSUME NEW c \in calls, SignInArrives(c) PROVE Goal
  <2>1. calls' = calls \ {c} /\ UNCHANGED <<version, asked, overtaken>> BY <1>10, SignInEffect
  <2>2. CASE SignInNow(c) /\ c.tokens \in Pairs /\ held' = c.tokens /\ kept' = c.tokens
    <3>1. c.tokens.user = c.user BY <2>2 DEF IInv, CallsOK
    <3>2. asked # None /\ (~overtaken => c.user = asked)
      BY <1>1, <2>2 DEF SignInNow, Current
    <3>3. QED BY <1>1, <2>1, <2>2, <3>1, <3>2
  <2>3. CASE UNCHANGED <<held, kept>> BY <1>1, <2>1, <2>3
  <2>4. QED BY <1>10, <2>2, <2>3, SignInEffect
<1>11. ASSUME NEW c \in calls, Drops(c) PROVE Goal
  BY <1>1, <1>11 DEF Drops, session
<1>12. ASSUME NEW c \in calls, NEW d \in Calls, Serves(c, d) PROVE Goal
  <2>1. /\ calls' = (calls \ {c}) \cup {d}
        /\ d.kind = c.kind /\ d.user = c.user /\ d.version = c.version
        /\ UNCHANGED <<version, held, kept, asked, overtaken>>
    BY <1>12 DEF Serves, session
  <2>2. QED BY <1>1, <2>1
<1>13. CASE UNCHANGED <<session, request, calls>>
  BY <1>1, <1>13 DEF session
<1>14. Goal
  BY <1>4, <1>5, <1>6, <1>7, <1>8, <1>9, <1>10, <1>11, <1>12, <1>13, StepCases
<1>15. QED BY <1>14

\* A request under way stays one of its account.
LEMMA RequestsKept ==
    ASSUME IInv, [Next]_vars
    PROVE  RequestsOK'
<1>1. SUFFICES ASSUME NEW r \in Requests, request'[r].phase \in {"sent", "refreshing"},
                      request'[r].version = version', request'[r].first # None, ~overtaken'
               PROVE  request'[r].first.user = asked'
  BY DEF RequestsOK
<1>2. /\ request[r].phase \in {"sent", "refreshing"} /\ request[r].version = version
      /\ request[r].first # None /\ ~overtaken
      => request[r].first.user = asked
  BY DEF IInv, RequestsOK
<1>3. request[r].version # version + 1 BY Typed DEF IInv, VersionsOK
<1>4. ~(version' = version + 1 /\ request' = request) BY <1>1, <1>3
<1>5. ASSUME request' = request, UNCHANGED <<version, asked, overtaken>>
      PROVE  request'[r].first.user = asked'
  BY <1>1, <1>2, <1>5
<1>6. Done.phase = "done" BY DoneType
<1>7. ASSUME NEW to \in Pages, Load(to) PROVE FALSE
  BY <1>1, <1>7, LoadEffect
<1>8. ASSUME NEW kind \in {"login", "oauth"}, NEW u \in Users, NEW rest \in SUBSET calls,
             Opens(kind, u, rest)
      PROVE  FALSE
  BY <1>4, <1>8 DEF Opens
<1>9. ASSUME NEW u \in Users, SubmitSignup(u) PROVE request'[r].first.user = asked'
  BY <1>5, <1>9 DEF SubmitSignup, tab, history
<1>10. ASSUME Logout PROVE FALSE
  BY <1>4, <1>10, LogoutEffect
<1>11. ASSUME NEW q \in Requests,
             Send(q) \/ Settle(q) \/ GiveUp(q) \/ RetryAtOnce(q) \/ AwaitRefresh(q)
      PROVE  request'[r].first.user = asked'
  <2>1. FetchStep(r) /\ UNCHANGED <<version, held, asked, overtaken>> BY <1>11, FetchEffect
  <2>2. held # None /\ ~overtaken => held.user = asked
    BY DEF IInv, HeldOK, SignedInAsAsked
  <2>3. QED BY <1>1, <1>2, <1>6, <2>1, <2>2 DEF FetchStep
<1>12. ASSUME NEW c \in calls, RefreshArrives(c) PROVE request'[r].first.user = asked'
  <2>1. request'[r] = request[r] BY <1>1, <1>6, <1>12, RefreshEffect
  <2>2. version' # version + 1 BY <1>1, <1>3, <2>1
  <2>3. UNCHANGED <<version, asked, overtaken>> BY <1>12, <2>2, RefreshEffect
  <2>4. QED BY <1>1, <1>2, <2>1, <2>3
<1>13. ASSUME NEW c \in calls, SignInArrives(c) PROVE request'[r].first.user = asked'
  BY <1>5, <1>13, SignInEffect
<1>14. ASSUME NEW c \in calls, Drops(c) PROVE request'[r].first.user = asked'
  BY <1>5, <1>14 DEF Drops, session
<1>15. ASSUME NEW c \in calls, NEW d \in Calls, Serves(c, d) PROVE request'[r].first.user = asked'
  BY <1>5, <1>15 DEF Serves, session
<1>16. CASE UNCHANGED <<session, request, calls>>
  BY <1>5, <1>16 DEF session
<1>17. QED
  BY <1>7, <1>8, <1>9, <1>10, <1>11, <1>12, <1>13, <1>14, <1>15, <1>16, StepCases

\* What is on its way for the session stays one sign-in or the shared refresh.
LEMMA FlightKept ==
    ASSUME IInv, [Next]_vars
    PROVE  FlightOK'
<1> DEFINE RN(c) == c.kind = "refresh" /\ c.version = version
           SN(c) == c.kind \in {"login", "oauth"} /\ c.version = version
           RN1(c) == c.kind = "refresh" /\ c.version = version'
           SN1(c) == c.kind \in {"login", "oauth"} /\ c.version = version'
           Goal == /\ \A c, d \in calls' : RN1(c) /\ RN1(d) => c = d
                   /\ \A c \in calls' : RN1(c) =>
                         flight' = <<c.pair, c.version>> /\ (held' # None => c.pair = held')
                   /\ \A c, d \in calls' : SN1(c) /\ SN1(d) => c = d
                   /\ \A c, d \in calls' : SN1(c) => held' = None /\ ~RN1(d)
<1>1. ~overtaken =>
          /\ \A c, d \in calls : RN(c) /\ RN(d) => c = d
          /\ \A c \in calls : RN(c) =>
                flight = <<c.pair, c.version>> /\ (held # None => c.pair = held)
          /\ \A c, d \in calls : SN(c) /\ SN(d) => c = d
          /\ \A c, d \in calls : SN(c) => held = None /\ ~RN(d)
  BY DEF IInv, FlightOK, SignInNow, RefreshNow, Current
<1>2. SUFFICES ASSUME ~overtaken' PROVE Goal
  BY DEF FlightOK, SignInNow, RefreshNow, Current
<1>3. \A c \in calls : c.version # version + 1 /\ c.version \in Nat
  BY Typed DEF IInv, VersionsOK
<1>4. ASSUME UNCHANGED <<version, held, flight, overtaken>>, calls' \subseteq calls PROVE Goal
  BY <1>1, <1>2, <1>4
<1>5. ASSUME NEW to \in Pages, Load(to) PROVE Goal
  <2>1. version' = version + 1 /\ held' = None /\ flight' = StartFlight(kept, version + 1)
    BY <1>5, LoadEffect
  <2>2. PICK d : d = Call("refresh", kept.user, kept, version + 1) OBVIOUS
  <2>3. d.kind = "refresh" /\ d.pair = kept /\ d.version = version + 1 BY <2>2, CallFields
  <2>4. ASSUME NEW c \in calls', c.version = version + 1 PROVE c = d /\ kept # None
    BY <1>3, <1>5, <2>2, <2>4, LoadEffect
  <2>5. kept # None => flight' = <<kept, version + 1>> BY <2>1 DEF StartFlight
  <2>6. QED BY <2>1, <2>3, <2>4, <2>5
<1>6. ASSUME NEW kind \in {"login", "oauth"}, NEW u \in Users, NEW rest \in SUBSET calls,
             Opens(kind, u, rest)
      PROVE  Goal
  <2>1. PICK d : d = Call(kind, u, None, version + 1) OBVIOUS
  <2>2. d.kind \in {"login", "oauth"} /\ d.version = version + 1 BY <2>1, CallFields
  <2>3. version' = version + 1 /\ held' = None /\ calls' = rest \cup {d}
    BY <1>2, <1>6, <2>1 DEF Opens
  <2>4. ASSUME NEW c \in calls', c.version = version + 1 PROVE c = d BY <1>3, <2>3, <2>4
  <2>5. QED BY <2>2, <2>3, <2>4
<1>7. ASSUME NEW u \in Users, SubmitSignup(u) PROVE Goal
  <2>1. PICK d : d = Call("signup", u, None, 0) OBVIOUS
  <2>2. d.kind = "signup" BY <2>1, CallFields
  <2>3. calls' = calls \cup {d} /\ UNCHANGED <<version, held, flight, overtaken>>
    BY <1>7, <2>1 DEF SubmitSignup, tab, history
  <2>4. QED BY <1>1, <1>2, <2>2, <2>3
<1>8. ASSUME Logout PROVE Goal
  <2>1. PICK d : d = Call("logout", held.user, held, version) OBVIOUS
  <2>2. d.kind = "logout" BY <2>1, CallFields
  <2>3. version' = version + 1 /\ calls' = calls \cup {d} BY <1>8, <2>1, LogoutEffect
  <2>4. QED BY <1>3, <2>2, <2>3
<1>9. ASSUME NEW r \in Requests,
             Send(r) \/ Settle(r) \/ GiveUp(r) \/ RetryAtOnce(r) \/ AwaitRefresh(r)
      PROVE  Goal
  <2>1. PICK d : d = Call("refresh", held.user, held, version) OBVIOUS
  <2>2. d.kind = "refresh" /\ d.pair = held /\ d.version = version BY <2>1, CallFields
  <2>3. UNCHANGED <<version, held, overtaken>> BY <1>9, FetchEffect
  <2>4. CASE UNCHANGED <<flight, calls>> BY <1>4, <2>3, <2>4
  <2>5. CASE flight' = <<held, version>> /\ flight = <<held, version>> /\ calls' = calls
    BY <1>4, <2>3, <2>5
  <2>6. CASE /\ held # None /\ flight' = <<held, version>> /\ flight # <<held, version>>
             /\ calls' = calls \cup {d}
    <3>1. \A c \in calls : ~SN(c) BY <1>1, <1>2, <2>3, <2>6
    <3>2. \A c \in calls : ~RN(c) BY <1>1, <1>2, <2>3, <2>6
    <3>3. QED BY <2>2, <2>3, <2>6, <3>1, <3>2
  <2>7. QED BY <1>9, <2>1, <2>4, <2>5, <2>6, FetchEffect
<1>10. ASSUME NEW c \in calls, RefreshArrives(c) PROVE Goal
  <2>1. c.kind = "refresh" /\ calls' = calls \ {c} BY <1>10, RefreshEffect
  <2>2. CASE RN(c) /\ UNCHANGED <<version, overtaken>>
    <3>1. \A d \in calls' : ~RN(d) /\ ~SN(d) BY <1>1, <1>2, <2>1, <2>2
    <3>2. QED BY <2>2, <3>1
  <2>3. CASE version' = version + 1 BY <1>3, <2>1, <2>3
  <2>4. CASE ~RN(c) /\ UNCHANGED <<version, held, overtaken>>
    <3>1. \A d \in calls : RN(d) => <<d.pair, d.version>> # <<c.pair, c.version>>
      BY <2>1, <2>4
    <3>2. \A d \in calls : RN(d) => flight = <<d.pair, d.version>> BY <1>1, <1>2, <2>4
    <3>3. (\E d \in calls : RN(d)) => flight' = flight
      BY <1>10, <3>1, <3>2, RefreshEffect
    <3>4. QED BY <1>1, <1>2, <2>1, <2>4, <3>3
  <2>5. QED BY <1>10, <2>2, <2>3, <2>4, RefreshEffect DEF RefreshNow, Current
<1>11. ASSUME NEW c \in calls, SignInArrives(c) PROVE Goal
  <2>1. calls' = calls \ {c} /\ UNCHANGED <<version, flight, overtaken>> BY <1>11, SignInEffect
  <2>2. CASE SN(c)
    <3>1. \A d \in calls' : ~RN(d) /\ ~SN(d) BY <1>1, <1>2, <2>1, <2>2
    <3>2. QED BY <2>1, <3>1
  <2>3. CASE held' = held BY <1>4, <2>1, <2>3
  <2>4. QED BY <1>11, <2>2, <2>3, SignInEffect DEF SignInNow, Current
<1>12. ASSUME NEW c \in calls, Drops(c) PROVE Goal
  BY <1>4, <1>12 DEF Drops, session
<1>13. ASSUME NEW c \in calls, NEW d \in Calls, Serves(c, d) PROVE Goal
  <2>1. /\ calls' = (calls \ {c}) \cup {d}
        /\ d.kind = c.kind /\ d.pair = c.pair /\ d.version = c.version
        /\ UNCHANGED <<version, held, flight, overtaken>>
    BY <1>13 DEF Serves, session
  <2>2. QED BY <1>1, <1>2, <2>1
<1>14. CASE UNCHANGED <<session, request, calls>>
  BY <1>4, <1>14 DEF session
<1>15. Goal
  BY <1>5, <1>6, <1>7, <1>8, <1>9, <1>10, <1>11, <1>12, <1>13, <1>14, StepCases
<1>16. QED BY <1>15

LEMMA InitHolds ==
    ASSUME Init
    PROVE  IInv
<1>1. kept \in Pairs \cup {None} BY SessionAssumption DEF Init, Restorable, Pairs
<1>2. 1 \in 1..MaxVersion /\ 1 \in 1..2 * MaxVersion + 1 /\ 0 \in 0..2 * MaxVersion + 1
      /\ MaxVersion \in Nat
  BY SessionAssumption
<1>3. /\ StartRefresh(kept, 1) \subseteq Calls
      /\ StartFlight(kept, 1) \in (Pairs \X (1..2 * MaxVersion + 1)) \cup {None}
      /\ StartWait(kept, 1) \in 0..2 * MaxVersion + 1
      /\ OwnerOf(kept) \in Users \cup {None}
  BY <1>1, <1>2, StartType
<1>4. request \in [Requests -> RequestType] /\ \A r \in Requests : request[r] = NoRequest
  BY DoneType DEF Init, RequestType
<1>5. current \in [Users -> 0..MaxIssued] /\ issued \in 0..MaxIssued
  BY SessionAssumption DEF Init
<1>6. TypeOK
  BY <1>1, <1>2, <1>3, <1>4, <1>5 DEF Init, TypeOK, Pages, RequestType
<1>7. \A c \in calls : /\ kept \in Pairs /\ kept # None /\ c.kind = "refresh"
                       /\ c.user = kept.user /\ c.pair = kept
                       /\ c.version = 1 /\ c.tokens = None
                       /\ c = Call("refresh", kept.user, kept, 1)
  <2>1. ASSUME NEW c \in calls
        PROVE  kept \in Pairs /\ kept # None /\ c = Call("refresh", kept.user, kept, 1)
    BY <1>1, <2>1 DEF Init, StartRefresh
  <2>2. QED BY <2>1, CallFields
<1>8. VersionsOK
  <2>1. \A r \in Requests : request[r].version = 0 BY <1>4, DoneType
  <2>2. \A c \in calls : c.version = 1 BY <1>7
  <2>3. QED BY <1>2, <2>1, <2>2 DEF VersionsOK, Init
<1>9. CallsOK
  BY <1>7, SessionAssumption DEF CallsOK
<1>10. HeldOK
  <2>1. held = None /\ asked = OwnerOf(kept) BY DEF Init
  <2>2. \A p \in Pairs : p.user \in Users BY DEF Pairs
  <2>3. asked = None => kept = None BY <1>1, <2>1, <2>2, SessionAssumption DEF OwnerOf
  <2>4. \A c \in calls : asked = c.user /\ asked # None
    BY <1>7, <2>1, <2>2, SessionAssumption DEF OwnerOf
  <2>5. QED BY <2>1, <2>3, <2>4 DEF HeldOK, SignedInAsAsked
<1>11. RequestsOK
  BY <1>4, DoneType DEF RequestsOK
<1>12. FlightOK
  <2>1. held = None /\ flight = StartFlight(kept, 1) BY DEF Init
  <2>2. \A c \in calls : flight = <<c.pair, c.version>> BY <1>7, <2>1 DEF StartFlight
  <2>3. \A c, d \in calls : c = d BY <1>7
  <2>4. \A c \in calls : ~SignInNow(c) BY <1>7 DEF SignInNow
  <2>5. QED BY <2>1, <2>2, <2>3, <2>4 DEF FlightOK
<1>13. QED BY <1>6, <1>8, <1>9, <1>10, <1>11, <1>12 DEF IInv

-----------------------------------------------------------------------------
(* Theorems.                                                               *)

\* The inductive invariant, for any accounts, requests and bounds.
THEOREM SessionInvariance == Spec => []IInv
<1>1. IInv /\ [Next]_vars => IInv'
  BY TypeKept, VersionsKept, CallsKept, HeldKept, RequestsKept, FlightKept DEF IInv
<1>2. QED BY <1>1, InitHolds, PTL DEF Spec

\* The variables of the tab and of the server keep their types.
THEOREM SessionTypesAreKept == Spec => []TypeOK
<1>1. IInv => TypeOK BY DEF IInv
<1>2. QED BY <1>1, SessionInvariance, PTL

\* In whatever order sign-ins, refreshes and sign-outs are answered, the tab uses
\* the account it was last told to use, and a reload would restore that one.
THEOREM TabStaysSignedInAsAsked == Spec => []SignedInAsAsked
<1>1. IInv => SignedInAsAsked BY DEF IInv, HeldOK
<1>2. QED BY <1>1, SessionInvariance, PTL

\* A request sent again after a 401 carries a token of the account it was first
\* sent for, however many requests share the refresh.
THEOREM RequestsKeepTheirAccount == Spec => RequestKeepsItsAccount
<1> DEFINE Keeps == \A r \in Requests :
                       /\ request[r].phase # "retried"
                       /\ request'[r].phase = "retried"
                       /\ request[r].first # None
                       /\ ~overtaken
                       => request'[r].last.user = request[r].first.user
<1>1. ASSUME IInv, [Next]_vars PROVE Keeps
  <2>1. SUFFICES ASSUME NEW r \in Requests, request[r].phase # "retried",
                        request'[r].phase = "retried", request[r].first # None, ~overtaken
                 PROVE  request'[r].last.user = request[r].first.user
    OBVIOUS
  <2>2. request' # request BY <2>1
  <2>3. Done.phase = "done" BY DoneType
  <2>4. ASSUME NEW to \in Pages PROVE ~Load(to) BY <1>1, <2>1, LoadEffect
  <2>5. ASSUME NEW q \in Requests,
               Send(q) \/ Settle(q) \/ GiveUp(q) \/ RetryAtOnce(q) \/ AwaitRefresh(q)
        PROVE  request'[r].last.user = request[r].first.user
    <3>1. FetchStep(r) BY <1>1, <2>5, FetchEffect
    <3>2. /\ request[r].phase = "sent" /\ SameSession(r)
          /\ held # None /\ request'[r].last = held
      BY <2>1, <2>3, <3>1 DEF FetchStep
    <3>3. held.user = asked BY <1>1, <2>1, <3>2 DEF IInv, HeldOK, SignedInAsAsked
    <3>4. request[r].first.user = asked BY <1>1, <2>1, <3>2 DEF IInv, RequestsOK, SameSession
    <3>5. QED BY <3>2, <3>3, <3>4
  <2>6. ASSUME NEW c \in calls, RefreshArrives(c)
        PROVE  request'[r].last.user = request[r].first.user
    <3>1. /\ RefreshNow(c) /\ c.tokens \in Pairs
          /\ request[r].first = c.pair /\ request'[r].last = c.tokens
      BY <1>1, <2>1, <2>3, <2>6, RefreshEffect
    <3>2. c.pair.user = c.user /\ c.tokens.user = c.user
      BY <1>1, <3>1 DEF IInv, CallsOK, RefreshNow
    <3>3. QED BY <3>1, <3>2
  <2>7. ASSUME NEW c \in calls, SignInArrives(c) PROVE FALSE
    BY <1>1, <2>2, <2>7, SignInEffect
  <2>8. ~Logout BY <1>1, <2>2, LogoutEffect
  <2>9. QED
    BY <1>1, <2>2, <2>4, <2>5, <2>6, <2>7, <2>8, StepCases
       DEF Opens, SubmitSignup, Drops, Serves
<1>2. IInv /\ [Next]_vars => [Keeps]_vars BY <1>1
<1>3. QED BY <1>2, SessionInvariance, PTL DEF Spec, RequestKeepsItsAccount

\* The tokens are dropped by a sign-out, a page load or the refusal of the refresh
\* token held, never by an answer about an older token.
THEOREM TokensDropForTheirOwnRefusal == Spec => DroppedOnlyByItsOwnRefusal
<1> DEFINE Why == held # None /\ held' = None /\ ~overtaken =>
                    \/ \E c \in calls' : c.kind = "logout" /\ c.pair = held
                    \/ starting' = version'
                    \/ \E c \in calls \ calls' : Refused(c) /\ c.pair = held
<1>1. ASSUME IInv, [Next]_vars PROVE Why
  <2>1. SUFFICES ASSUME held # None, held' = None, ~overtaken
                 PROVE  \/ \E c \in calls' : c.kind = "logout" /\ c.pair = held
                        \/ starting' = version'
                        \/ \E c \in calls \ calls' : Refused(c) /\ c.pair = held
    OBVIOUS
  <2>2. held' # held BY <2>1
  <2>3. ASSUME NEW to \in Pages, Load(to) PROVE starting' = version'
    <3>1. kept # None BY <1>1, <2>1 DEF IInv, HeldOK, SignedInAsAsked
    <3>2. QED BY <1>1, <2>3, <3>1, LoadEffect DEF StartWait
  <2>4. ASSUME Logout PROVE \E c \in calls' : c.kind = "logout" /\ c.pair = held
    <3>1. PICK d : d = Call("logout", held.user, held, version) OBVIOUS
    <3>2. d.kind = "logout" /\ d.pair = held BY <3>1, CallFields
    <3>3. d \in calls' BY <1>1, <2>4, <3>1, LogoutEffect
    <3>4. QED BY <3>2, <3>3
  <2>5. ASSUME NEW r \in Requests PROVE
            ~(Send(r) \/ Settle(r) \/ GiveUp(r) \/ RetryAtOnce(r) \/ AwaitRefresh(r))
    BY <1>1, <2>2, FetchEffect
  <2>6. ASSUME NEW c \in calls, RefreshArrives(c)
        PROVE  \E d \in calls \ calls' : Refused(d) /\ d.pair = held
    <3>1. RefreshNow(c) /\ Refused(c) /\ calls' = calls \ {c}
      BY <1>1, <2>1, <2>2, <2>6, Typed, RefreshEffect
    <3>2. c.pair = held BY <1>1, <2>1, <3>1 DEF IInv, FlightOK
    <3>3. QED BY <3>1, <3>2
  <2>7. ASSUME NEW c \in calls PROVE ~SignInArrives(c)
    BY <1>1, <2>1, <2>2, Typed, SignInEffect
  <2>8. QED
    BY <1>1, <2>2, <2>3, <2>4, <2>5, <2>6, <2>7, StepCases
       DEF Opens, SubmitSignup, tab, Drops, Serves, session
<1>2. IInv /\ [Next]_vars => [Why]_vars BY <1>1
<1>3. QED BY <1>2, SessionInvariance, PTL DEF Spec, DroppedOnlyByItsOwnRefusal
=============================================================================
