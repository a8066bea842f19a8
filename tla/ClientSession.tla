------------------------------ MODULE ClientSession ------------------------------
(***************************************************************************)
(* The session of one browser tab: AuthProvider and the pages that sign in *)
(* and out, with the server's one refresh token per user.                  *)
(*                                                                         *)
(* Signing in, refreshing and signing out are calls that are answered      *)
(* later, in any order, or fail; meanwhile the user goes on.  The tab      *)
(* numbers what the user asks for with a session version and takes an      *)
(* answer only if the version is still that of the call.  A request that   *)
(* is answered 401 is sent once more, after the one refresh all such       *)
(* requests wait for.  A page load forgets everything but the refresh      *)
(* token in localStorage; what was sent before it still reaches the server.*)
(***************************************************************************)
EXTENDS Naturals, FiniteSets

CONSTANTS Users,
          Requests,     \* API requests a page sends through authFetch
          MaxVersion,   \* bound: how often the user signs in or out or loads the app
          MaxIssued,    \* bound: pairs of tokens the server issues
          Lost, None

\* An access token and the refresh token issued with it; n names the pair.
Pairs == [user : Users, n : 1..MaxIssued]

ASSUME SessionAssumption ==
    /\ {Lost, None} \cap (Users \cup Pairs) = {} /\ Lost # None
    /\ MaxVersion \in Nat \ {0}
    /\ MaxIssued \in Nat \ {0}

VARIABLES
    \* the tab
    version,      \* sessionVersion
    held,         \* accessTokenRef and refreshTokenRef, which are set together
    kept,         \* the refresh token in localStorage
    flight,       \* refreshFlight: the token and version of the refresh to share
    starting,     \* the version whose refresh isInitializing waits for, 0 when it is over
    page,         \* kind of the page shown
    submitting,   \* the version of the sign-in the login form waits for, 0 if none
    request,      \* per request: phase, session version, pair sent first, pair sent last
    calls,        \* calls of the auth API on their way, with their answer
    \* the server
    current,      \* per user: the pair whose refresh token it accepts, 0 if none
    issued,       \* pairs issued so far
    lapsed,       \* pairs whose access token has expired
    \* history
    asked,        \* the account the tab was last told to use
    overtaken     \* a sign-up that was left has begun to sign in over this session

history == <<asked, overtaken>>
tab == <<version, held, kept, flight, starting, page, submitting, history>>
server == <<current, issued, lapsed>>
vars == <<tab, request, calls, server>>

Pages == {"private", "public", "login", "signup", "oauth"}
Phases == {"idle", "sent", "refreshing", "retried", "done"}
Kinds == {"signup", "login", "oauth", "refresh", "logout"}

\* A call carries the account (signup, login, oauth) or the pair it is about, and
\* the tokens the server has issued for it; Lost if their answer will not arrive.
Calls == [kind : Kinds, user : Users, pair : Pairs \cup {None},
          version : 0..2 * MaxVersion + 1, tokens : Pairs \cup {None, Lost}]

Call(kind, user, pair, v) ==
    [kind |-> kind, user |-> user, pair |-> pair, version |-> v, tokens |-> None]

RefreshCall(pair) == Call("refresh", pair.user, pair, version)

NoRequest == [phase |-> "idle", version |-> 0, first |-> None, last |-> None]
Done == [NoRequest EXCEPT !.phase = "done"]

TypeOK ==
    /\ version \in 1..2 * MaxVersion + 1
    /\ held \in Pairs \cup {None}
    /\ kept \in Pairs \cup {None}
    /\ flight \in (Pairs \X (1..2 * MaxVersion + 1)) \cup {None}
    /\ starting \in 0..2 * MaxVersion + 1
    /\ page \in Pages
    /\ submitting \in 0..2 * MaxVersion + 1
    /\ request \in [Requests -> [phase : Phases, version : 0..2 * MaxVersion + 1,
                                 first : Pairs \cup {None}, last : Pairs \cup {None}]]
    /\ calls \subseteq Calls
    /\ current \in [Users -> 0..MaxIssued]
    /\ issued \in 0..MaxIssued
    /\ lapsed \subseteq Pairs
    /\ asked \in Users \cup {None}
    /\ overtaken \in BOOLEAN

\* A session this browser kept from before: the first pair issued, if any.
Restorable == {None} \cup {[user |-> u, n |-> 1] : u \in Users}

\* What a page load sends and waits for when it finds the refresh token pair.
StartRefresh(pair, v) == IF pair = None THEN {} ELSE {Call("refresh", pair.user, pair, v)}
StartFlight(pair, v) == IF pair = None THEN None ELSE <<pair, v>>
StartWait(pair, v) == IF pair = None THEN 0 ELSE v
OwnerOf(pair) == IF pair = None THEN None ELSE pair.user

\* The app has just been loaded in a new tab.
Init ==
    /\ version = 1
    /\ held = None
    /\ kept \in Restorable
    /\ flight = StartFlight(kept, 1)
    /\ starting = StartWait(kept, 1)
    /\ page = "public"
    /\ submitting = 0
    /\ request = [r \in Requests |-> NoRequest]
    /\ calls = StartRefresh(kept, 1)
    /\ current = [u \in Users |-> IF kept = [user |-> u, n |-> 1] THEN 1 ELSE 0]
    /\ issued = IF kept = None THEN 0 ELSE 1
    /\ lapsed = {}
    /\ asked = OwnerOf(kept)
    /\ overtaken = FALSE

-----------------------------------------------------------------------------
(* What the callbacks of the provider do.                                  *)

ApplyTokens(pair) ==
    /\ held' = pair
    /\ kept' = pair
    /\ UNCHANGED <<version, history>>

ClearTokens ==
    /\ version' = version + 1
    /\ held' = None
    /\ kept' = None
    /\ asked' = None
    /\ overtaken' = FALSE

KeepTokens == UNCHANGED <<version, held, kept, history>>

\* One refresh serves everybody who wants the same token refreshed in the same session.
RefreshSession(pair) ==
    /\ flight' = <<pair, version>>
    /\ calls' = IF flight = <<pair, version>> THEN calls ELSE calls \cup {RefreshCall(pair)}

\* (Mutated form: an answer counts whatever happened to the session meanwhile.)
CurrentAnyway(c) == TRUE

Current(c) == c.version = version

\* (Mutated form: an expired request goes on in a session begun meanwhile.)
SameSessionAnyway(r) == TRUE

SameSession(r) == request[r].version = version

-----------------------------------------------------------------------------
(* The user and the pages.                                                 *)

\* isInitializing
Initializing == starting # 0

\* The app is loaded, at a page of it or, with a login code, at the OAuth callback.
Load(to) ==
    /\ version < MaxVersion
    /\ version' = version + 1
    /\ held' = None
    /\ asked' = OwnerOf(kept)
    /\ overtaken' = FALSE
    /\ page' = to
    /\ submitting' = 0
    /\ request' = [r \in Requests |-> IF request[r] = NoRequest THEN NoRequest ELSE Done]
    /\ flight' = StartFlight(kept, version + 1)
    /\ starting' = StartWait(kept, version + 1)
    /\ calls' = {c \in calls : c.kind # "signup"} \cup StartRefresh(kept, version + 1)
    /\ UNCHANGED <<kept, server>>

Reload == \E to \in Pages \ {"oauth"} : Load(to)

\* A sign-in opens a new session version before its call.
SignIn(kind, u) ==
    /\ version < MaxVersion
    /\ version' = version + 1
    /\ asked' = u
    /\ overtaken' = (held # None)
    /\ calls' = calls \cup {Call(kind, u, None, version + 1)}

\* LoginForm, shown by RedirectIfAuthed to whom is not signed in.
FormShown == ~Initializing /\ held = None

SubmitLogin(u) ==
    /\ page = "login"
    /\ FormShown
    /\ submitting = 0
    /\ SignIn("login", u)
    /\ submitting' = version + 1
    /\ UNCHANGED <<held, kept, flight, starting, page, request, server>>

\* SignupForm: the account is created first and signed in when that is answered.
SubmitSignup(u) ==
    /\ page = "signup"
    /\ FormShown
    /\ version < MaxVersion
    /\ ~\E c \in calls : c.kind = "signup"
    /\ calls' = calls \cup {Call("signup", u, None, 0)}
    /\ UNCHANGED <<tab, request, server>>

\* OAuthCallback's effect; the page is not behind RedirectIfAuthed.
OAuthEffect(u) ==
    /\ page = "oauth"
    /\ ~\E c \in calls : c.kind = "oauth"
    /\ SignIn("oauth", u)
    /\ page' = "oauth"
    /\ UNCHANGED <<held, kept, flight, starting, submitting, request, server>>

\* The sign-out button of the navigation.
Logout ==
    /\ page \in {"private", "public"}
    /\ held # None
    /\ version < MaxVersion
    /\ ClearTokens
    /\ calls' = calls \cup {Call("logout", held.user, held, version)}
    /\ page' = "public"
    /\ UNCHANGED <<flight, starting, submitting, request, server>>

\* A link of the navigation or of a form.
Links ==
    {<<"private", "public">>, <<"public", "private">>, <<"public", "login">>,
     <<"login", "signup">>, <<"login", "public">>, <<"signup", "login">>}

FollowLink(to) ==
    /\ <<page, to>> \in Links
    /\ ~Initializing
    /\ to = "login" /\ page = "public" => held = None
    /\ page' = to
    /\ submitting' = 0
    /\ UNCHANGED <<version, held, kept, flight, starting, history, request, calls, server>>

\* RequireAuth: a private page without a user becomes the login page.
KeepOut ==
    /\ page = "private"
    /\ FormShown
    /\ page' = "login"
    /\ UNCHANGED <<version, held, kept, flight, starting, submitting, history, request, calls, server>>

\* RedirectIfAuthed: a form is left once there is a user, for the page it came from.
LeaveForm ==
    /\ page \in {"login", "signup"}
    /\ ~Initializing
    /\ held # None
    /\ page' = "private"
    /\ submitting' = 0
    /\ UNCHANGED <<version, held, kept, flight, starting, history, request, calls, server>>

-----------------------------------------------------------------------------
(* authFetch.                                                              *)

\* The pages behind RequireAuth send requests, guests on public pages too.
Send(r) ==
    /\ request[r].phase = "idle"
    /\ ~Initializing
    /\ page = "public" \/ (page = "private" /\ held # None)
    /\ request' = [request EXCEPT ![r] =
                     [phase |-> "sent", version |-> version, first |-> held, last |-> held]]
    /\ UNCHANGED <<tab, calls, server>>

\* Answered, refused for another reason, or failed.
Settle(r) ==
    /\ request[r].phase \in {"sent", "retried"}
    /\ request' = [request EXCEPT ![r] = Done]
    /\ UNCHANGED <<tab, calls, server>>

Unauthorized(r) ==
    /\ request[r].phase = "sent"
    /\ request[r].first \in lapsed \cup {None}

\* A 401 that cannot be helped: no session, or no longer the one of the request.
GiveUp(r) ==
    /\ Unauthorized(r)
    /\ ~SameSession(r) \/ held = None
    /\ request' = [request EXCEPT ![r] = Done]
    /\ UNCHANGED <<tab, calls, server>>

\* A late 401 of a token that was refreshed meanwhile.
RetryAtOnce(r) ==
    /\ Unauthorized(r)
    /\ SameSession(r)
    /\ held # None
    /\ held # request[r].first
    /\ request' = [request EXCEPT ![r].phase = "retried", ![r].last = held]
    /\ UNCHANGED <<tab, calls, server>>

AwaitRefresh(r) ==
    /\ Unauthorized(r)
    /\ SameSession(r)
    /\ held # None
    /\ held = request[r].first
    /\ RefreshSession(held)
    /\ request' = [request EXCEPT ![r].phase = "refreshing"]
    /\ UNCHANGED <<version, held, kept, starting, page, submitting, history, server>>

-----------------------------------------------------------------------------
(* Answers of the auth API arrive.  A call fails for a wrong password, a    *)
(* suspended account, a server error or a lost connection, before or after *)
(* the server has served it; its refusal of a refresh token is a 401.      *)

\* (Mutated form: whatever the status, the body is taken for tokens.)
BringsAnyway(c) == TRUE

Brings(c) == c.tokens \in Pairs

Refused(c) == c.kind = "refresh" /\ c.tokens = None /\ current[c.user] # c.pair.n

\* The requests that wait for refresh c go on with its pair, or fail with it.
Resume(c) ==
    request' = [r \in Requests |->
        IF request[r].phase # "refreshing" \/ <<request[r].first, request[r].version>> # <<c.pair, c.version>>
        THEN request[r]
        ELSE IF Brings(c) /\ Current(c) /\ SameSession(r)
             THEN [request[r] EXCEPT !.phase = "retried", !.last = c.tokens]
             ELSE Done]

\* (Mutated form: a shared refresh that failed is not forgotten.)
RefreshOverKept(c) ==
    /\ flight' = IF flight = <<c.pair, c.version>> /\ Brings(c) THEN None ELSE flight
    /\ starting' = IF starting = c.version THEN 0 ELSE starting

\* finally: of the shared refresh and of isInitializing
RefreshOver(c) ==
    /\ flight' = IF flight = <<c.pair, c.version>> THEN None ELSE flight
    /\ starting' = IF starting = c.version THEN 0 ELSE starting

RefreshArrives(c) ==
    /\ c.kind = "refresh"
    /\ \/ Brings(c) /\ Current(c) /\ ApplyTokens(c.tokens)
       \/ Refused(c) /\ Current(c) /\ ClearTokens
       \/ ~Brings(c) /\ KeepTokens \* failed, or the refusal was lost
       \/ ~Current(c) /\ KeepTokens
    /\ Resume(c)
    /\ RefreshOver(c)
    /\ calls' = calls \ {c}
    /\ UNCHANGED <<page, submitting, server>>

SignInArrives(c) ==
    /\ c.kind \in {"login", "oauth"}
    /\ IF Brings(c) /\ Current(c) THEN ApplyTokens(c.tokens) ELSE KeepTokens
    /\ page' = IF c.kind = "oauth" /\ Brings(c) /\ page = "oauth" THEN "private" ELSE page
    /\ submitting' = IF submitting = c.version /\ ~Brings(c) THEN 0 ELSE submitting
    /\ calls' = calls \ {c}
    /\ UNCHANGED <<flight, starting, request, server>>

\* The continuation of the sign-up form signs in even if the form was left.
SignupArrives(c) ==
    /\ c.kind = "signup"
    /\ \/ /\ version < MaxVersion
          /\ version' = version + 1
          /\ asked' = c.user
          /\ overtaken' = (held # None)
          /\ calls' = (calls \ {c}) \cup {Call("login", c.user, None, version + 1)}
       \/ /\ calls' = calls \ {c}
          /\ UNCHANGED <<version, history>>
    /\ UNCHANGED <<held, kept, flight, starting, page, submitting, request, server>>

LogoutArrives(c) ==
    /\ c.kind = "logout"
    /\ calls' = calls \ {c}
    /\ UNCHANGED <<tab, request, server>>

Arrive(kind) ==
    \E c \in calls :
        /\ c.kind = kind
        /\ RefreshArrives(c) \/ SignInArrives(c) \/ SignupArrives(c) \/ LogoutArrives(c)

-----------------------------------------------------------------------------
(* The server.                                                             *)

\* A pair is issued and takes the place of the user's; the answer may be lost
\* all the same.  rotate() does it only for the refresh token that is stored.
Issue(c) ==
    /\ c.kind \in {"login", "oauth"} \/ (c.kind = "refresh" /\ current[c.user] = c.pair.n)
    /\ issued < MaxIssued
    /\ issued' = issued + 1
    /\ current' = [current EXCEPT ![c.user] = issued + 1]
    /\ \E tokens \in {[user |-> c.user, n |-> issued + 1], Lost} :
           calls' = (calls \ {c}) \cup {[c EXCEPT !.tokens = tokens]}

\* logout() revokes whatever refresh token the user has by then.
Revoke(c) ==
    /\ c.kind = "logout"
    /\ c.pair \notin lapsed
    /\ current' = [current EXCEPT ![c.user] = 0]
    /\ calls' = calls \ {c}
    /\ UNCHANGED issued

Serve ==
    \E c \in calls :
        /\ c.tokens = None
        /\ Issue(c) \/ Revoke(c)
        /\ UNCHANGED <<tab, request, lapsed>>

\* The access token of the pair in use expires.
Lapse ==
    /\ held # None
    /\ held \notin lapsed
    /\ lapsed' = lapsed \cup {held}
    /\ UNCHANGED <<tab, request, calls, current, issued>>

\* The refresh token in use expires, and the server forgets it.
Expire ==
    /\ kept # None
    /\ current[kept.user] = kept.n
    /\ current' = [current EXCEPT ![kept.user] = 0]
    /\ UNCHANGED <<tab, request, calls, issued, lapsed>>

-----------------------------------------------------------------------------
SignUps == \E u \in Users : SubmitLogin(u) \/ SubmitSignup(u) \/ OAuthEffect(u)

Fetches ==
    \E r \in Requests :
        Send(r) \/ Settle(r) \/ GiveUp(r) \/ RetryAtOnce(r) \/ AwaitRefresh(r)

Next ==
    \/ Reload \/ Load("oauth")
    \/ SignUps
    \/ Logout
    \/ \E to \in Pages : FollowLink(to)
    \/ KeepOut \/ LeaveForm
    \/ Fetches
    \/ \E kind \in Kinds : Arrive(kind)
    \/ Serve \/ Lapse \/ Expire

\* Every call and request is answered or fails in the end, and the browser runs
\* the continuation.
Fairness ==
    /\ \A kind \in Kinds : WF_vars(Arrive(kind))
    /\ \A r \in Requests : WF_vars(Settle(r))

Spec == Init /\ [][Next]_vars /\ Fairness

-----------------------------------------------------------------------------
(* Properties.                                                             *)

\* Whatever the order in which sign-ins, refreshes and sign-outs are answered,
\* the tab is signed in to the account it was last told to use, and to none after
\* a sign-out; and a reload would restore that account and no other.
SignedInAsAsked ==
    /\ held # None /\ ~overtaken => held.user = asked
    /\ held # None => kept = held
    /\ asked = None => kept = None

\* A request is never sent again with the token of another account than the one
\* whose token it was first sent with.
RequestKeepsItsAccount ==
    [][\A r \in Requests :
          /\ request[r].phase # "retried"
          /\ request'[r].phase = "retried"
          /\ request[r].first # None
          /\ ~overtaken
          => request'[r].last.user = request[r].first.user]_vars

\* The tokens are dropped only by a sign-out, a page load, or the server's
\* refusal of the very refresh token held: never because of an answer about an
\* older one.
DroppedOnlyByItsOwnRefusal ==
    [][held # None /\ held' = None /\ ~overtaken =>
          \/ \E c \in calls' : c.kind = "logout" /\ c.pair = held
          \/ starting' = version' \* a page load
          \/ \E c \in calls \ calls' :
                Refused(c) /\ c.pair = held]_vars

\* Every request is answered or fails in the end, the ones that wait for a shared
\* refresh too, and the spinner of the page load ends.
Settles ==
    <>[](/\ ~Initializing
         /\ \A r \in Requests : request[r].phase \in {"idle", "done"})
=============================================================================
