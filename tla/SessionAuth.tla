----------------------------- MODULE SessionAuth -----------------------------
(***************************************************************************)
(* The browser session: the token and the user of frontend/src/lib/auth.tsx*)
(* the query cache of App.tsx and queries.ts, and the requests that carry  *)
(* the token.                                                              *)
(*                                                                         *)
(* Signing in takes two answers, the token and then the profile.  Meanwhile*)
(* queries poll, mutations and the chat stream wait, tokens die (expiry, or*)
(* the account deleted elsewhere) and the user moves between the pages: to *)
(* the two forms as well, signed in or not.  A 401 to anything but a       *)
(* sign-in goes through notifyUnauthorized to logout.                      *)
(*                                                                         *)
(* Of the query cache only ['devices'] is kept: the other keys name a      *)
(* device or, as the alerts' does, the moment their page was opened.       *)
(***************************************************************************)
EXTENDS Naturals, Sequences

CONSTANTS
    Accounts,      \* the people at this browser
    None,
    Mutations,     \* writes to /devices that may be outstanding
    Streams,       \* chat streams that may be
    Devices,       \* the query for the fleet
    Poll,          \* the queries with a refetchInterval
    MaxAttempts    \* bound: sign-ins submitted

ASSUME SessionAssumption ==
    /\ None \notin Accounts /\ Devices # Poll
    /\ Mutations \cap Streams = {} /\ {Devices, Poll} \cap (Mutations \cup Streams) = {}
    /\ MaxAttempts \in Nat

VARIABLES
    attempts,   \* every sign-in or sign-up submitted; its number is its token
    token,      \* tokenRef.current, or 0
    user,       \* the user on screen, or None
    loading,    \* isLoading
    dead,       \* tokens the API no longer accepts
    listed,     \* whose fleet is in the cache, or None
    flight,     \* requests waiting for an answer: the token each carries
    page,       \* what the router shows
    awake,      \* the tab is in front and the API answers its polls
    since       \* history: sign-ins submitted since the last sign-out, or in
                \* flight at the time

session == <<attempts, token, user, loading, dead, since>>
vars == <<session, listed, flight, page, awake>>

-----------------------------------------------------------------------------

Slots == Mutations \cup Streams \cup {Devices, Poll}
Tokens == 0..MaxAttempts
Idle == MaxAttempts + 1
Attempt == [account : Accounts, state : {"sent", "profile", "ended"}]

\* "forms" is /login and /signup, which anyone may open at any time.
Pages == {"forms", "dashboard", "detail", "devices"}

\* Which pages send a request: useDevices, the polling hooks, the drawer, and
\* the forms of DevicesPage.
PagesOf(slot) ==
    IF slot = Devices THEN {"dashboard", "devices"}
    ELSE IF slot \in Mutations THEN {"devices"}
    ELSE {"dashboard", "detail"}

InFlight == {a \in DOMAIN attempts : attempts[a].state # "ended"}

\* Types, that the spinner stops when the last sign-in has ended, and that the
\* protected pages are a user's.
TypeOK ==
    /\ attempts \in Seq(Attempt) /\ Len(attempts) <= MaxAttempts
    /\ token \in 0..Len(attempts)
    /\ user \in Accounts \cup {None}
    /\ loading \in BOOLEAN
    /\ dead \subseteq 1..Len(attempts)
    /\ listed \in Accounts \cup {None}
    /\ flight \in [Slots -> Tokens \cup {Idle}]
    /\ page \in Pages /\ awake \in BOOLEAN
    /\ since \subseteq 1..Len(attempts)
    /\ loading => InFlight # {}
    /\ page # "forms" => user # None

Init ==
    /\ attempts = <<>> /\ since = {}
    /\ token = 0 /\ user = None /\ loading = FALSE
    /\ dead = {} /\ listed = None
    /\ flight = [s \in Slots |-> Idle]
    /\ page = "forms" /\ awake = TRUE

\* A request without a token is answered 401 as well.
Accepted(t) == t # 0 /\ t \notin dead

-----------------------------------------------------------------------------
(* authenticate                                                             *)

\* A form is submitted once at a time, but there are two, and neither asks
\* whether somebody is signed in.
Submit(account) ==
    /\ page = "forms" /\ Len(attempts) < MaxAttempts
    /\ attempts' = Append(attempts, [account |-> account, state |-> "sent"])
    /\ since' = since \cup {Len(attempts) + 1}
    /\ loading' = TRUE
    /\ UNCHANGED <<token, user, dead, listed, flight, page, awake>>

\* The token is kept and the profile asked for with it, in one go.
TokenAnswered(a) ==
    /\ attempts[a].state = "sent"
    /\ attempts' = [attempts EXCEPT ![a].state = "profile"]
    /\ token' = a
    /\ UNCHANGED <<user, loading, dead, since, listed, flight, page, awake>>

\* The form then navigates, wherever the user is by now.
ProfileAnswered(a) ==
    /\ attempts[a].state = "profile" /\ Accepted(a)
    /\ attempts' = [attempts EXCEPT ![a].state = "ended"]
    /\ user' = attempts[a].account
    /\ loading' = FALSE
    /\ page' = "dashboard"
    /\ UNCHANGED <<token, dead, since, listed, flight, awake>>

\* Refused credentials, a dead token or no network.  The cache stays.
AttemptFailsSpinning(a) ==
    /\ attempts[a].state # "ended"
    /\ attempts' = [attempts EXCEPT ![a].state = "ended"]
    /\ token' = 0 /\ user' = None /\ page' = "forms"
    /\ UNCHANGED <<loading, dead, since, listed, flight, awake>>

AttemptFails(a) ==
    /\ attempts[a].state # "ended"
    /\ attempts' = [attempts EXCEPT ![a].state = "ended"]
    /\ token' = 0 /\ user' = None /\ page' = "forms"
    /\ loading' = FALSE
    /\ UNCHANGED <<dead, since, listed, flight, awake>>

-----------------------------------------------------------------------------
(* logout                                                                   *)

\* queryClient.clear() drops the queries, with those in flight.  Mutations and
\* the chat stream go on: nothing aborts them.  ProtectedRoute shows the form.
LogoutKeepingCache(answered) ==
    /\ token' = 0 /\ user' = None /\ page' = "forms"
    /\ flight' = [flight EXCEPT ![answered] = Idle]
    /\ since' = InFlight
    /\ UNCHANGED <<attempts, loading, dead, listed, awake>>

Logout(answered) ==
    /\ token' = 0 /\ user' = None /\ page' = "forms"
    /\ listed' = None
    /\ flight' = [flight EXCEPT ![answered] = Idle, ![Devices] = Idle, ![Poll] = Idle]
    /\ since' = InFlight
    /\ UNCHANGED <<attempts, loading, dead, awake>>

SignOut == page # "forms" /\ Logout(Poll)

-----------------------------------------------------------------------------
(* Requests read the token when they are sent.                              *)

\* The interval runs while the tab is in front; the fleet is fetched when a page
\* that lists it opens and when the tab comes back.
Request(slot) ==
    /\ page \in PagesOf(slot) /\ (slot = Poll => awake)
    /\ flight[slot] = Idle
    /\ flight' = [flight EXCEPT ![slot] = token]
    /\ UNCHANGED <<session, listed, page, awake>>

DevicesAnswered ==
    /\ flight[Devices] # Idle /\ Accepted(flight[Devices])
    /\ listed' = attempts[flight[Devices]].account
    /\ flight' = [flight EXCEPT ![Devices] = Idle]
    /\ UNCHANGED <<session, page, awake>>

\* invalidateQueries(['devices']): a page that lists the fleet fetches it again,
\* instead of a fetch under way unless that is the first.
MutationAnswered(call) ==
    LET refetched == page \in PagesOf(Devices) /\ (listed # None \/ flight[Devices] = Idle)
    IN  /\ flight[call] # Idle /\ Accepted(flight[call])
        /\ flight' = [flight EXCEPT ![call] = Idle,
                                    ![Devices] = IF refetched THEN token ELSE @]
        /\ UNCHANGED <<session, listed, page, awake>>

\* A stream writes nowhere, a poll under keys of its own page.
Answered(slot) ==
    /\ flight[slot] # Idle /\ Accepted(flight[slot])
    /\ flight' = [flight EXCEPT ![slot] = Idle]
    /\ UNCHANGED <<session, listed, page, awake>>

RejectedQuietly(slot) ==
    /\ flight[slot] # Idle /\ ~Accepted(flight[slot])
    /\ flight' = [flight EXCEPT ![slot] = Idle]
    /\ UNCHANGED <<session, listed, page, awake>>

\* QueryCache.onError, MutationCache.onError and the catch of useChat.
Rejected(slot) ==
    /\ flight[slot] # Idle /\ ~Accepted(flight[slot])
    /\ Logout(slot)

\* Any other error; a stream that is stopped.
Lost(slot) ==
    /\ flight[slot] # Idle /\ (slot = Poll => ~awake)
    /\ flight' = [flight EXCEPT ![slot] = Idle]
    /\ UNCHANGED <<session, listed, page, awake>>

-----------------------------------------------------------------------------
(* The user and the world.                                                  *)

Navigate(to) ==
    /\ to # "forms" => user # None
    /\ page' = to
    /\ UNCHANGED <<session, listed, flight, awake>>

SleepOrWake ==
    /\ awake' = ~awake
    /\ UNCHANGED <<session, listed, flight, page>>

TokenDies(t) ==
    /\ t \notin dead /\ attempts[t].state # "sent"
    /\ dead' = dead \cup {t}
    /\ UNCHANGED <<attempts, token, user, loading, since, listed, flight, page, awake>>

Next ==
    \/ \E account \in Accounts : Submit(account)
    \/ \E a \in DOMAIN attempts :
           TokenAnswered(a) \/ ProfileAnswered(a) \/ AttemptFails(a) \/ TokenDies(a)
    \/ SignOut \/ DevicesAnswered \/ SleepOrWake
    \/ \E call \in Mutations : MutationAnswered(call)
    \/ \E slot \in Streams \cup {Poll} : Answered(slot)
    \/ \E slot \in Slots : Request(slot) \/ Rejected(slot) \/ Lost(slot)
    \/ \E to \in Pages : Navigate(to)

\* While the dashboard or a device is shown and the tab is awake, the interval
\* sends a poll every ten seconds and the poll is answered.
Spec == Init /\ [][Next]_vars
             /\ WF_vars(Request(Poll)) /\ WF_vars(Answered(Poll)) /\ WF_vars(Rejected(Poll))

-----------------------------------------------------------------------------
(* As long as one person signs in between two sign-outs, the page shows     *)
(* that person, and that person's fleet: clear() leaves nothing of the last *)
(* session in the cache, nor any answer that was on its way (auth.tsx:105,  *)
(* App.tsx:34), whatever form was open and whatever came late.              *)
FleetOfOnePerson ==
    \A account \in Accounts :
        (\A a \in since : attempts[a].account = account) =>
            user \in {None, account} /\ listed \in {None, account}

(* A dead session does not stay on a page that polls, while the tab is in   *)
(* front: the poll is refused and signs the user out (App.tsx:16).          *)
Stranded ==
    /\ page \in PagesOf(Poll) /\ awake
    /\ user # None /\ ~Accepted(token)

DeadSessionEnds == Stranded ~> ~Stranded

(* "per-user isolation" (docs/SPEC.md:17): the fleet a page finds in the    *)
(* cache is the user's, also when one user signs in after another without   *)
(* a sign-out.                                                              *)
SharedCacheOfUser == user # None => listed \in {None, user}

(* "Auth state: the access token and the user it belongs to" (auth.tsx:2).  *)
SessionAgrees == user # None => token # 0 /\ attempts[token].account = user

(* "A 401 here means the same thing it means anywhere else: the session is  *)
(* over" (useChat.ts:168): it signs out the session it was answered to, and *)
(* not one that has begun since.                                            *)
OnlyOwnSessionEnds ==
    [][\A slot \in Slots :
           Rejected(slot) /\ user # None /\ Accepted(token) => flight[slot] = token]_vars
=============================================================================
