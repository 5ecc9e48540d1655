------------------------------ MODULE McpClient ------------------------------
(***************************************************************************)
(* The MCP server as a client of the API: backend/app/mcp/server.py builds *)
(* one runtime, under a lock, on the first tool call; every call then goes *)
(* through DataBullClient.request of mcp/client.py, which logs in when it  *)
(* has no token, renews the token once when the API answers 401, and gives *)
(* up on a second 401.  Calls run concurrently and share the client's      *)
(* token.                                                                  *)
(*                                                                         *)
(* A request is in flight between the step that sends it and the one that  *)
(* receives its answer; the API acts in between.  Accounts may be deleted, *)
(* and registered again under the same address, and tokens expire.         *)
(***************************************************************************)
EXTENDS Naturals, Sequences, FiniteSets

CONSTANTS
    Calls,        \* the tool calls of the MCP client
    NoCall,       \* nobody holds the lock
    Settings,     \* which of the credentials below the server may find set
    MaxAccounts   \* bound: registrations of the configured address

\* `has_credentials`: without either the server refuses every call.
ASSUME CredentialsAssumption ==
    /\ NoCall \notin Calls
    /\ Settings \subseteq {"token", "password", "both"}
    /\ MaxAccounts \in Nat \ {0}

VARIABLES
    settings,  \* the credentials in the environment
    created,   \* accounts registered so far under the configured address
    present,   \* the latest of them still exists
    issued,    \* every token ever minted, oldest first
    lock,      \* the call inside `async with _lock`
    owner,     \* the account id of the runtime's context, or NoOwner
    token,     \* DataBullClient._token
    pc,        \* where each call is
    phase,     \* which request it makes: "build" (/auth/me) or "run" (the tool's)
    renewed,   \* its request has already seen a 401 and logged in again
    held,      \* the token its request carries, or the one a login returned
    answer     \* the answer to it: its status and the account it is for

outside == <<settings, created, present, issued>>
vars == <<settings, created, present, issued, lock, owner, token, pc, phase, renewed, held, answer>>

\* DATABULL_TOKEN; DATABULL_EMAIL and DATABULL_PASSWORD.
Supplied == settings \in {"token", "both"}
Password == settings \in {"password", "both"}

-----------------------------------------------------------------------------
(* The API, as far as the client can tell.                                  *)

\* The account a supplied token may belong to besides the configured one.
Outsider == 0
Accounts == 0..MaxAccounts
NoToken == 0
NoOwner == MaxAccounts + 1

Token == [account : Accounts, live : BOOLEAN, first : BOOLEAN]

Exists(account) == account = Outsider \/ (present /\ account = created)

\* The gates of core/deps.py: signature and expiry, then the account.
Valid(t) == issued[t].live /\ Exists(issued[t].account)

Pending == {"login", "loggedIn", "sent", "answered"}
Failed == {"failed", "unrenewable", "gone"}
Ended == Failed \cup {"done"}
NoAnswer == [status |-> "none", account |-> Outsider]
Answer == [status : {"none", "ok", "rejected", "error"}, account : Accounts]

\* Types, and that whoever is building the runtime holds the lock.
TypeOK ==
    /\ settings \in Settings
    /\ created \in 1..MaxAccounts /\ present \in BOOLEAN
    /\ issued \in Seq(Token)
    /\ lock \in Calls \cup {NoCall}
    /\ owner \in Accounts \cup {NoOwner}
    /\ token \in 0..Len(issued)
    /\ pc \in [Calls -> {"idle", "waiting"} \cup Pending \cup Ended]
    /\ phase \in [Calls -> {"build", "run"}]
    /\ renewed \in [Calls -> BOOLEAN]
    /\ held \in [Calls -> 0..Len(issued)]
    /\ answer \in [Calls -> Answer]
    /\ \A c \in Calls : pc[c] \in Pending /\ phase[c] = "build" => lock = c

Init ==
    /\ settings \in Settings
    /\ created = 1 /\ present = TRUE
    /\ issued \in IF Supplied
                  THEN {<<[account |-> a, live |-> TRUE, first |-> FALSE]>> : a \in {Outsider, 1}}
                  ELSE {<<>>}
    /\ lock = NoCall /\ owner = NoOwner /\ token = NoToken
    /\ pc = [c \in Calls |-> "idle"]
    /\ phase = [c \in Calls |-> "run"]
    /\ renewed = [c \in Calls |-> FALSE]
    /\ held = [c \in Calls |-> NoToken]
    /\ answer = [c \in Calls |-> NoAnswer]

-----------------------------------------------------------------------------
(* Leaving a call, which releases the lock if it was building.              *)

Leave(c, how) ==
    /\ pc' = [pc EXCEPT ![c] = how]
    /\ lock' = IF lock = c THEN NoCall ELSE lock

\* `request` starts: without a token it logs in first.
Begin(c, stage, current) ==
    /\ pc' = [pc EXCEPT ![c] = IF current = NoToken THEN "login" ELSE "sent"]
    /\ phase' = [phase EXCEPT ![c] = stage]
    /\ renewed' = [renewed EXCEPT ![c] = FALSE]
    /\ held' = [held EXCEPT ![c] = current]
    /\ answer' = [answer EXCEPT ![c] = NoAnswer]

ToolCalled(c) ==
    /\ pc[c] = "idle"
    /\ pc' = [pc EXCEPT ![c] = "waiting"]
    /\ UNCHANGED <<outside, lock, owner, token, phase, renewed, held, answer>>

\* The supplied token, if there is one, is the first ever issued.
SettingsToken == IF Supplied THEN 1 ELSE NoToken

\* `_runtime is None`: a fresh client asks the API whose credentials it has.
EnterBuildUnlocked(c) ==
    /\ pc[c] = "waiting" /\ owner = NoOwner
    /\ lock' = c
    /\ token' = SettingsToken
    /\ Begin(c, "build", SettingsToken)
    /\ UNCHANGED <<outside, owner>>

EnterBuild(c) ==
    /\ pc[c] = "waiting" /\ lock = NoCall /\ owner = NoOwner
    /\ lock' = c
    /\ token' = SettingsToken
    /\ Begin(c, "build", SettingsToken)
    /\ UNCHANGED <<outside, owner>>

\* The runtime is there: the repository sends the tool's one request.
EnterRun(c) ==
    /\ pc[c] = "waiting" /\ lock = NoCall /\ owner # NoOwner
    /\ Begin(c, "run", token)
    /\ UNCHANGED <<outside, lock, owner, token>>

LoginAnswered(c) ==
    /\ pc[c] = "login" /\ present
    /\ issued' = Append(issued, [account |-> created, live |-> TRUE, first |-> ~renewed[c]])
    /\ pc' = [pc EXCEPT ![c] = "loggedIn"]
    /\ held' = [held EXCEPT ![c] = Len(issued) + 1]
    /\ UNCHANGED <<settings, created, present, lock, owner, token, phase, renewed, answer>>

\* "The API rejected these credentials."
LoginRefused(c) ==
    /\ pc[c] = "login" /\ ~present
    /\ Leave(c, "failed")
    /\ UNCHANGED <<outside, owner, token, phase, renewed, held, answer>>

\* The token is stored and the request sent with it, without a pause between.
StoreTokenOnce(c) ==
    /\ pc[c] = "loggedIn"
    /\ token' = IF token = NoToken THEN held[c] ELSE token
    /\ pc' = [pc EXCEPT ![c] = "sent"]
    /\ held' = [held EXCEPT ![c] = token']
    /\ UNCHANGED <<outside, lock, owner, phase, renewed, answer>>

StoreToken(c) ==
    /\ pc[c] = "loggedIn"
    /\ token' = held[c]
    /\ pc' = [pc EXCEPT ![c] = "sent"]
    /\ UNCHANGED <<outside, lock, owner, phase, renewed, held, answer>>

\* The API answers: 401 to a dead token, the data or another error otherwise.
Answered(c) ==
    /\ pc[c] = "sent"
    /\ \E status \in IF Valid(held[c]) THEN {"ok", "error"} ELSE {"rejected"} :
           answer' = [answer EXCEPT ![c] =
                         [status |-> status, account |-> issued[held[c]].account]]
    /\ pc' = [pc EXCEPT ![c] = "answered"]
    /\ UNCHANGED <<outside, lock, owner, token, phase, renewed, held>>

-----------------------------------------------------------------------------
(* The answer is received.                                                  *)

\* The first 401: log in again, if there is a password to do it with.
RenewOnError(c) ==
    /\ pc[c] = "answered" /\ answer[c].status # "ok"
    /\ Password /\ ~renewed[c]
    /\ pc' = [pc EXCEPT ![c] = "login"]
    /\ renewed' = [renewed EXCEPT ![c] = TRUE]
    /\ UNCHANGED <<outside, lock, owner, token, phase, held, answer>>

Renew(c) ==
    /\ pc[c] = "answered" /\ answer[c].status = "rejected"
    /\ Password /\ ~renewed[c]
    /\ pc' = [pc EXCEPT ![c] = "login"]
    /\ renewed' = [renewed EXCEPT ![c] = TRUE]
    /\ UNCHANGED <<outside, lock, owner, token, phase, held, answer>>

GiveUp(c) ==
    /\ pc[c] = "answered"
    /\ \/ answer[c].status = "error" /\ Leave(c, "failed")
       \/ answer[c].status = "rejected" /\ ~Password /\ Leave(c, "unrenewable")
       \/ answer[c].status = "rejected" /\ Password /\ renewed[c] /\ Leave(c, "gone")
    /\ UNCHANGED <<outside, owner, token, phase, renewed, held, answer>>

\* The runtime is kept, the lock released, and the tool's request sent.
RuntimeBuilt(c) ==
    /\ pc[c] = "answered" /\ answer[c].status = "ok" /\ phase[c] = "build"
    /\ owner' = answer[c].account
    /\ lock' = NoCall
    /\ Begin(c, "run", token)
    /\ UNCHANGED <<outside, token>>

ToolAnswered(c) ==
    /\ pc[c] = "answered" /\ answer[c].status = "ok" /\ phase[c] = "run"
    /\ pc' = [pc EXCEPT ![c] = "done"]
    /\ UNCHANGED <<outside, lock, owner, token, phase, renewed, held, answer>>

\* A timeout, a refused connection or a broken answer, whatever the API did.
TransportFailsHoldingLock(c) ==
    /\ pc[c] \in Pending
    /\ pc' = [pc EXCEPT ![c] = "failed"]
    /\ UNCHANGED <<outside, lock, owner, token, phase, renewed, held, answer>>

TransportFails(c) ==
    /\ pc[c] \in Pending
    /\ Leave(c, "failed")
    /\ UNCHANGED <<outside, owner, token, phase, renewed, held, answer>>

-----------------------------------------------------------------------------
(* The world outside.                                                       *)

AccountDeleted ==
    /\ present
    /\ present' = FALSE
    /\ UNCHANGED <<settings, created, issued, lock, owner, token, pc, phase, renewed, held, answer>>

\* The same address and password, but another account.
AccountRegisteredAgain ==
    /\ ~present /\ created < MaxAccounts
    /\ created' = created + 1 /\ present' = TRUE
    /\ UNCHANGED <<settings, issued, lock, owner, token, pc, phase, renewed, held, answer>>

\* A token lives 24 hours and a request 15 seconds, so none expires between the
\* renewal that minted it and the answer to the request it was renewed for.
JustRenewed(t) ==
    \E c \in Calls : pc[c] \in {"loggedIn", "sent"} /\ renewed[c] /\ held[c] = t

TokenExpires(t) ==
    /\ issued[t].live /\ ~JustRenewed(t)
    /\ issued' = [issued EXCEPT ![t].live = FALSE]
    /\ UNCHANGED <<settings, created, present, lock, owner, token, pc, phase, renewed, held, answer>>

Progress(c) ==
    \/ EnterBuild(c) \/ EnterRun(c)
    \/ LoginAnswered(c) \/ LoginRefused(c) \/ StoreToken(c) \/ Answered(c)
    \/ Renew(c) \/ GiveUp(c) \/ RuntimeBuilt(c) \/ ToolAnswered(c)

Next ==
    \/ \E c \in Calls : ToolCalled(c) \/ Progress(c) \/ TransportFails(c)
    \/ AccountDeleted \/ AccountRegisteredAgain
    \/ \E t \in 1..Len(issued) : TokenExpires(t)

\* httpx bounds every request, so each call moves on whenever it can.
Spec == Init /\ [][Next]_vars /\ \A c \in Calls : WF_vars(Progress(c))

-----------------------------------------------------------------------------
(* "An agent may well fire several tool calls in parallel on its first      *)
(* turn, and each would otherwise log in" (server.py:93): the logins made   *)
(* for want of a token are at most one more than the calls that failed.     *)
OneLoginOnFirstUse ==
    Cardinality({t \in 1..Len(issued) : issued[t].first})
        <= 1 + Cardinality({c \in Calls : pc[c] \in Failed})

(* The runtime is built once: no later call, success or failure, replaces   *)
(* the account the tools act for or starts a second build.                  *)
RuntimeBuiltOnce ==
    [][owner # NoOwner =>
           owner' = owner /\ \A c \in Calls : phase'[c] = "build" => phase[c] = "build"]_vars

(* A second 401 really means "the account may be gone" (client.py:148): not *)
(* that a concurrent call's renewal, or an expiry, got in the way.          *)
SecondRejectionMeansGone ==
    \A c \in Calls : pc[c] = "gone" => ~Exists(issued[held[c]].account)

(* Every tool call ends, in an answer or an error: no failure of a build    *)
(* leaves the lock taken, and no renewal goes on for ever.                  *)
CallsEnd == \A c \in Calls : pc[c] = "waiting" ~> pc[c] \in Ended

(* "A mismatch raises rather than quietly querying as the wrong user"       *)
(* (docs/MCP.md): what a call returns belongs to the runtime's owner.       *)
OwnerIsAnswering ==
    \A c \in Calls : pc[c] = "done" => answer[c].account = owner

\* Nobody is left to answer for it: the account was deleted, or it is not the
\* configured one and its supplied token has expired.
Lapsed(account) ==
    ~Exists(account) \/ (account = Outsider /\ ~issued[SettingsToken].live)

(* While it can be asked for, the runtime's account is the one that every   *)
(* call is answered for, although the calls share and replace one token     *)
(* (client.py:137, 183): none waiting, renewing or logging in meanwhile is  *)
(* sent as another account, the one of the password included.               *)
AnswersForOwner ==
    \A c \in Calls : pc[c] = "done" /\ answer[c].account # owner => Lapsed(owner)

(* "A caller-supplied token is used as-is; one we minted ourselves can be   *)
(* replaced on expiry" (client.py:61).                                      *)
SuppliedTokenKept ==
    [][Supplied /\ token = SettingsToken => token' = token]_vars
=============================================================================
