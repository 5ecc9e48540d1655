------------------------------ MODULE TokenGate ------------------------------
(***************************************************************************)
(* Who is asking: tokens are minted at signup and login and presented to   *)
(* get_current_user of backend/app/core/deps.py, which tests three gates,  *)
(* with a cache of known accounts between the second and the third.        *)
(*                                                                         *)
(* Requests interleave at their awaits.  The clock runs at any moment, also*)
(* between the two accesses to the cache, which are two readings of it.    *)
(* The 10 000 entries the cache holds are more than a model needs, and the *)
(* number of a token stands for its signature: only minted ones verify.    *)
(***************************************************************************)
EXTENDS Naturals, Sequences

CONSTANTS
    Accounts,    \* ids of accounts; none is used twice
    Nobody,      \* no account
    Slots,       \* requests being served
    TTL,         \* how long the cache keeps an entry (30 s)
    Lifetime,    \* how long a token is accepted (24 h)
    MaxTime,     \* bound: the clock
    MaxTokens    \* bound: tokens minted

VARIABLES
    now,         \* the clock
    created,     \* accounts that have ever signed up
    present,     \* those that still exist
    tokens,      \* every token minted
    known,       \* _user_exists_cache: when each entry expires, 0 without one
    requests     \* what each slot serves

vars == <<now, created, present, tokens, known, requests>>

-----------------------------------------------------------------------------

Forged == 0

Token == [account : Accounts, expires : Nat]

\* `since` and `existed` are history: when a request arrived, and whether the
\* account of its token existed then.
Request == [pc : {"idle", "cached", "lookUp", "resume", "accepted", "refused", "error", "verify"},
            account : Accounts \cup {Nobody}, token : 0..MaxTokens, found : BOOLEAN,
            since : 0..MaxTime, existed : BOOLEAN]

NoRequest == [pc |-> "idle", account |-> Nobody, token |-> Forged, found |-> FALSE,
              since |-> 0, existed |-> FALSE]

\* Types, and that an entry of the cache never outlives its TTL.
TypeOK ==
    /\ now \in 0..MaxTime
    /\ present \subseteq created /\ created \subseteq Accounts
    /\ tokens \in Seq(Token) /\ Len(tokens) <= MaxTokens
    /\ known \in [Accounts -> Nat]
    /\ requests \in [Slots -> Request]
    /\ \A a \in Accounts : known[a] <= now + TTL

Init ==
    /\ now = 0
    /\ created = {} /\ present = {}
    /\ tokens = <<>>
    /\ known = [a \in Accounts |-> 0]
    /\ requests = [s \in Slots |-> NoRequest]

\* Only the clock runs between the two accesses to the cache.
AtAwait(s) == \A r \in Slots \ {s} : requests[r].pc # "cached"

Moves(s, pc) == requests' = [requests EXCEPT ![s].pc = pc]

Minted(account) == Append(tokens, [account |-> account, expires |-> now + Lifetime])

-----------------------------------------------------------------------------
(* /auth/signup and /auth/login                                             *)

Signup(a) ==
    /\ \A s \in Slots : requests[s].pc # "cached"
    /\ a \notin created /\ Len(tokens) < MaxTokens
    /\ created' = created \cup {a} /\ present' = present \cup {a}
    /\ tokens' = Minted(a)
    /\ UNCHANGED <<now, known, requests>>

\* The account is read, then the password is verified, or a dummy in its place.
Login(s, a) ==
    /\ AtAwait(s)
    /\ requests[s].pc = "idle" /\ a \in created
    /\ requests' = [requests EXCEPT ![s] =
           [NoRequest EXCEPT !.pc = "verify", !.account = a, !.found = a \in present, !.since = now]]
    /\ UNCHANGED <<now, created, present, tokens, known>>

Verified(s) ==
    /\ AtAwait(s)
    /\ requests[s].pc = "verify" /\ requests[s].found /\ Len(tokens) < MaxTokens
    /\ tokens' = Minted(requests[s].account)
    /\ requests' = [requests EXCEPT ![s] = NoRequest]
    /\ UNCHANGED <<now, created, present, known>>

\* "Incorrect email or password.", whichever it was.
LoginRefused(s) ==
    /\ AtAwait(s)
    /\ requests[s].pc = "verify"
    /\ requests' = [requests EXCEPT ![s] = NoRequest]
    /\ UNCHANGED <<now, created, present, tokens, known>>

-----------------------------------------------------------------------------
(* get_current_user                                                         *)

\* decode_access_token: the account, or nobody if forged or expired.
Decode(t) == IF t = Forged \/ tokens[t].expires <= now THEN Nobody ELSE tokens[t].account

\* The first two gates, and `user_id in _user_exists_cache`.
Arrive(s, t) ==
    /\ AtAwait(s)
    /\ requests[s].pc = "idle"
    /\ LET a == Decode(t)
       IN  requests' = [requests EXCEPT ![s] =
               [pc |-> IF a = Nobody THEN "refused"
                       ELSE IF now < known[a] THEN "cached" ELSE "lookUp",
                account |-> a, token |-> t, found |-> FALSE,
                since |-> now, existed |-> a \in present]]
    /\ UNCHANGED <<now, created, present, tokens, known>>

\* `not _user_exists_cache[user_id]`: every entry is True, so the third gate is
\* asked all the same; an entry that has just expired is a KeyError.
ReadCacheInverted(s) ==
    /\ requests[s].pc = "cached"
    /\ Moves(s, IF now < known[requests[s].account] THEN "refused" ELSE "error")
    /\ UNCHANGED <<now, created, present, tokens, known>>

ReadCache(s) ==
    /\ requests[s].pc = "cached"
    /\ Moves(s, IF now < known[requests[s].account] THEN "lookUp" ELSE "error")
    /\ UNCHANGED <<now, created, present, tokens, known>>

LookUpTrustingCache(s) ==
    /\ AtAwait(s)
    /\ requests[s].pc = "lookUp"
    /\ requests' = [requests EXCEPT ![s].pc = "resume", ![s].found =
                       requests[s].account \in present \/ now < known[requests[s].account]]
    /\ UNCHANGED <<now, created, present, tokens, known>>

LookUp(s) ==
    /\ AtAwait(s)
    /\ requests[s].pc = "lookUp"
    /\ requests' = [requests EXCEPT ![s].pc = "resume", ![s].found = requests[s].account \in present]
    /\ UNCHANGED <<now, created, present, tokens, known>>

\* The coroutine resumes with the row, which may be gone by now.
Resume(s) ==
    /\ AtAwait(s)
    /\ requests[s].pc = "resume"
    /\ known' = IF requests[s].found THEN [known EXCEPT ![requests[s].account] = now + TTL] ELSE known
    /\ Moves(s, IF requests[s].found THEN "accepted" ELSE "refused")
    /\ UNCHANGED <<now, created, present, tokens>>

\* The route answers; /auth/me/delete, with the right password, deletes the
\* account, and leaves the cache as it is.
Respond(s) ==
    /\ AtAwait(s)
    /\ requests[s].pc \in {"accepted", "refused", "error"}
    /\ \/ UNCHANGED present
       \/ requests[s].pc = "accepted" /\ present' = present \ {requests[s].account}
    /\ requests' = [requests EXCEPT ![s] = NoRequest]
    /\ UNCHANGED <<now, created, tokens, known>>

Tick ==
    /\ now < MaxTime
    /\ now' = now + 1
    /\ UNCHANGED <<created, present, tokens, known, requests>>

Next ==
    \/ Tick
    \/ \E a \in Accounts : Signup(a)
    \/ \E s \in Slots :
           \/ Verified(s) \/ LoginRefused(s)
           \/ ReadCache(s) \/ LookUp(s) \/ Resume(s) \/ Respond(s)
           \/ \E a \in Accounts : Login(s, a)
           \/ \E t \in 0..Len(tokens) : Arrive(s, t)

Spec == Init /\ [][Next]_vars

-----------------------------------------------------------------------------
(* "A token minted for an account that has since been deleted still passes  *)
(* signature and expiry checks" (deps.py:45): no request that came after the*)
(* deletion is accepted, cached or not, and none with a token that had      *)
(* expired when it came.                                                    *)
AcceptedExisted ==
    \A s \in Slots : requests[s].pc = "accepted" =>
        /\ requests[s].existed
        /\ requests[s].token # Forged
        /\ requests[s].since < tokens[requests[s].token].expires

(* Nobody is signed out without a reason: a refusal means that the token is *)
(* not ours or has expired, or that the account is gone, never that the     *)
(* cache said so.                                                           *)
RefusedWithReason ==
    \A s \in Slots : requests[s].pc = "refused" =>
        \/ requests[s].token = Forged
        \/ tokens[requests[s].token].expires <= now
        \/ tokens[requests[s].token].account \notin present

(* "Resolve the caller's `User` from the bearer token, or raise 401"        *)
(* (deps.py:37): there is no third outcome.                                 *)
ResolvesOrRefuses == \A s \in Slots : requests[s].pc # "error"
=============================================================================
