-------------------------- MODULE SessionAuthProofs --------------------------
(* Proofs about SessionAuth, for any number of people, sign-ins and         *)
(* requests: its types; and that one person's session shows nobody else's   *)
(* fleet.                                                                   *)
EXTENDS SessionAuth, SequenceTheorems, TLAPS

-----------------------------------------------------------------------------
(* What the steps do to the sign-ins.                                       *)

LEMMA Domain == TypeOK => Len(attempts) \in Nat /\ DOMAIN attempts = 1..Len(attempts)
  BY LenProperties DEF TypeOK

\* A sign-in changes its state and never its account.
LEMMA Advanced ==
    ASSUME TypeOK, NEW a \in DOMAIN attempts, NEW state \in {"sent", "profile", "ended"},
           attempts' = [attempts EXCEPT ![a].state = state]
    PROVE  /\ attempts' \in Seq(Attempt) /\ Len(attempts') = Len(attempts)
           /\ DOMAIN attempts' = DOMAIN attempts
           /\ \A b \in DOMAIN attempts :
                 /\ attempts'[b].account = attempts[b].account
                 /\ attempts'[b].state = IF b = a THEN state ELSE attempts[b].state
  <1>1. attempts \in Seq(Attempt) /\ DOMAIN attempts = 1..Len(attempts)
    BY Domain DEF TypeOK
  <1>2. attempts[a] \in Attempt
    BY <1>1, ElementOfSeq
  <1> DEFINE new == [attempts[a] EXCEPT !.state = state]
  <1>3. new \in Attempt /\ new.account = attempts[a].account /\ new.state = state
    BY <1>2 DEF Attempt
  <1>4. attempts' = [attempts EXCEPT ![a] = new]
    OBVIOUS
  <1> HIDE DEF new
  <1>5. attempts' \in Seq(Attempt) /\ Len(attempts') = Len(attempts)
    BY <1>1, <1>3, <1>4, ExceptSeq
  <1>6. \A b \in DOMAIN attempts : attempts'[b] = IF b = a THEN new ELSE attempts[b]
    BY <1>4
  <1>7. DOMAIN attempts' = DOMAIN attempts
    BY <1>4
  <1> QED
    BY <1>3, <1>5, <1>6, <1>7

\* A new one comes last.
LEMMA Submitted ==
    ASSUME TypeOK, NEW account \in Accounts, Submit(account)
    PROVE  /\ attempts' \in Seq(Attempt) /\ Len(attempts') = Len(attempts) + 1
           /\ Len(attempts') <= MaxAttempts
           /\ DOMAIN attempts' = 1..(Len(attempts) + 1)
           /\ \A b \in 1..Len(attempts) : attempts'[b] = attempts[b]
           /\ attempts'[Len(attempts) + 1].state = "sent"
  <1> DEFINE new == [account |-> account, state |-> "sent"]
  <1>1. new \in Attempt /\ new.state = "sent"
    BY DEF Attempt
  <1>2. attempts \in Seq(Attempt) /\ attempts' = Append(attempts, new)
        /\ Len(attempts) \in Nat /\ Len(attempts) < MaxAttempts
    BY Domain DEF TypeOK, Submit
  <1> HIDE DEF new
  <1>3. attempts' \in Seq(Attempt) /\ Len(attempts') = Len(attempts) + 1
        /\ \A b \in 1..Len(attempts) : attempts'[b] = attempts[b]
        /\ attempts'[Len(attempts) + 1] = new
    BY <1>1, <1>2, AppendProperties
  <1> QED
    BY <1>1, <1>2, <1>3, LenProperties, SessionAssumption

-----------------------------------------------------------------------------
(* Types.                                                                   *)

\* A request carries a token of a sign-in there has been, or none.
Carried == \A slot \in Slots : flight[slot] \in 0..Len(attempts) \cup {Idle}

Typed == TypeOK /\ Carried

\* Once the sign-ins are known to be well typed, the rest is.
LEMMA Retyped ==
    ASSUME Typed, attempts' \in Seq(Attempt), Len(attempts') \in Nat,
           Len(attempts) <= Len(attempts'), Len(attempts') <= MaxAttempts,
           token' = token \/ token' \in 0..Len(attempts'),
           user' \in Accounts \cup {None},
           loading' \in BOOLEAN, loading' => InFlight' # {},
           since' = since \/ since' \subseteq 1..Len(attempts'),
           page' \in Pages, page' # "forms" => user' # None,
           UNCHANGED <<dead, listed, flight, awake>>
    PROVE  Typed'
  <1>1. Len(attempts) \in Nat /\ MaxAttempts \in Nat
    BY Domain, SessionAssumption DEF Typed
  <1>2. token' \in 0..Len(attempts')
    BY <1>1 DEF Typed, TypeOK
  <1>a. 1..Len(attempts) \subseteq 1..Len(attempts')
    BY <1>1
  <1>3. dead' \subseteq 1..Len(attempts')
    BY <1>a DEF Typed, TypeOK
  <1>4. since' \subseteq 1..Len(attempts')
    BY <1>a DEF Typed, TypeOK
  <1>5. Carried'
    BY <1>1 DEF Typed, Carried
  <1> QED
    BY <1>2, <1>3, <1>4, <1>5 DEF Typed, TypeOK

\* Sending a request and taking an answer move its slot, and the cache.
LEMMA Moved ==
    ASSUME Typed, \A slot \in Slots : flight'[slot] \in {flight[slot], token, Idle},
           flight' \in [Slots -> Tokens \cup {Idle}], listed' \in Accounts \cup {None},
           UNCHANGED <<session, page, awake>>
    PROVE  Typed'
  <1>1. UNCHANGED <<attempts, token, user, loading, dead, since>>
    BY DEF session
  <1>2. Carried'
    BY <1>1 DEF Typed, TypeOK, Carried
  <1> QED
    BY <1>1, <1>2 DEF Typed, TypeOK, InFlight

LEMMA TypeKept == Typed /\ [Next]_vars => Typed'
  <1> SUFFICES ASSUME Typed, [Next]_vars PROVE Typed'
    OBVIOUS
  <1>0. /\ TypeOK /\ Len(attempts) \in Nat /\ DOMAIN attempts = 1..Len(attempts)
        /\ MaxAttempts \in Nat /\ Len(attempts) <= MaxAttempts
        /\ Devices \in Slots /\ Poll \in Slots
    BY Domain, SessionAssumption DEF Typed, TypeOK, Slots
  <1>t. ASSUME NEW slot \in Slots PROVE flight[slot] \in Tokens \cup {Idle}
    BY <1>t DEF Typed, TypeOK
  <1>1. ASSUME NEW account \in Accounts, Submit(account) PROVE Typed'
    <2>1. /\ attempts' \in Seq(Attempt) /\ Len(attempts') = Len(attempts) + 1
          /\ Len(attempts') <= MaxAttempts /\ DOMAIN attempts' = 1..(Len(attempts) + 1)
          /\ attempts'[Len(attempts) + 1].state = "sent"
      BY <1>0, <1>1, Submitted
    <2>2. Len(attempts) + 1 \in InFlight'
      BY <1>0, <2>1 DEF InFlight
    <2>3. /\ loading' = TRUE /\ since' = since \cup {Len(attempts) + 1}
          /\ UNCHANGED <<token, user, dead, listed, flight, page, awake>>
      BY <1>1 DEF Submit
    <2>4. since' \subseteq 1..Len(attempts')
      <3>1. since \subseteq 1..Len(attempts)
        BY <1>0 DEF TypeOK
      <3>2. 1..Len(attempts) \cup {Len(attempts) + 1} \subseteq 1..Len(attempts')
        BY <1>0, <2>1
      <3> QED
        BY <2>3, <3>1, <3>2
    <2>5. user' \in Accounts \cup {None} /\ page' \in Pages /\ (page' # "forms" => user' # None)
      BY <1>0, <2>3 DEF TypeOK
    <2> QED
      BY <1>0, <2>1, <2>2, <2>3, <2>4, <2>5, Retyped
  <1>2. ASSUME NEW a \in DOMAIN attempts, TokenAnswered(a) PROVE Typed'
    <2>1. attempts' = [attempts EXCEPT ![a].state = "profile"]
      BY <1>2 DEF TokenAnswered
    <2>2. attempts' \in Seq(Attempt) /\ Len(attempts') = Len(attempts) /\ a \in InFlight'
      <3>1. /\ attempts' \in Seq(Attempt) /\ Len(attempts') = Len(attempts)
            /\ a \in DOMAIN attempts' /\ attempts'[a].state = "profile"
        BY <1>0, <2>1, Advanced
      <3> QED
        BY <3>1 DEF InFlight
    <2>3. /\ token' \in 0..Len(attempts')
          /\ UNCHANGED <<user, loading, dead, since, listed, flight, page, awake>>
      BY <1>0, <1>2, <2>2 DEF TokenAnswered
    <2>4. /\ user' \in Accounts \cup {None} /\ page' \in Pages /\ (page' # "forms" => user' # None)
          /\ loading' \in BOOLEAN
      BY <1>0, <2>3 DEF TypeOK
    <2> QED
      BY <1>0, <2>2, <2>3, <2>4, Retyped
  \* A sign-in that is over stops the spinner.
  <1>e. ASSUME NEW a \in DOMAIN attempts, attempts' = [attempts EXCEPT ![a].state = "ended"],
               token' \in {0, token}, user' \in Accounts \cup {None}, loading' = FALSE,
               page' \in Pages, page' # "forms" => user' # None,
               UNCHANGED <<dead, since, listed, flight, awake>>
        PROVE  Typed'
    <2>1. attempts' \in Seq(Attempt) /\ Len(attempts') = Len(attempts)
      BY <1>0, <1>e, Advanced
    <2>2. token' \in 0..Len(attempts')
      BY <1>0, <1>e, <2>1 DEF TypeOK
    <2>3. loading' \in BOOLEAN /\ ~loading'
      BY <1>e
    <2> QED
      BY <1>0, <1>e, <2>1, <2>2, <2>3, Retyped
  <1>3. ASSUME NEW a \in DOMAIN attempts, ProfileAnswered(a) PROVE Typed'
    <2>1. attempts[a] \in Attempt
      BY <1>0, ElementOfSeq DEF TypeOK
    <2>2. attempts[a].account \in Accounts /\ attempts[a].account # None
      BY <2>1, SessionAssumption DEF Attempt
    <2>3. /\ user' = attempts[a].account /\ page' = "dashboard" /\ loading' = FALSE
          /\ attempts' = [attempts EXCEPT ![a].state = "ended"]
          /\ UNCHANGED <<token, dead, since, listed, flight, awake>>
      BY <1>3 DEF ProfileAnswered
    <2>4. page' \in Pages
      BY <2>3 DEF Pages
    <2> QED
      BY <1>e, <2>2, <2>3, <2>4
  <1>4. ASSUME NEW a \in DOMAIN attempts, AttemptFails(a) PROVE Typed'
    BY <1>4, <1>e DEF AttemptFails, Pages
  <1>5. ASSUME NEW a \in DOMAIN attempts, TokenDies(a) PROVE Typed'
    BY <1>0, <1>5 DEF TokenDies, Typed, TypeOK, Carried, InFlight
  <1>6. ASSUME NEW slot \in Slots, Logout(slot) PROVE Typed'
    <2>1. flight' \in [Slots -> Tokens \cup {Idle}] /\ Carried'
      BY <1>6 DEF Logout, Typed, TypeOK, Carried
    <2>2. since' \subseteq 1..Len(attempts)
      BY <1>0, <1>6 DEF Logout, InFlight
    <2> QED
      BY <1>0, <1>6, <2>1, <2>2 DEF Logout, Typed, TypeOK, InFlight, Pages
  <1>7. CASE SignOut
    BY <1>0, <1>6, <1>7 DEF SignOut
  <1>8. ASSUME NEW slot \in Slots, Rejected(slot) PROVE Typed'
    BY <1>6, <1>8 DEF Rejected
  <1>9. ASSUME NEW slot \in Slots, NEW sent \in {token, Idle},
               flight' = [flight EXCEPT ![slot] = sent], UNCHANGED <<session, listed, page, awake>>
        PROVE  Typed'
    <2>1. flight' \in [Slots -> Tokens \cup {Idle}]
      BY <1>0, <1>9 DEF TypeOK, Tokens
    <2>2. \A s \in Slots : flight'[s] \in {flight[s], token, Idle}
      BY <1>0, <1>9 DEF TypeOK
    <2> QED
      BY <1>0, <1>9, <2>1, <2>2, Moved DEF TypeOK
  <1>10. ASSUME NEW slot \in Slots, Request(slot) \/ Answered(slot) \/ Lost(slot) PROVE Typed'
    BY <1>9, <1>10 DEF Request, Answered, Lost
  <1>11. CASE DevicesAnswered
    <2>1. flight[Devices] \in 1..Len(attempts)
      BY <1>0, <1>11 DEF DevicesAnswered, Accepted, Typed, Carried
    <2>2. attempts[flight[Devices]] \in Attempt
      BY <2>1, ElementOfSeq DEF Typed, TypeOK
    <2>3. listed' \in Accounts \cup {None}
      BY <1>11, <2>2 DEF DevicesAnswered, Attempt
    <2>4. flight' \in [Slots -> Tokens \cup {Idle}]
          /\ \A s \in Slots : flight'[s] \in {flight[s], token, Idle}
      BY <1>0, <1>11 DEF DevicesAnswered, TypeOK
    <2> QED
      BY <1>11, <2>3, <2>4, Moved DEF DevicesAnswered
  <1>12. ASSUME NEW call \in Mutations, MutationAnswered(call) PROVE Typed'
    <2>1. call \in Slots
      BY DEF Slots
    <2>2. PICK again \in {flight[Devices], token, Idle} :
             flight' = [flight EXCEPT ![call] = Idle, ![Devices] = again]
      BY <1>0, <1>12, <2>1, SessionAssumption DEF MutationAnswered, TypeOK
    <2>3. again \in Tokens \cup {Idle}
      BY <1>0, <1>t, <2>2 DEF TypeOK, Tokens
    <2>4. flight' \in [Slots -> Tokens \cup {Idle}]
          /\ \A s \in Slots : flight'[s] \in {flight[s], token, Idle}
      BY <1>0, <2>1, <2>2, <2>3 DEF TypeOK
    <2>5. UNCHANGED <<session, listed, page, awake>>
      BY <1>12 DEF MutationAnswered
    <2> QED
      BY <1>0, <2>4, <2>5, Moved DEF TypeOK
  <1>13. ASSUME SleepOrWake \/ \E to \in Pages : Navigate(to) PROVE Typed'
    <2>1. /\ UNCHANGED <<session, listed, flight>>
          /\ page' \in Pages /\ awake' \in BOOLEAN /\ (page' # "forms" => user # None)
      BY <1>0, <1>13 DEF SleepOrWake, Navigate, TypeOK
    <2> QED
      BY <1>0, <2>1 DEF session, Typed, TypeOK, Carried, InFlight
  <1>14. CASE UNCHANGED vars
    BY <1>14 DEF vars, session, Typed, TypeOK, Carried, InFlight
  <1>15. ASSUME NEW slot \in Streams \cup {Poll}, Answered(slot) PROVE Typed'
    BY <1>0, <1>10, <1>15 DEF Slots
  <1> QED
    BY <1>1, <1>2, <1>3, <1>4, <1>5, <1>7, <1>8, <1>10, <1>11, <1>12, <1>13, <1>14, <1>15
       DEF Next

-----------------------------------------------------------------------------
(* One person's session.                                                    *)

\* What is on its way belongs to the sign-ins of this session: those in flight,
\* the token, and the token that a fetch of the fleet carries.
OnItsWay ==
    /\ InFlight \subseteq since
    /\ token # 0 => token \in since
    /\ flight[Devices] \notin {0, Idle} => flight[Devices] \in since

\* Someone who signed in during this session.
OfSession(account) == \E a \in since : attempts[a].account = account

\* So does what is shown.
OnScreen ==
    /\ user # None => OfSession(user)
    /\ listed # None => OfSession(listed)

IInv == Typed /\ OnItsWay /\ OnScreen

LEMMA InitHolds == Init => IInv
  <1> SUFFICES ASSUME Init PROVE IInv
    OBVIOUS
  <1>1. attempts = <<>> /\ Len(attempts) = 0 /\ DOMAIN attempts = {} /\ InFlight = {}
    BY DEF Init, InFlight
  <1>2. Typed
    <2>1. attempts \in Seq(Attempt) /\ Len(attempts) <= MaxAttempts /\ token \in 0..Len(attempts)
      BY <1>1, SessionAssumption DEF Init
    <2>2. flight \in [Slots -> Tokens \cup {Idle}] /\ Carried
      BY DEF Init, Carried
    <2>3. /\ loading = FALSE /\ listed = None /\ dead = {} /\ user = None /\ since = {}
          /\ page = "forms" /\ awake = TRUE
      BY DEF Init
    <2> QED
      BY <2>1, <2>2, <2>3 DEF Typed, TypeOK, Pages
  <1>3. OnItsWay /\ OnScreen
    BY <1>1 DEF Init, OnItsWay, OnScreen, Slots
  <1> QED
    BY <1>2, <1>3 DEF IInv

LEMMA Kept == IInv /\ [Next]_vars => IInv'
  <1> DEFINE Rest == OnItsWay /\ OnScreen
  <1> SUFFICES ASSUME IInv, [Next]_vars PROVE Rest'
    BY TypeKept DEF IInv
  <1>0. /\ Typed /\ TypeOK /\ Len(attempts) \in Nat /\ DOMAIN attempts = 1..Len(attempts)
        /\ MaxAttempts \in Nat /\ Devices \in Slots /\ Poll \in Slots
        /\ since \subseteq 1..Len(attempts) /\ None \notin Accounts
    BY Domain, SessionAssumption DEF IInv, Typed, TypeOK, Slots
  <1>i. OnItsWay /\ OnScreen
    BY DEF IInv
  \* A sign-in keeps its account, and stays in the session while that lasts.
  <1>s. ASSUME since \subseteq since', NEW account, OfSession(account),
               \A b \in 1..Len(attempts) : attempts'[b].account = attempts[b].account
        PROVE  OfSession(account)'
    <2>1. PICK a \in since : attempts[a].account = account
      BY <1>s DEF OfSession
    <2>2. a \in since' /\ attempts'[a].account = account
      BY <1>0, <1>s, <2>1
    <2> QED
      BY <2>2 DEF OfSession
  <1>1. ASSUME NEW account \in Accounts, Submit(account) PROVE Rest'
    <2>1. /\ DOMAIN attempts' = 1..(Len(attempts) + 1)
          /\ \A b \in 1..Len(attempts) : attempts'[b] = attempts[b]
      BY <1>0, <1>1, Submitted
    <2>2. /\ since' = since \cup {Len(attempts) + 1}
          /\ UNCHANGED <<token, user, listed, flight>>
      BY <1>1 DEF Submit
    <2>3. OnItsWay'
      <3>1. InFlight' \subseteq InFlight \cup {Len(attempts) + 1}
        BY <1>0, <2>1 DEF InFlight
      <3> QED
        BY <1>i, <2>2, <3>1 DEF OnItsWay
    <2>4. OnScreen'
      BY <1>i, <1>s, <2>1, <2>2 DEF OnScreen
    <2> QED
      BY <2>3, <2>4
  \* The token, the user and the fleet are a sign-in's that is on its way.
  <1>2. ASSUME NEW a \in DOMAIN attempts, NEW state \in {"profile", "ended"}, a \in InFlight,
               attempts' = [attempts EXCEPT ![a].state = state],
               token' \in {0, token, a}, user' \in {None, user, attempts[a].account},
               UNCHANGED <<since, listed, flight>>
        PROVE  Rest'
    <2>1. /\ DOMAIN attempts' = DOMAIN attempts
          /\ \A b \in DOMAIN attempts :
                /\ attempts'[b].account = attempts[b].account
                /\ attempts'[b].state = IF b = a THEN state ELSE attempts[b].state
      BY <1>0, <1>2, Advanced
    <2>2. a \in since
      BY <1>2, <1>i DEF OnItsWay
    <2>3. OnItsWay'
      <3>1. InFlight' \subseteq InFlight
        BY <1>2, <2>1 DEF InFlight
      <3> QED
        BY <1>2, <1>i, <2>2, <3>1 DEF OnItsWay
    <2>4. OfSession(attempts[a].account)
      BY <2>2 DEF OfSession
    <2>5. (user # None => OfSession(user))'
      <3>1. user' # None => \E b \in since : attempts[b].account = user'
        BY <1>2, <1>i, <2>4 DEF OnScreen, OfSession
      <3>2. user' # None => \E b \in since' : attempts'[b].account = user'
        BY <1>0, <1>2, <2>1, <3>1
      <3> QED
        BY <3>2 DEF OfSession
    <2>6. (listed # None => OfSession(listed))'
      BY <1>0, <1>2, <1>i, <2>1 DEF OnScreen, OfSession
    <2> QED
      BY <2>3, <2>5, <2>6 DEF OnScreen
  <1>3. ASSUME NEW a \in DOMAIN attempts,
               TokenAnswered(a) \/ ProfileAnswered(a) \/ AttemptFails(a)
        PROVE  Rest'
    <2>1. a \in InFlight
      BY <1>3 DEF TokenAnswered, ProfileAnswered, AttemptFails, InFlight
    <2> QED
      BY <1>2, <1>3, <2>1 DEF TokenAnswered, ProfileAnswered, AttemptFails
  \* The cache goes with the session, and the fetch with the cache.
  <1>4. ASSUME NEW slot \in Slots, Logout(slot) PROVE Rest'
    <2>1. /\ user' = None /\ token' = 0 /\ listed' = None /\ attempts' = attempts
          /\ since' = InFlight
      BY <1>4 DEF Logout
    <2>2. flight'[Devices] = Idle
      BY <1>0, <1>4 DEF Logout, TypeOK
    <2> QED
      BY <2>1, <2>2 DEF OnItsWay, OnScreen, InFlight
  <1>5. CASE SignOut
    BY <1>0, <1>4, <1>5 DEF SignOut
  <1>6. ASSUME NEW slot \in Slots, Rejected(slot) PROVE Rest'
    BY <1>4, <1>6 DEF Rejected
  <1>7. ASSUME flight'[Devices] \in {flight[Devices], token, Idle},
               listed' # None => \E a \in since : attempts[a].account = listed',
               UNCHANGED <<attempts, token, user, since>>
        PROVE  Rest'
    BY <1>7, <1>i DEF OnItsWay, OnScreen, OfSession, InFlight
  <1>8. ASSUME NEW slot \in Slots, Request(slot) \/ Answered(slot) \/ Lost(slot) PROVE Rest'
    <2>1. flight'[Devices] \in {flight[Devices], token, Idle}
      BY <1>0, <1>8 DEF Request, Answered, Lost, TypeOK
    <2>2. UNCHANGED <<session, listed>>
      BY <1>8 DEF Request, Answered, Lost
    <2> QED
      BY <1>i, <1>7, <2>1, <2>2 DEF session, OnScreen, OfSession
  <1>9. CASE DevicesAnswered
    <2>1. /\ flight[Devices] \notin {0, Idle} /\ listed' = attempts[flight[Devices]].account
          /\ UNCHANGED session
      BY <1>9 DEF DevicesAnswered, Accepted
    <2>2. \E a \in since : attempts[a].account = listed'
      BY <1>i, <2>1 DEF OnItsWay, OfSession
    <2>3. flight'[Devices] = Idle
      BY <1>0, <1>9 DEF DevicesAnswered, TypeOK
    <2> QED
      BY <1>7, <2>1, <2>2, <2>3 DEF session
  <1>10. ASSUME NEW call \in Mutations, MutationAnswered(call) PROVE Rest'
    <2>1. call # Devices
      BY SessionAssumption
    <2>2. flight'[Devices] \in {flight[Devices], token}
      BY <1>0, <1>10, <2>1 DEF MutationAnswered, TypeOK
    <2>3. UNCHANGED <<session, listed>>
      BY <1>10 DEF MutationAnswered
    <2> QED
      BY <1>i, <1>7, <2>2, <2>3 DEF session, OnScreen, OfSession
  <1>11. ASSUME \/ SleepOrWake \/ \E to \in Pages : Navigate(to)
                \/ \E a \in DOMAIN attempts : TokenDies(a)
         PROVE  Rest'
    <2>1. UNCHANGED <<attempts, token, user, since, listed, flight>>
      BY <1>11 DEF SleepOrWake, Navigate, TokenDies, session
    <2> QED
      BY <1>i, <1>7, <2>1 DEF OnScreen, OfSession
  <1>12. CASE UNCHANGED vars
    BY <1>i, <1>7, <1>12 DEF vars, session, OnScreen, OfSession
  <1>13. ASSUME NEW slot \in Streams \cup {Poll}, Answered(slot) PROVE Rest'
    BY <1>0, <1>8, <1>13 DEF Slots
  <1> QED
    BY <1>1, <1>3, <1>5, <1>6, <1>8, <1>9, <1>10, <1>11, <1>12, <1>13 DEF Next

-----------------------------------------------------------------------------

(* The variables keep their types, and the spinner does not outlive the     *)
(* last sign-in (auth.tsx:69), one at a time or several.                    *)
THEOREM TypeCorrect == Spec => []TypeOK
  <1>1. Init => Typed
    BY InitHolds DEF IInv
  <1>2. Typed /\ [Next]_vars => Typed'
    BY TypeKept
  <1>3. Typed => TypeOK
    BY DEF Typed
  <1> QED
    BY <1>1, <1>2, <1>3, PTL DEF Spec

(* While everybody who signed in since the last sign-out, or was signing in *)
(* then, is one person, the page shows nobody else, and nobody else's fleet *)
(* (auth.tsx:105, App.tsx:34), whichever forms were open and whatever       *)
(* answers came late.                                                       *)
THEOREM FleetOfOnePersonHolds == Spec => []FleetOfOnePerson
  <1>1. Init => IInv
    BY InitHolds
  <1>2. IInv /\ [Next]_vars => IInv'
    BY Kept
  <1>3. IInv => FleetOfOnePerson
    <2> SUFFICES ASSUME IInv, NEW account \in Accounts,
                        \A a \in since : attempts[a].account = account
                 PROVE  user \in {None, account} /\ listed \in {None, account}
      BY DEF FleetOfOnePerson
    <2> QED
      BY DEF IInv, OnScreen, OfSession
  <1> QED
    BY <1>1, <1>2, <1>3, PTL DEF Spec
=============================================================================
