--------------------------- MODULE McpClientProofs ---------------------------
(* Proofs about McpClient, for any number of concurrent calls: its types,   *)
(* the single runtime, what a second 401 means, and whose answers the tools *)
(* hand out.                                                                *)
EXTENDS McpClient, SequenceTheorems, FiniteSetTheorems, TLAPS

-----------------------------------------------------------------------------
(* The inductive invariant.                                                 *)

\* What is on its way to the API, or back, carries a token that was issued.
Carrying ==
    \A c \in Calls : pc[c] \in {"loggedIn", "sent", "answered", "gone"} =>
        held[c] \in 1..Len(issued)

\* A request that was renewed for carries a token that has not expired.
Fresh ==
    \A c \in Calls : pc[c] \in {"loggedIn", "sent"} /\ renewed[c] =>
        issued[held[c]].live

\* So its account is gone if it is rejected, and stays gone.
Denied ==
    \A c \in Calls :
        \/ pc[c] = "answered" /\ renewed[c] /\ answer[c].status = "rejected"
        \/ pc[c] = "gone"
        => ~Exists(issued[held[c]].account)

\* No token is for an account that is yet to be registered.
Born == \A t \in 1..Len(issued) : issued[t].account <= created

\* Whoever is inside the lock finds no runtime.
Building == lock # NoCall => owner = NoOwner

\* The supplied token is another account's, and has not expired.
Lent == Supplied /\ issued[1].account = Outsider /\ issued[1].live

\* Then it is used and nothing else, and the API never rejects it.
LentCall(c) ==
    /\ pc[c] \notin {"login", "loggedIn"}
    /\ pc[c] \in {"sent", "answered"} => held[c] = 1
    /\ pc[c] = "answered" => answer[c].status # "rejected"

Lending ==
    Lent =>
        /\ lock # NoCall \/ owner # NoOwner => token = 1
        /\ owner \in {NoOwner, Outsider}
        /\ \A c \in Calls : LentCall(c)

\* No other token is for another account than the configured ones, whose
\* runtime is one of theirs or of the supplied token's.
Foreign == \A t \in 1..Len(issued) : issued[t].account = Outsider => t = 1 /\ Supplied

Owned ==
    owner # NoOwner =>
        /\ owner <= created
        /\ owner = Outsider => Supplied /\ issued[1].account = Outsider

\* An answer is for the token sent, no tool sends before there is a runtime, and
\* what it is told is for the runtime's account while that can be asked for.
Telling(c) ==
    \/ pc[c] = "done"
    \/ pc[c] = "answered" /\ phase[c] = "run" /\ answer[c].status = "ok"

Told(c) ==
    /\ pc[c] = "answered" => answer[c].account = issued[held[c]].account
    /\ owner = NoOwner => pc[c] # "done" /\ (pc[c] \in Pending => phase[c] = "build")
    /\ owner # NoOwner /\ Telling(c) => answer[c].account = owner \/ Lapsed(owner)

Belonging == Foreign /\ Owned /\ \A c \in Calls : Told(c)

\* The supplied token is among those issued.
Configured == Supplied => Len(issued) >= 1

IInv == TypeOK /\ Carrying /\ Fresh /\ Denied /\ Born /\ Building /\ Configured
        /\ Lending /\ Belonging

-----------------------------------------------------------------------------
(* What the steps do to the tokens.                                         *)

LEMMA InitHolds == Init => IInv
  <1> SUFFICES ASSUME Init PROVE IInv
    OBVIOUS
  <1> USE CredentialsAssumption DEF Init
  <1>1. settings \in {"token", "password", "both"}
    OBVIOUS
  <1>2. \/ ~Supplied /\ issued = <<>>
        \/ \E a \in {Outsider, 1} :
              issued = <<[account |-> a, live |-> TRUE, first |-> FALSE]>>
    BY DEF Supplied
  <1>3. issued \in Seq(Token) /\ Len(issued) \in {0, 1} /\ Born
        /\ (Supplied => Len(issued) = 1)
    <2>1. CASE ~Supplied /\ issued = <<>>
      BY <2>1 DEF Born
    <2>2. ASSUME NEW a \in {Outsider, 1},
                 issued = <<[account |-> a, live |-> TRUE, first |-> FALSE]>>
          PROVE  issued \in Seq(Token) /\ Len(issued) = 1 /\ Born
      <3>1. [account |-> a, live |-> TRUE, first |-> FALSE] \in Token
        BY DEF Token, Accounts, Outsider
      <3>2. issued[1].account = a /\ a <= created
        BY <2>2 DEF Outsider
      <3> QED
        BY <2>2, <3>1, <3>2 DEF Born
    <2> QED
      BY <1>2, <2>1, <2>2
  <1>5. TypeOK
    BY <1>3 DEF TypeOK, Accounts, NoOwner, NoToken, NoAnswer, Answer, Outsider, Pending
  <1>6. Carrying /\ Fresh /\ Denied /\ Building
    BY <1>3 DEF Carrying, Fresh, Denied, Building
  <1>7. Lending /\ Belonging
    <2>1. \A t \in 1..Len(issued) : t = 1 /\ Supplied
      <3>1. Supplied \/ issued = <<>>
        OBVIOUS
      <3>2. CASE Supplied
        <4>1. Len(issued) = 1
          BY <1>3, <3>2
        <4> QED
          BY <3>2, <4>1
      <3>3. CASE issued = <<>>
        BY <3>3
      <3> QED
        BY <3>1, <3>2, <3>3
    <2>2. lock = NoCall /\ owner = NoOwner /\ \A c \in Calls : pc[c] = "idle"
      OBVIOUS
    <2>3. Lending
      BY <2>2 DEF Lending, LentCall
    <2>4. Foreign /\ Owned
      BY <2>1, <2>2 DEF Foreign, Owned
    <2>5. \A c \in Calls : Told(c)
      BY <2>2 DEF Told, Telling, Pending
    <2> QED
      BY <2>3, <2>4, <2>5 DEF Belonging
  <1>8. Configured
    BY <1>3 DEF Configured
  <1> QED
    BY <1>3, <1>5, <1>6, <1>7, <1>8 DEF IInv

\* A login appends a token and disturbs none.
LEMMA Issuing ==
    ASSUME TypeOK, NEW c \in Calls, LoginAnswered(c)
    PROVE  /\ issued' \in Seq(Token) /\ Len(issued') = Len(issued) + 1
           /\ \A t \in 1..Len(issued) : issued'[t] = issued[t]
           /\ issued'[Len(issued) + 1].account = created
           /\ issued'[Len(issued) + 1].live
           /\ Len(issued) \in Nat
  <1> DEFINE new == [account |-> created, live |-> TRUE, first |-> ~renewed[c]]
  <1>1. new \in Token
    BY CredentialsAssumption DEF TypeOK, Token, Accounts
  <1>2. issued' = Append(issued, new) /\ issued \in Seq(Token)
    BY DEF LoginAnswered, TypeOK
  <1>3. new.account = created /\ new.live
    OBVIOUS
  <1> HIDE DEF new
  <1> QED
    BY <1>1, <1>2, <1>3, AppendProperties, LenProperties

\* An expiry keeps the account of every token.
LEMMA Expiring ==
    ASSUME TypeOK, NEW t \in 1..Len(issued), TokenExpires(t)
    PROVE  /\ issued' \in Seq(Token) /\ Len(issued') = Len(issued)
           /\ \A u \in 1..Len(issued) :
                 /\ issued'[u].account = issued[u].account
                 /\ u # t => issued'[u].live = issued[u].live
  <1>1. issued \in Seq(Token) /\ issued' = [issued EXCEPT ![t] = [@ EXCEPT !.live = FALSE]]
    BY DEF TypeOK, TokenExpires
  <1>2. issued[t] \in Token
    BY <1>1, ElementOfSeq
  <1>3. [issued[t] EXCEPT !.live = FALSE] \in Token
        /\ [issued[t] EXCEPT !.live = FALSE].account = issued[t].account
    BY <1>2 DEF Token
  <1>4. issued' = [issued EXCEPT ![t] = [issued[t] EXCEPT !.live = FALSE]]
    BY <1>1
  <1>5. issued' \in Seq(Token) /\ Len(issued') = Len(issued)
    BY <1>1, <1>3, <1>4, ExceptSeq
  <1>6. ASSUME NEW u \in 1..Len(issued)
        PROVE  issued'[u] = IF u = t THEN [issued[t] EXCEPT !.live = FALSE] ELSE issued[u]
    BY <1>1, <1>4, LenProperties
  <1> QED
    BY <1>3, <1>5, <1>6

-----------------------------------------------------------------------------
(* Types.                                                                   *)

\* A record of calls of which one is updated keeps its type.
LEMMA Began ==
    ASSUME TypeOK, NEW c \in Calls, NEW stage \in {"build", "run"},
           NEW current \in 0..Len(issued), Begin(c, stage, current)
    PROVE  /\ pc' \in [Calls -> {"idle", "waiting"} \cup Pending \cup Ended]
           /\ phase' \in [Calls -> {"build", "run"}]
           /\ renewed' \in [Calls -> BOOLEAN]
           /\ held' \in [Calls -> 0..Len(issued)]
           /\ answer' \in [Calls -> Answer]
           /\ pc'[c] \in {"login", "sent"} /\ phase'[c] = stage /\ ~renewed'[c]
           /\ held'[c] = current
           /\ pc'[c] = "sent" <=> current # NoToken
           /\ \A d \in Calls \ {c} :
                 /\ pc'[d] = pc[d] /\ phase'[d] = phase[d] /\ held'[d] = held[d]
                 /\ renewed'[d] = renewed[d] /\ answer'[d] = answer[d]
  <1>1. NoAnswer \in Answer
    BY CredentialsAssumption DEF NoAnswer, Answer, Accounts, Outsider
  <1> QED
    BY <1>1 DEF Begin, TypeOK, Pending

LEMMA Left ==
    ASSUME TypeOK, NEW c \in Calls, NEW how \in Failed, Leave(c, how),
           phase' = phase
    PROVE  /\ pc' \in [Calls -> {"idle", "waiting"} \cup Pending \cup Ended]
           /\ lock' \in Calls \cup {NoCall}
           /\ \A d \in Calls : pc'[d] \in Pending /\ phase'[d] = "build" => lock' = d
           /\ pc'[c] = how /\ \A d \in Calls \ {c} : pc'[d] = pc[d]
           /\ lock' # NoCall => lock' = lock
  <1>1. pc' = [pc EXCEPT ![c] = how] /\ lock' = IF lock = c THEN NoCall ELSE lock
    BY DEF Leave
  <1>2. how \notin Pending /\ how \in Ended
    BY DEF Failed, Pending, Ended
  <1>3. pc'[c] = how /\ \A d \in Calls \ {c} : pc'[d] = pc[d]
    BY <1>1 DEF TypeOK
  <1>4. ASSUME NEW d \in Calls, pc'[d] \in Pending, phase'[d] = "build" PROVE lock' = d
    <2>1. d # c
      BY <1>2, <1>3, <1>4
    <2>2. lock = d
      BY <1>3, <1>4, <2>1 DEF TypeOK
    <2> QED
      BY <1>1, <2>1, <2>2
  <1> QED
    BY <1>1, <1>2, <1>3, <1>4 DEF TypeOK

LEMMA TypeKept == IInv /\ [Next]_vars => TypeOK'
  <1> SUFFICES ASSUME IInv, [Next]_vars PROVE TypeOK'
    OBVIOUS
  <1> USE DEF IInv
  <1>0. SettingsToken \in 0..Len(issued) /\ Len(issued) \in Nat
    BY LenProperties DEF SettingsToken, NoToken, TypeOK, Configured
  <1>1. ASSUME NEW c \in Calls, ToolCalled(c) PROVE TypeOK'
    BY <1>1 DEF TypeOK, ToolCalled, outside, Pending
  <1>2. ASSUME NEW c \in Calls, EnterBuild(c) PROVE TypeOK'
    <2>1. Begin(c, "build", SettingsToken) /\ lock = NoCall
      BY <1>2 DEF EnterBuild
    <2> QED
      BY <1>0, <1>2, <2>1, Began, CredentialsAssumption DEF TypeOK, EnterBuild, outside
  <1>3. ASSUME NEW c \in Calls, EnterRun(c) PROVE TypeOK'
    <2>1. Begin(c, "run", token) /\ token \in 0..Len(issued)
      BY <1>3 DEF EnterRun, TypeOK
    <2> QED
      BY <1>3, <2>1, Began DEF TypeOK, EnterRun, outside
  <1>4. ASSUME NEW c \in Calls, LoginAnswered(c) PROVE TypeOK'
    <2>1. issued' \in Seq(Token) /\ Len(issued') = Len(issued) + 1
      BY <1>4, Issuing
    <2>2. \A d \in Calls : pc'[d] \in Pending => pc[d] \in Pending
      BY <1>4 DEF LoginAnswered, TypeOK, Pending
    <2>3. pc' \in [Calls -> {"idle", "waiting"} \cup Pending \cup Ended]
          /\ held' \in [Calls -> 0..Len(issued')] /\ token \in 0..Len(issued')
      BY <1>0, <1>4, <2>1 DEF LoginAnswered, TypeOK, Pending
    <2> QED
      BY <1>4, <2>1, <2>2, <2>3 DEF LoginAnswered, TypeOK
  <1>5. ASSUME NEW c \in Calls, LoginRefused(c) PROVE TypeOK'
    <2>1. Leave(c, "failed") /\ "failed" \in Failed /\ phase' = phase
      BY <1>5 DEF LoginRefused, Failed
    <2> QED
      BY <1>5, <2>1, Left DEF LoginRefused, TypeOK, outside
  <1>6. ASSUME NEW c \in Calls, StoreToken(c) PROVE TypeOK'
    BY <1>6 DEF StoreToken, TypeOK, outside, Pending
  <1>7. ASSUME NEW c \in Calls, Answered(c) PROVE TypeOK'
    <2>1. PICK status \in {"ok", "error", "rejected"} :
             answer' = [answer EXCEPT ![c] =
                           [status |-> status, account |-> issued[held[c]].account]]
      BY <1>7 DEF Answered
    <2>2. held[c] \in 1..Len(issued)
      BY <1>7 DEF Answered, Carrying
    <2>3. issued[held[c]] \in Token
      BY <2>2, ElementOfSeq DEF TypeOK
    <2>4. answer' \in [Calls -> Answer]
      BY <2>1, <2>3 DEF TypeOK, Answer, Token
    <2> QED
      BY <1>7, <2>4 DEF Answered, TypeOK, outside, Pending
  <1>8. ASSUME NEW c \in Calls, Renew(c) PROVE TypeOK'
    BY <1>8 DEF Renew, TypeOK, outside, Pending
  <1>9. ASSUME NEW c \in Calls, GiveUp(c) PROVE TypeOK'
    <2>1. PICK how \in Failed : Leave(c, how)
      BY <1>9 DEF GiveUp, Failed
    <2> QED
      BY <1>9, <2>1, Left DEF GiveUp, TypeOK, outside
  <1>10. ASSUME NEW c \in Calls, RuntimeBuilt(c) PROVE TypeOK'
    <2>1. Begin(c, "run", token) /\ token \in 0..Len(issued) /\ lock = c
      BY <1>10 DEF RuntimeBuilt, TypeOK, Pending
    <2>2. answer[c].account \in Accounts
      BY DEF TypeOK, Answer
    <2>3. \A d \in Calls : ~(pc'[d] \in Pending /\ phase'[d] = "build")
      BY <2>1, Began DEF TypeOK
    <2> QED
      BY <1>10, <2>1, <2>2, <2>3, Began DEF TypeOK, RuntimeBuilt, outside
  <1>11. ASSUME NEW c \in Calls, ToolAnswered(c) PROVE TypeOK'
    BY <1>11 DEF ToolAnswered, TypeOK, outside, Pending, Ended
  <1>12. ASSUME NEW c \in Calls, TransportFails(c) PROVE TypeOK'
    <2>1. Leave(c, "failed") /\ "failed" \in Failed /\ phase' = phase
      BY <1>12 DEF TransportFails, Failed
    <2> QED
      BY <1>12, <2>1, Left DEF TransportFails, TypeOK, outside
  <1>13. CASE AccountDeleted
    BY <1>13 DEF AccountDeleted, TypeOK
  <1>14. CASE AccountRegisteredAgain
    BY <1>14, CredentialsAssumption DEF AccountRegisteredAgain, TypeOK
  <1>15. ASSUME NEW t \in 1..Len(issued), TokenExpires(t) PROVE TypeOK'
    BY <1>15, Expiring DEF TokenExpires, TypeOK
  <1>16. CASE UNCHANGED vars
    BY <1>16 DEF vars, TypeOK
  <1> QED
    BY <1>1, <1>2, <1>3, <1>4, <1>5, <1>6, <1>7, <1>8, <1>9, <1>10, <1>11, <1>12,
       <1>13, <1>14, <1>15, <1>16 DEF Next, Progress

-----------------------------------------------------------------------------
(* The second 401.                                                          *)

RenewalInv == Carrying /\ Fresh /\ Denied /\ Born

\* Nothing that exists no longer comes back: a registration is a new account.
LEMMA RenewalKept == IInv /\ [Next]_vars => RenewalInv'
  <1> SUFFICES ASSUME IInv, [Next]_vars PROVE RenewalInv'
    OBVIOUS
  <1> USE DEF IInv
  <1>t. TypeOK /\ TypeOK' /\ Len(issued) \in Nat
    BY TypeKept, LenProperties DEF TypeOK
  <1>0. SettingsToken \in 0..Len(issued)
    BY LenProperties DEF SettingsToken, NoToken, TypeOK, Configured
  <1>1. ASSUME NEW c \in Calls, ToolCalled(c) PROVE RenewalInv'
    BY <1>1 DEF TypeOK, ToolCalled, outside, RenewalInv, Carrying, Fresh, Denied, Born, Exists
  \* A request that begins has not been renewed for.
  <1>b. ASSUME NEW c \in Calls, NEW stage \in {"build", "run"},
               NEW current \in 0..Len(issued), Begin(c, stage, current), UNCHANGED outside
        PROVE  RenewalInv'
    <2>1. created' = created /\ present' = present /\ issued' = issued
      BY <1>b DEF outside
    <2>2. Carrying'
      BY <1>b, <2>1, Began DEF Carrying, NoToken
    <2>3. Fresh'
      BY <1>b, <2>1, Began DEF Fresh
    <2>4. Denied' /\ Born'
      BY <1>b, <2>1, Began DEF Denied, Exists, Born
    <2> QED
      BY <2>2, <2>3, <2>4 DEF RenewalInv
  <1>2. ASSUME NEW c \in Calls, EnterBuild(c) PROVE RenewalInv'
    BY <1>0, <1>2, <1>b DEF EnterBuild
  <1>3. ASSUME NEW c \in Calls, EnterRun(c) PROVE RenewalInv'
    BY <1>3, <1>b DEF EnterRun, TypeOK
  <1>4. ASSUME NEW c \in Calls, LoginAnswered(c) PROVE RenewalInv'
    <2>1. /\ pc'[c] = "loggedIn" /\ held'[c] = Len(issued) + 1
          /\ created' = created /\ present' = present /\ renewed' = renewed /\ answer' = answer
          /\ \A d \in Calls \ {c} : pc'[d] = pc[d] /\ held'[d] = held[d]
      BY <1>4 DEF LoginAnswered, TypeOK
    <2>2. /\ Len(issued') = Len(issued) + 1 /\ issued'[Len(issued) + 1].live
          /\ issued'[Len(issued) + 1].account = created
          /\ \A t \in 1..Len(issued) : issued'[t] = issued[t]
      BY <1>4, Issuing
    <2>3. Carrying'
      BY <1>t, <2>1, <2>2 DEF Carrying
    <2>4. Fresh'
      BY <1>t, <2>1, <2>2 DEF Fresh, Carrying
    <2>5. Denied'
      BY <1>t, <2>1, <2>2 DEF Denied, Carrying, Exists
    <2>6. Born'
      <3> SUFFICES ASSUME NEW t \in 1..Len(issued') PROVE issued'[t].account <= created'
        BY DEF Born
      <3>1. CASE t \in 1..Len(issued)
        BY <2>1, <2>2, <3>1 DEF Born
      <3>2. CASE t = Len(issued) + 1
        BY <2>1, <2>2, <3>2 DEF TypeOK
      <3> QED
        BY <1>t, <2>2, <3>1, <3>2
    <2> QED
      BY <2>3, <2>4, <2>5, <2>6 DEF RenewalInv
  \* A call that ends in anything but a second 401 is no longer spoken of.
  <1>e. ASSUME NEW c \in Calls, NEW how \in {"failed", "unrenewable"}, Leave(c, how),
               UNCHANGED <<outside, renewed, held, answer>>
        PROVE  RenewalInv'
    BY <1>e DEF Leave, TypeOK, outside, RenewalInv, Carrying, Fresh, Denied, Born, Exists
  <1>5. ASSUME NEW c \in Calls, LoginRefused(c) PROVE RenewalInv'
    BY <1>5, <1>e DEF LoginRefused
  <1>6. ASSUME NEW c \in Calls, StoreToken(c) PROVE RenewalInv'
    BY <1>6 DEF StoreToken, TypeOK, outside, RenewalInv, Carrying, Fresh, Denied, Born, Exists
  \* A live token is rejected only when its account is gone.
  <1>7. ASSUME NEW c \in Calls, Answered(c) PROVE RenewalInv'
    <2>1. /\ pc[c] = "sent" /\ pc'[c] = "answered"
          /\ answer'[c].status = "rejected" => ~Valid(held[c])
          /\ \A d \in Calls \ {c} : pc'[d] = pc[d] /\ answer'[d] = answer[d]
          /\ created' = created /\ present' = present /\ issued' = issued
          /\ renewed' = renewed /\ held' = held
      BY <1>7 DEF Answered, TypeOK, outside
    <2>2. Carrying'
      BY <2>1 DEF Carrying
    <2>3. Fresh' /\ Born'
      BY <2>1 DEF Fresh, Born
    <2>4. renewed[c] => issued[held[c]].live
      BY <2>1 DEF Fresh
    <2>5. Denied'
      BY <2>1, <2>4 DEF Denied, Valid, Exists
    <2> QED
      BY <2>2, <2>3, <2>5 DEF RenewalInv
  <1>8. ASSUME NEW c \in Calls, Renew(c) PROVE RenewalInv'
    BY <1>8 DEF Renew, TypeOK, outside, RenewalInv, Carrying, Fresh, Denied, Born, Exists
  <1>9. ASSUME NEW c \in Calls, GiveUp(c) PROVE RenewalInv'
    <2>1. CASE Leave(c, "failed") \/ Leave(c, "unrenewable")
      BY <1>9, <1>e, <2>1 DEF GiveUp
    <2>2. CASE answer[c].status = "rejected" /\ renewed[c] /\ Leave(c, "gone")
      BY <1>9, <2>2 DEF GiveUp, Leave, TypeOK, outside, RenewalInv, Carrying, Fresh, Denied,
                        Born, Exists
    <2> QED
      BY <1>9, <2>1, <2>2 DEF GiveUp
  <1>10. ASSUME NEW c \in Calls, RuntimeBuilt(c) PROVE RenewalInv'
    BY <1>10, <1>b DEF RuntimeBuilt, TypeOK
  <1>11. ASSUME NEW c \in Calls, ToolAnswered(c) PROVE RenewalInv'
    BY <1>11 DEF ToolAnswered, TypeOK, outside, RenewalInv, Carrying, Fresh, Denied, Born, Exists
  <1>12. ASSUME NEW c \in Calls, TransportFails(c) PROVE RenewalInv'
    BY <1>12, <1>e DEF TransportFails
  <1>13. CASE AccountDeleted
    BY <1>13 DEF AccountDeleted, RenewalInv, Carrying, Fresh, Denied, Born, Exists
  <1>14. CASE AccountRegisteredAgain
    <2>1. /\ created' = created + 1 /\ issued' = issued /\ pc' = pc /\ held' = held
          /\ renewed' = renewed /\ answer' = answer
      BY <1>14 DEF AccountRegisteredAgain
    <2>2. Carrying' /\ Fresh'
      BY <2>1 DEF Carrying, Fresh
    <2>3. ASSUME NEW t \in 1..Len(issued)
          PROVE  issued[t] \in Token /\ issued[t].account \in Nat
      <3>1. issued[t] \in Token
        BY ElementOfSeq DEF TypeOK
      <3> QED
        BY <3>1, CredentialsAssumption DEF Token, Accounts
    <2>4. Born'
      <3>1. created \in Nat
        BY CredentialsAssumption DEF TypeOK
      <3>2. \A t \in 1..Len(issued) : issued[t].account <= created + 1
        BY <2>3, <3>1 DEF Born
      <3> QED
        BY <2>1, <3>2 DEF Born
    <2>5. Denied'
      BY <2>1, <2>3 DEF Denied, Exists, Carrying, Born, TypeOK
    <2> QED
      BY <2>2, <2>4, <2>5 DEF RenewalInv
  <1>15. ASSUME NEW t \in 1..Len(issued), TokenExpires(t) PROVE RenewalInv'
    <2>1. /\ created' = created /\ present' = present /\ pc' = pc /\ held' = held
          /\ renewed' = renewed /\ answer' = answer /\ ~JustRenewed(t)
      BY <1>15 DEF TokenExpires
    <2>2. /\ Len(issued') = Len(issued)
          /\ \A u \in 1..Len(issued) :
                /\ issued'[u].account = issued[u].account
                /\ u # t => issued'[u].live = issued[u].live
      BY <1>15, Expiring
    <2>3. Carrying' /\ Born'
      BY <2>1, <2>2 DEF Carrying, Born
    <2>4. Fresh'
      BY <2>1, <2>2 DEF Fresh, JustRenewed, Carrying
    <2>5. Denied'
      BY <2>1, <2>2 DEF Denied, Exists, Carrying
    <2> QED
      BY <2>3, <2>4, <2>5 DEF RenewalInv
  <1>16. CASE UNCHANGED vars
    BY <1>16 DEF vars, RenewalInv, Carrying, Fresh, Denied, Born, Exists
  <1> QED
    BY <1>1, <1>2, <1>3, <1>4, <1>5, <1>6, <1>7, <1>8, <1>9, <1>10, <1>11, <1>12,
       <1>13, <1>14, <1>15, <1>16 DEF Next, Progress

-----------------------------------------------------------------------------
(* The single runtime.                                                      *)

\* Only the call that finds no runtime, and then holds the lock, builds one.
LEMMA BuildingKept ==
    ASSUME IInv, [Next]_vars
    PROVE  /\ Building' /\ Configured'
           /\ owner # NoOwner =>
                 owner' = owner /\ \A c \in Calls : phase'[c] = "build" => phase[c] = "build"
  <1> DEFINE Kept ==
         owner # NoOwner =>
            owner' = owner /\ \A c \in Calls : phase'[c] = "build" => phase[c] = "build"
  <1> SUFFICES Building' /\ Configured' /\ Kept
    OBVIOUS
  <1> USE DEF IInv
  <1>t. Len(issued) \in Nat
    BY LenProperties DEF TypeOK
  \* Most steps change none of what this is about, but may release the lock.
  <1>q. ASSUME UNCHANGED <<settings, owner, phase>>, Len(issued') = Len(issued),
               lock' = lock \/ lock' = NoCall
        PROVE  Building' /\ Configured' /\ Kept
    BY <1>q DEF Building, Configured, Supplied
  <1>1. ASSUME NEW c \in Calls, ToolCalled(c) PROVE Building' /\ Configured' /\ Kept
    BY <1>1, <1>q DEF ToolCalled, outside
  <1>2. ASSUME NEW c \in Calls, EnterBuild(c) PROVE Building' /\ Configured' /\ Kept
    BY <1>2 DEF EnterBuild, outside, Building, Configured, Supplied
  <1>3. ASSUME NEW c \in Calls, EnterRun(c) PROVE Building' /\ Configured' /\ Kept
    <2>1. Begin(c, "run", token) /\ UNCHANGED <<outside, lock, owner>> /\ token \in 0..Len(issued)
      BY <1>3 DEF EnterRun, TypeOK
    <2>2. Kept
      BY <2>1, Began
    <2> QED
      BY <2>1, <2>2 DEF outside, Building, Configured, Supplied
  <1>4. ASSUME NEW c \in Calls, LoginAnswered(c) PROVE Building' /\ Configured' /\ Kept
    <2>1. UNCHANGED <<settings, owner, phase, lock>> /\ Len(issued') = Len(issued) + 1
      BY <1>4, Issuing DEF LoginAnswered
    <2> QED
      BY <1>t, <2>1 DEF Building, Configured, Supplied
  <1>5. ASSUME NEW c \in Calls, LoginRefused(c) PROVE Building' /\ Configured' /\ Kept
    BY <1>5, <1>q DEF LoginRefused, Leave, outside
  <1>6. ASSUME NEW c \in Calls, StoreToken(c) PROVE Building' /\ Configured' /\ Kept
    BY <1>6, <1>q DEF StoreToken, outside
  <1>7. ASSUME NEW c \in Calls, Answered(c) PROVE Building' /\ Configured' /\ Kept
    BY <1>7, <1>q DEF Answered, outside
  <1>8. ASSUME NEW c \in Calls, Renew(c) PROVE Building' /\ Configured' /\ Kept
    BY <1>8, <1>q DEF Renew, outside
  <1>9. ASSUME NEW c \in Calls, GiveUp(c) PROVE Building' /\ Configured' /\ Kept
    BY <1>9, <1>q DEF GiveUp, Leave, outside
  <1>10. ASSUME NEW c \in Calls, RuntimeBuilt(c) PROVE Building' /\ Configured' /\ Kept
    <2>1. lock = c /\ lock # NoCall
      BY <1>10, CredentialsAssumption DEF RuntimeBuilt, TypeOK, Pending
    <2> QED
      BY <1>10, <2>1 DEF RuntimeBuilt, outside, Building, Configured, Supplied
  <1>11. ASSUME NEW c \in Calls, ToolAnswered(c) PROVE Building' /\ Configured' /\ Kept
    BY <1>11, <1>q DEF ToolAnswered, outside
  <1>12. ASSUME NEW c \in Calls, TransportFails(c) PROVE Building' /\ Configured' /\ Kept
    BY <1>12, <1>q DEF TransportFails, Leave, outside
  <1>13. CASE AccountDeleted
    BY <1>13, <1>q DEF AccountDeleted
  <1>14. CASE AccountRegisteredAgain
    BY <1>14, <1>q DEF AccountRegisteredAgain
  <1>15. ASSUME NEW t \in 1..Len(issued), TokenExpires(t) PROVE Building' /\ Configured' /\ Kept
    BY <1>15, <1>q, Expiring DEF TokenExpires
  <1>16. CASE UNCHANGED vars
    BY <1>16, <1>q DEF vars
  <1> QED
    BY <1>1, <1>2, <1>3, <1>4, <1>5, <1>6, <1>7, <1>8, <1>9, <1>10, <1>11, <1>12,
       <1>13, <1>14, <1>15, <1>16 DEF Next, Progress

-----------------------------------------------------------------------------
(* Whose answers a tool is told.                                            *)

\* Settings and tokens stay what they are, tokens only expire, none is issued
\* but to the configured accounts, and no account comes back.
LEMMA Ageing ==
    ASSUME IInv, [Next]_vars
    PROVE  /\ settings' = settings
           /\ created \in Nat \ {0} /\ created' \in Nat \ {0} /\ created <= created'
           /\ Len(issued) \in Nat
           /\ \A t \in 1..Len(issued) :
                 /\ t \in 1..Len(issued')
                 /\ issued'[t].account = issued[t].account
                 /\ issued'[t].live => issued[t].live
           /\ \A t \in 1..Len(issued') : t \in 1..Len(issued) \/ issued'[t].account # Outsider
           /\ \A account \in 0..created : Exists(account)' => Exists(account)
  <1> DEFINE Goal ==
           /\ settings' = settings
           /\ created' \in Nat \ {0} /\ created <= created'
           /\ \A t \in 1..Len(issued) :
                 /\ t \in 1..Len(issued')
                 /\ issued'[t].account = issued[t].account
                 /\ issued'[t].live => issued[t].live
           /\ \A t \in 1..Len(issued') : t \in 1..Len(issued) \/ issued'[t].account # Outsider
           /\ \A account \in 0..created : Exists(account)' => Exists(account)
  <1>t. TypeOK /\ TypeOK' /\ Len(issued) \in Nat /\ Configured
    BY TypeKept, LenProperties DEF IInv, TypeOK
  <1>c. created \in Nat \ {0} /\ created' \in Nat \ {0}
    BY <1>t, CredentialsAssumption DEF TypeOK
  <1> SUFFICES Goal
    BY <1>t, <1>c
  <1>q. ASSUME UNCHANGED outside PROVE Goal
    BY <1>c, <1>q DEF outside, Exists
  <1>1. ASSUME NEW c \in Calls,
               ToolCalled(c) \/ TransportFails(c) \/ (Progress(c) /\ ~LoginAnswered(c))
        PROVE  Goal
    <2>1. CASE EnterBuild(c) \/ EnterRun(c) \/ LoginRefused(c) \/ ToolCalled(c)
      BY <1>q, <2>1 DEF EnterBuild, EnterRun, LoginRefused, ToolCalled
    <2>2. CASE StoreToken(c) \/ Answered(c) \/ Renew(c) \/ TransportFails(c)
      BY <1>q, <2>2 DEF StoreToken, Answered, Renew, TransportFails
    <2>3. CASE GiveUp(c) \/ RuntimeBuilt(c) \/ ToolAnswered(c)
      BY <1>q, <2>3 DEF GiveUp, RuntimeBuilt, ToolAnswered
    <2> QED
      BY <1>1, <2>1, <2>2, <2>3 DEF Progress
  <1>2. ASSUME NEW c \in Calls, LoginAnswered(c) PROVE Goal
    <2>1. /\ Len(issued') = Len(issued) + 1
          /\ \A t \in 1..Len(issued) : issued'[t] = issued[t]
          /\ issued'[Len(issued) + 1].account = created
      BY <1>2, <1>t, Issuing
    <2>2. UNCHANGED <<settings, created, present>>
      BY <1>2 DEF LoginAnswered
    <2>3. \A t \in 1..Len(issued') : t \in 1..Len(issued) \/ t = Len(issued) + 1
      BY <1>t, <2>1
    <2>4. \A t \in 1..Len(issued) : t \in 1..Len(issued')
      BY <1>t, <2>1
    <2> QED
      BY <1>c, <2>1, <2>2, <2>3, <2>4 DEF Exists, Outsider
  <1>3. CASE AccountDeleted
    BY <1>c, <1>3 DEF AccountDeleted, Exists
  <1>4. CASE AccountRegisteredAgain
    <2>1. /\ UNCHANGED <<settings, issued>> /\ created' = created + 1
      BY <1>4 DEF AccountRegisteredAgain
    <2>2. \A account \in 0..created : account # created'
      BY <1>c, <2>1
    <2> QED
      BY <1>c, <2>1, <2>2 DEF Exists
  <1>5. ASSUME NEW t \in 1..Len(issued), TokenExpires(t) PROVE Goal
    <2>1. UNCHANGED <<settings, created, present>>
      BY <1>5 DEF TokenExpires
    <2>2. /\ Len(issued') = Len(issued)
          /\ \A u \in 1..Len(issued) :
                /\ issued'[u].account = issued[u].account
                /\ u # t => issued'[u].live = issued[u].live
      BY <1>5, <1>t, Expiring
    <2>3. issued[t].live
      BY <1>5 DEF TokenExpires
    <2> QED
      BY <1>c, <2>1, <2>2, <2>3 DEF Exists
  <1>6. CASE UNCHANGED vars
    BY <1>q, <1>6 DEF vars, outside
  <1> QED
    BY <1>1, <1>2, <1>3, <1>4, <1>5, <1>6 DEF Next, Progress

\* While the supplied token of another account lives, nobody logs in.
LEMMA LendingKept == IInv /\ [Next]_vars => Lending'
  <1> SUFFICES ASSUME IInv, [Next]_vars, Lent' PROVE Lending'
    BY DEF Lending
  <1>t. TypeOK /\ Building /\ Configured /\ Lending /\ Belonging
    BY DEF IInv
  <1>0. /\ Lent /\ Supplied /\ SettingsToken = 1 /\ 1 \in 1..Len(issued)
        /\ issued[1].account = Outsider /\ issued[1].live
    <2>1. Supplied
      BY Ageing DEF Lent, Supplied
    <2>2. 1 \in 1..Len(issued)
      BY <1>t, <2>1, Ageing DEF Configured
    <2>3. issued[1].account = Outsider /\ issued[1].live
      BY <2>2, Ageing DEF Lent
    <2> QED
      BY <2>1, <2>2, <2>3 DEF Lent, SettingsToken
  <1>m. /\ lock # NoCall \/ owner # NoOwner => token = 1
        /\ owner \in {NoOwner, Outsider}
        /\ \A c \in Calls : LentCall(c)
    BY <1>0, <1>t DEF Lending
  \* A step of one call that leaves the runtime and the token alone.
  <1>q. ASSUME NEW c \in Calls, UNCHANGED <<owner, token>>,
               lock' = lock \/ lock' = NoCall,
               LentCall(c)',
               \A d \in Calls \ {c} : /\ pc'[d] = pc[d] /\ held'[d] = held[d]
                                      /\ answer'[d] = answer[d]
        PROVE  Lending'
    <2>1. \A d \in Calls : LentCall(d)'
      BY <1>m, <1>q DEF LentCall
    <2> QED
      BY <1>m, <1>q, <2>1 DEF Lending
  \* One that begins a request does so with the supplied token.
  <1>b. ASSUME NEW c \in Calls, NEW stage \in {"build", "run"}, Begin(c, stage, 1),
               token' = 1, owner' \in {NoOwner, Outsider}
        PROVE  Lending'
    <2>1. \A d \in Calls : LentCall(d)'
      BY <1>0, <1>b, <1>m, <1>t, Began DEF LentCall, NoToken
    <2> QED
      BY <1>b, <2>1 DEF Lending
  <1>1. ASSUME NEW c \in Calls, ToolCalled(c) PROVE Lending'
    <2>1. LentCall(c)'
      BY <1>1, <1>t DEF ToolCalled, LentCall, TypeOK
    <2> QED
      BY <1>1, <1>q, <1>t, <2>1 DEF ToolCalled, TypeOK
  <1>2. ASSUME NEW c \in Calls, EnterBuild(c) PROVE Lending'
    BY <1>0, <1>2, <1>b, <1>m DEF EnterBuild
  <1>3. ASSUME NEW c \in Calls, EnterRun(c) PROVE Lending'
    BY <1>3, <1>b, <1>m DEF EnterRun
  <1>4. ASSUME NEW c \in Calls, LoginAnswered(c) \/ LoginRefused(c) \/ StoreToken(c)
        PROVE  FALSE
    BY <1>4, <1>m DEF LoginAnswered, LoginRefused, StoreToken, LentCall
  <1>e. ASSUME NEW c \in Calls, NEW how \in Failed, Leave(c, how),
               UNCHANGED <<owner, token, held, answer>>
        PROVE  Lending'
    <2>1. pc'[c] = how /\ \A d \in Calls \ {c} : pc'[d] = pc[d]
      BY <1>e, <1>t DEF Leave, TypeOK
    <2>2. LentCall(c)'
      BY <2>1 DEF LentCall, Failed
    <2> QED
      BY <1>e, <1>q, <2>1, <2>2 DEF Leave
  <1>7. ASSUME NEW c \in Calls, Answered(c) PROVE Lending'
    <2>1. /\ pc[c] = "sent" /\ pc'[c] = "answered" /\ held' = held
          /\ Valid(held[c]) => answer'[c].status # "rejected"
          /\ \A d \in Calls \ {c} : pc'[d] = pc[d] /\ answer'[d] = answer[d]
      BY <1>7, <1>t DEF Answered, TypeOK
    <2>2. held[c] = 1 /\ Valid(1)
      BY <1>0, <1>m, <2>1 DEF LentCall, Valid, Exists
    <2>3. LentCall(c)'
      BY <2>1, <2>2 DEF LentCall
    <2> QED
      BY <1>7, <1>q, <2>1, <2>3 DEF Answered
  <1>8. ASSUME NEW c \in Calls, Renew(c) PROVE FALSE
    BY <1>8, <1>m DEF Renew, LentCall
  <1>9. ASSUME NEW c \in Calls, GiveUp(c) PROVE Lending'
    <2>1. PICK how \in Failed : Leave(c, how)
      BY <1>9 DEF GiveUp, Failed
    <2> QED
      BY <1>9, <1>e, <2>1 DEF GiveUp
  <1>10. ASSUME NEW c \in Calls, RuntimeBuilt(c) PROVE Lending'
    <2>1. lock = c /\ lock # NoCall
      BY <1>10, <1>t, CredentialsAssumption DEF RuntimeBuilt, TypeOK, Pending
    <2>2. token = 1 /\ token' = 1 /\ Begin(c, "run", 1)
      BY <1>10, <1>m, <2>1 DEF RuntimeBuilt
    <2>3. owner' = Outsider
      BY <1>0, <1>10, <1>m, <1>t DEF RuntimeBuilt, LentCall, Belonging, Told
    <2> QED
      BY <1>b, <2>2, <2>3
  <1>11. ASSUME NEW c \in Calls, ToolAnswered(c) PROVE Lending'
    <2>1. pc'[c] = "done" /\ \A d \in Calls \ {c} : pc'[d] = pc[d]
      BY <1>11, <1>t DEF ToolAnswered, TypeOK
    <2>2. LentCall(c)'
      BY <2>1 DEF LentCall
    <2> QED
      BY <1>11, <1>q, <2>1, <2>2 DEF ToolAnswered
  <1>12. ASSUME NEW c \in Calls, TransportFails(c) PROVE Lending'
    BY <1>12, <1>e DEF TransportFails, Failed
  <1>13. ASSUME \/ AccountDeleted \/ AccountRegisteredAgain \/ UNCHANGED vars
                \/ \E t \in 1..Len(issued) : TokenExpires(t)
         PROVE  Lending'
    <2>1. UNCHANGED <<lock, owner, token, pc, held, answer>>
      BY <1>13 DEF AccountDeleted, AccountRegisteredAgain, TokenExpires, vars
    <2> QED
      BY <1>m, <2>1 DEF Lending, LentCall
  <1> QED
    BY <1>1, <1>2, <1>3, <1>4, <1>7, <1>8, <1>9, <1>10, <1>11, <1>12, <1>13
       DEF Next, Progress

\* The API answers for the token it is sent: another account's than the
\* runtime's only when that one is gone, or the token that was for it expired.
LEMMA AnsweredForOwner ==
    ASSUME IInv, NEW c \in Calls, pc[c] = "sent", Valid(held[c]), owner # NoOwner,
           issued[held[c]].account # owner
    PROVE  Lapsed(owner)
  <1>1. TypeOK /\ Lending /\ Foreign /\ Owned /\ held[c] \in 1..Len(issued)
    BY DEF IInv, Belonging, Carrying
  <1>2. issued[held[c]].live /\ Exists(issued[held[c]].account)
    BY DEF Valid
  <1>3. CASE owner = Outsider
    <2>1. Supplied /\ issued[1].account = Outsider /\ SettingsToken = 1
      BY <1>1, <1>3 DEF Owned, SettingsToken
    <2>2. ~Lent
      BY <1>1, <1>3, <2>1 DEF Lending, LentCall
    <2> QED
      BY <1>3, <2>1, <2>2 DEF Lent, Lapsed
  <1>4. CASE owner # Outsider
    <2>1. issued[held[c]].account # Outsider
      <3> SUFFICES ASSUME issued[held[c]].account = Outsider PROVE FALSE
        OBVIOUS
      <3>1. held[c] = 1 /\ Supplied
        BY <1>1 DEF Foreign
      <3>2. Lent
        BY <1>2, <3>1 DEF Lent
      <3> QED
        BY <1>1, <1>4, <3>2 DEF Lending
    <2>2. ~Exists(owner)
      BY <1>2, <1>4, <2>1 DEF Exists
    <2> QED
      BY <2>2 DEF Lapsed
  <1> QED
    BY <1>3, <1>4

LEMMA BelongingKept == IInv /\ [Next]_vars => Belonging'
  <1> SUFFICES ASSUME IInv, [Next]_vars PROVE Belonging'
    OBVIOUS
  <1>t. /\ TypeOK /\ Carrying /\ Born /\ Building /\ Configured /\ Len(issued) \in Nat
        /\ Foreign /\ Owned /\ \A c \in Calls : Told(c)
    BY LenProperties DEF IInv, Belonging, TypeOK
  <1>s. (Supplied' <=> Supplied) /\ SettingsToken' = SettingsToken
    BY Ageing DEF Supplied, SettingsToken
  <1>f. Foreign'
    BY <1>s, <1>t, Ageing DEF Foreign
  <1>o. ASSUME owner' = owner PROVE Owned'
    <2> SUFFICES ASSUME owner # NoOwner
                 PROVE  /\ owner <= created'
                        /\ owner = Outsider => Supplied /\ issued'[1].account = Outsider
      BY <1>o, <1>s DEF Owned
    <2>1. owner <= created /\ owner \in Nat
      BY <1>t, CredentialsAssumption DEF Owned, TypeOK, Accounts, NoOwner
    <2>2. owner <= created'
      BY <2>1, Ageing
    <2>3. ASSUME owner = Outsider PROVE Supplied /\ issued'[1].account = Outsider
      <3>1. Supplied /\ issued[1].account = Outsider
        BY <1>t, <2>3 DEF Owned
      <3>2. 1 \in 1..Len(issued)
        BY <1>t, <3>1 DEF Configured
      <3> QED
        BY <3>1, <3>2, Ageing
    <2> QED
      BY <2>2, <2>3
  \* An account that cannot be asked for any more stays so.
  <1>l. ASSUME owner # NoOwner, owner' = owner, Lapsed(owner) PROVE Lapsed(owner)'
    <2>1. owner \in 0..created
      BY <1>l, <1>t, CredentialsAssumption DEF Owned, TypeOK, Accounts, NoOwner
    <2>2. CASE ~Exists(owner)
      <3>1. ~Exists(owner)'
        BY <1>l, <2>1, <2>2, Ageing DEF Exists
      <3> QED
        BY <3>1 DEF Lapsed
    <2>3. CASE owner = Outsider /\ ~issued[SettingsToken].live
      <3>1. SettingsToken = 1 /\ 1 \in 1..Len(issued)
        BY <1>l, <1>t, <2>3 DEF Owned, SettingsToken, Configured
      <3>2. ~issued'[1].live
        BY <2>3, <3>1, Ageing
      <3> QED
        BY <1>l, <1>s, <2>3, <3>1, <3>2 DEF Lapsed
    <2> QED
      BY <1>l, <2>2, <2>3 DEF Lapsed
  \* A step of one call that leaves the runtime alone.
  <1>q. ASSUME NEW c \in Calls, owner' = owner, Told(c)',
               \A d \in Calls \ {c} : /\ pc'[d] = pc[d] /\ phase'[d] = phase[d]
                                      /\ held'[d] = held[d] /\ answer'[d] = answer[d]
        PROVE  Belonging'
    <2>1. ASSUME NEW d \in Calls \ {c} PROVE Told(d)'
      <3>1. Told(d) /\ (pc[d] = "answered" => held[d] \in 1..Len(issued))
        BY <1>t DEF Carrying
      <3>2. pc[d] = "answered" => issued'[held[d]].account = issued[held[d]].account
        BY <3>1, Ageing
      <3>3. owner # NoOwner /\ Lapsed(owner) => Lapsed(owner)'
        BY <1>l, <1>q
      <3> QED
        BY <1>q, <3>1, <3>2, <3>3 DEF Told, Telling
    <2> QED
      BY <1>f, <1>o, <1>q, <2>1 DEF Belonging
  <1>1. ASSUME NEW c \in Calls, ToolCalled(c) PROVE Belonging'
    <2>1. Told(c)'
      BY <1>1, <1>t DEF ToolCalled, Told, Telling, TypeOK, Pending
    <2> QED
      BY <1>1, <1>q, <1>t, <2>1 DEF ToolCalled, TypeOK
  \* A request that begins has been told nothing yet.
  <1>b. ASSUME NEW c \in Calls, NEW stage \in {"build", "run"},
               NEW current \in 0..Len(issued), Begin(c, stage, current)
        PROVE  /\ pc'[c] \in {"login", "sent"} /\ phase'[c] = stage
               /\ owner' # NoOwner \/ stage = "build" => Told(c)'
               /\ \A d \in Calls \ {c} : /\ pc'[d] = pc[d] /\ phase'[d] = phase[d]
                                         /\ held'[d] = held[d] /\ answer'[d] = answer[d]
    BY <1>b, <1>t, Began DEF Told, Telling
  <1>2. ASSUME NEW c \in Calls, EnterBuild(c) PROVE Belonging'
    <2>1. SettingsToken \in 0..Len(issued)
      BY <1>t DEF SettingsToken, NoToken, Configured
    <2> QED
      BY <1>2, <1>b, <1>q, <2>1 DEF EnterBuild
  <1>3. ASSUME NEW c \in Calls, EnterRun(c) PROVE Belonging'
    <2>1. token \in 0..Len(issued)
      BY <1>t DEF TypeOK
    <2> QED
      BY <1>3, <1>b, <1>q, <2>1 DEF EnterRun
  \* So has one that is on its way to a login, or back, or to the API.
  <1>p. ASSUME NEW c \in Calls, pc[c] \in Pending, pc'[c] \in Pending \ {"answered"},
               UNCHANGED <<owner, phase, answer>>,
               \A d \in Calls \ {c} : pc'[d] = pc[d] /\ held'[d] = held[d]
        PROVE  Belonging'
    <2>1. owner = NoOwner => phase[c] = "build"
      BY <1>p, <1>t DEF Told
    <2>2. Told(c)'
      BY <1>p, <2>1 DEF Told, Telling, Pending
    <2> QED
      BY <1>p, <1>q, <2>2
  <1>4. ASSUME NEW c \in Calls, LoginAnswered(c) PROVE Belonging'
    BY <1>4, <1>p, <1>t DEF LoginAnswered, TypeOK, Pending
  <1>6. ASSUME NEW c \in Calls, StoreToken(c) PROVE Belonging'
    BY <1>6, <1>p, <1>t DEF StoreToken, TypeOK, Pending
  <1>8. ASSUME NEW c \in Calls, Renew(c) PROVE Belonging'
    BY <1>8, <1>p, <1>t DEF Renew, TypeOK, Pending
  <1>e. ASSUME NEW c \in Calls, NEW how \in Failed, Leave(c, how),
               UNCHANGED <<owner, phase, held, answer>>
        PROVE  Belonging'
    <2>1. pc'[c] = how /\ \A d \in Calls \ {c} : pc'[d] = pc[d]
      BY <1>e, <1>t DEF Leave, TypeOK
    <2>2. Told(c)'
      BY <2>1 DEF Told, Telling, Failed, Pending
    <2> QED
      BY <1>e, <1>q, <2>1, <2>2
  <1>5. ASSUME NEW c \in Calls, LoginRefused(c) PROVE Belonging'
    BY <1>5, <1>e DEF LoginRefused, Failed
  <1>7. ASSUME NEW c \in Calls, Answered(c) PROVE Belonging'
    <2>1. /\ pc[c] = "sent" /\ pc'[c] = "answered"
          /\ answer'[c].status = "ok" => Valid(held[c])
          /\ answer'[c].account = issued[held[c]].account
          /\ UNCHANGED <<outside, owner, phase, held>>
          /\ \A d \in Calls \ {c} : pc'[d] = pc[d] /\ answer'[d] = answer[d]
      BY <1>7, <1>t DEF Answered, TypeOK
    <2>2. issued' = issued /\ (Lapsed(owner)' <=> Lapsed(owner))
      BY <1>s, <2>1 DEF outside, Lapsed, Exists
    <2>3. ASSUME owner # NoOwner, answer'[c].status = "ok"
          PROVE  answer'[c].account = owner \/ Lapsed(owner)
      BY <2>1, <2>3, AnsweredForOwner
    <2>4. owner = NoOwner => phase[c] = "build"
      BY <1>t, <2>1 DEF Told, Pending
    <2>5. Told(c)'
      BY <2>1, <2>2, <2>3, <2>4 DEF Told, Telling
    <2> QED
      BY <1>q, <2>1, <2>5
  <1>9. ASSUME NEW c \in Calls, GiveUp(c) PROVE Belonging'
    <2>1. PICK how \in Failed : Leave(c, how)
      BY <1>9 DEF GiveUp, Failed
    <2> QED
      BY <1>9, <1>e, <2>1 DEF GiveUp
  \* The runtime's account is the one of a token, and nobody has been told yet.
  <1>10. ASSUME NEW c \in Calls, RuntimeBuilt(c) PROVE Belonging'
    <2>1. lock = c /\ owner = NoOwner
      BY <1>10, <1>t, CredentialsAssumption DEF RuntimeBuilt, TypeOK, Pending, Building
    <2>2. /\ held[c] \in 1..Len(issued) /\ owner' = issued[held[c]].account
          /\ owner' \in Accounts /\ UNCHANGED outside
      BY <1>10, <1>t DEF RuntimeBuilt, Carrying, Told, TypeOK, Answer
    <2>3. owner' # NoOwner
      BY <2>2, CredentialsAssumption DEF Accounts, NoOwner
    <2>4. Owned'
      BY <1>s, <1>t, <2>2 DEF Owned, Born, Foreign, outside
    <2>5. \A d \in Calls \ {c} : pc[d] \notin Pending /\ pc[d] # "done"
      BY <1>t, <2>1 DEF TypeOK, Told
    <2>6. Begin(c, "run", token) /\ token \in 0..Len(issued)
      BY <1>10, <1>t DEF RuntimeBuilt, TypeOK
    <2>7. Told(c)' /\ \A d \in Calls \ {c} : pc'[d] = pc[d]
      BY <1>b, <2>3, <2>6
    <2>8. \A d \in Calls \ {c} : Told(d)'
      BY <2>3, <2>5, <2>7 DEF Told, Telling, Pending
    <2> QED
      BY <1>f, <2>4, <2>7, <2>8 DEF Belonging
  <1>11. ASSUME NEW c \in Calls, ToolAnswered(c) PROVE Belonging'
    <2>1. /\ pc[c] = "answered" /\ answer[c].status = "ok" /\ phase[c] = "run" /\ pc'[c] = "done"
          /\ UNCHANGED <<outside, owner, phase, held, answer>>
          /\ \A d \in Calls \ {c} : pc'[d] = pc[d]
      BY <1>11, <1>t DEF ToolAnswered, TypeOK
    <2>2. owner # NoOwner /\ (answer[c].account = owner \/ Lapsed(owner))
      BY <1>t, <2>1 DEF Told, Telling, Pending
    <2>3. Told(c)'
      BY <1>l, <2>1, <2>2 DEF Told, Telling
    <2> QED
      BY <1>q, <2>1, <2>3
  <1>12. ASSUME NEW c \in Calls, TransportFails(c) PROVE Belonging'
    BY <1>12, <1>e DEF TransportFails, Failed
  \* The world outside moves no call.
  <1>13. ASSUME UNCHANGED <<owner, pc, phase, held, answer>> PROVE Belonging'
    <2>1. ASSUME NEW c \in Calls PROVE Told(c)'
      <3>1. Told(c) /\ (pc[c] = "answered" => held[c] \in 1..Len(issued))
        BY <1>t DEF Carrying
      <3>2. pc[c] = "answered" => issued'[held[c]].account = issued[held[c]].account
        BY <3>1, Ageing
      <3>3. owner # NoOwner /\ Lapsed(owner) => Lapsed(owner)'
        BY <1>13, <1>l
      <3> QED
        BY <1>13, <3>1, <3>2, <3>3 DEF Told, Telling
    <2> QED
      BY <1>f, <1>o, <1>13, <2>1 DEF Belonging
  <1>14. CASE \/ AccountDeleted \/ AccountRegisteredAgain \/ UNCHANGED vars
              \/ \E t \in 1..Len(issued) : TokenExpires(t)
    BY <1>13, <1>14 DEF AccountDeleted, AccountRegisteredAgain, TokenExpires, vars
  <1> QED
    BY <1>1, <1>2, <1>3, <1>4, <1>5, <1>6, <1>7, <1>8, <1>9, <1>10, <1>11, <1>12, <1>14
       DEF Next, Progress

-----------------------------------------------------------------------------
(* The logins for want of a token.                                          *)

\* A client past its first login has a token from then on.
Tokened ==
    /\ owner # NoOwner => token # NoToken
    /\ \A c \in Calls :
          /\ pc[c] \in {"sent", "answered"} /\ phase[c] = "build" => token # NoToken
          /\ pc[c] = "login" /\ phase[c] = "run" => renewed[c]

FirstLogins == {t \in 1..Len(issued) : issued[t].first}
FailedCalls == {c \in Calls : pc[c] \in Failed}

\* The runtime is built, or the call that is building it has logged in.
Spent ==
    \/ owner # NoOwner
    \/ lock # NoCall /\ ~(pc[lock] = "login" /\ ~renewed[lock])

\* Every such login but the last was made for a build that failed.
Counted ==
    /\ IsFiniteSet(FirstLogins) /\ IsFiniteSet(FailedCalls)
    /\ Cardinality(FirstLogins) <= Cardinality(FailedCalls) + (IF Spent THEN 1 ELSE 0)

LEMMA TokenedKept == IInv /\ Tokened /\ [Next]_vars => Tokened'
  <1> SUFFICES ASSUME IInv, Tokened, [Next]_vars PROVE Tokened'
    OBVIOUS
  <1>t. TypeOK /\ Carrying /\ Building /\ Configured
    BY DEF IInv
  <1>0. SettingsToken \in 0..Len(issued) /\ Len(issued) \in Nat
    BY <1>t, LenProperties DEF SettingsToken, NoToken, TypeOK, Configured
  <1>1. ASSUME NEW c \in Calls, ToolCalled(c) PROVE Tokened'
    BY <1>t, <1>1 DEF ToolCalled, Tokened, TypeOK
  \* Nobody else is building when a call starts to.
  <1>2. ASSUME NEW c \in Calls, EnterBuild(c) PROVE Tokened'
    <2>1. /\ Begin(c, "build", SettingsToken) /\ lock = NoCall /\ owner = NoOwner
          /\ owner' = owner /\ token' = SettingsToken
      BY <1>2 DEF EnterBuild
    <2>2. \A d \in Calls : ~(pc[d] \in {"sent", "answered"} /\ phase[d] = "build")
      BY <1>t, <2>1, CredentialsAssumption DEF TypeOK, Pending
    <2> QED
      <3>1. /\ pc'[c] = "sent" <=> SettingsToken # NoToken
            /\ pc'[c] \in {"login", "sent"} /\ phase'[c] = "build"
            /\ \A d \in Calls \ {c} : /\ pc'[d] = pc[d] /\ phase'[d] = phase[d]
                                     /\ renewed'[d] = renewed[d]
        BY <1>0, <1>t, <2>1, Began
      <3> QED
        BY <2>1, <2>2, <3>1 DEF Tokened
  <1>3. ASSUME NEW c \in Calls, EnterRun(c) PROVE Tokened'
    <2>1. /\ Begin(c, "run", token) /\ owner # NoOwner /\ UNCHANGED <<owner, token>>
          /\ token \in 0..Len(issued)
      BY <1>3, <1>t DEF EnterRun, TypeOK
    <2>2. /\ pc'[c] \in {"login", "sent"} /\ phase'[c] = "run"
          /\ pc'[c] = "sent" <=> token # NoToken
          /\ \A d \in Calls \ {c} : /\ pc'[d] = pc[d] /\ phase'[d] = phase[d]
                                   /\ renewed'[d] = renewed[d]
      BY <1>t, <2>1, Began
    <2>3. token # NoToken
      BY <2>1 DEF Tokened
    <2> QED
      BY <2>1, <2>2, <2>3 DEF Tokened
  <1>4. ASSUME NEW c \in Calls, LoginAnswered(c) PROVE Tokened'
    BY <1>4, <1>t DEF LoginAnswered, Tokened, TypeOK
  \* A call that ends is no longer spoken of.
  <1>e. ASSUME NEW c \in Calls, NEW how \in Ended, pc' = [pc EXCEPT ![c] = how],
               UNCHANGED <<owner, token, phase, renewed>>
        PROVE  Tokened'
    BY <1>e, <1>t DEF Tokened, TypeOK, Ended, Failed
  <1>5. ASSUME NEW c \in Calls, LoginRefused(c) PROVE Tokened'
    BY <1>5, <1>e DEF LoginRefused, Leave, Ended, Failed
  <1>6. ASSUME NEW c \in Calls, StoreToken(c) PROVE Tokened'
    <2>1. token' = held[c] /\ token' # NoToken
      BY <1>6, <1>t DEF StoreToken, Carrying, NoToken
    <2> QED
      BY <1>6, <1>t, <2>1 DEF StoreToken, Tokened, TypeOK
  <1>7. ASSUME NEW c \in Calls, Answered(c) PROVE Tokened'
    BY <1>7, <1>t DEF Answered, Tokened, TypeOK
  <1>8. ASSUME NEW c \in Calls, Renew(c) PROVE Tokened'
    BY <1>8, <1>t DEF Renew, Tokened, TypeOK
  <1>9. ASSUME NEW c \in Calls, GiveUp(c) PROVE Tokened'
    <2>1. PICK how \in Failed : pc' = [pc EXCEPT ![c] = how]
      BY <1>9 DEF GiveUp, Leave, Failed
    <2> QED
      BY <1>9, <1>e, <2>1 DEF GiveUp, Ended
  <1>10. ASSUME NEW c \in Calls, RuntimeBuilt(c) PROVE Tokened'
    <2>1. /\ Begin(c, "run", token) /\ token # NoToken /\ token' = token
          /\ token \in 0..Len(issued)
      BY <1>10, <1>t DEF RuntimeBuilt, Tokened, TypeOK
    <2>2. /\ pc'[c] \in {"login", "sent"} /\ phase'[c] = "run"
          /\ pc'[c] = "sent" <=> token # NoToken
          /\ \A d \in Calls \ {c} : /\ pc'[d] = pc[d] /\ phase'[d] = phase[d]
                                   /\ renewed'[d] = renewed[d]
      BY <1>t, <2>1, Began
    <2>3. token # NoToken
      BY <2>1
    <2> QED
      BY <2>1, <2>2, <2>3 DEF Tokened
  <1>11. ASSUME NEW c \in Calls, ToolAnswered(c) PROVE Tokened'
    BY <1>11, <1>e DEF ToolAnswered, Ended
  <1>12. ASSUME NEW c \in Calls, TransportFails(c) PROVE Tokened'
    BY <1>12, <1>e DEF TransportFails, Leave, Ended, Failed
  <1>13. CASE AccountDeleted \/ AccountRegisteredAgain \/ UNCHANGED vars
    BY <1>13 DEF AccountDeleted, AccountRegisteredAgain, vars, Tokened
  <1>15. ASSUME NEW t \in 1..Len(issued), TokenExpires(t) PROVE Tokened'
    BY <1>15 DEF TokenExpires, Tokened
  <1> QED
    BY <1>1, <1>2, <1>3, <1>4, <1>5, <1>6, <1>7, <1>8, <1>9, <1>10, <1>11, <1>12,
       <1>13, <1>15 DEF Next, Progress

LEMMA CountedKept == IInv /\ Tokened /\ Counted /\ [Next]_vars => Counted'
  <1> SUFFICES ASSUME IInv, Tokened, Counted, [Next]_vars PROVE Counted'
    OBVIOUS
  <1>t. TypeOK /\ Building /\ Len(issued) \in Nat
    BY LenProperties DEF IInv, TypeOK
  <1>n. Cardinality(FirstLogins) \in Nat /\ Cardinality(FailedCalls) \in Nat
    BY FS_CardinalityType DEF Counted
  \* A step that makes no login and fails no call, or one that fails a call.
  <1>q. ASSUME issued' = issued, FailedCalls' = FailedCalls, Spent => Spent'
        PROVE  Counted'
    <2>1. FirstLogins' = FirstLogins
      BY <1>q DEF FirstLogins
    <2> QED
      BY <1>n, <1>q, <2>1 DEF Counted
  <1>e. ASSUME NEW c \in Calls, NEW how \in Failed, pc[c] \in Pending,
               pc' = [pc EXCEPT ![c] = how], issued' = issued
        PROVE  Counted'
    <2>1. FirstLogins' = FirstLogins
      BY <1>e DEF FirstLogins
    <2>2. c \notin FailedCalls /\ FailedCalls' = FailedCalls \cup {c}
      BY <1>e, <1>t DEF FailedCalls, Failed, Pending, TypeOK
    <2>3. IsFiniteSet(FailedCalls') /\ Cardinality(FailedCalls') = Cardinality(FailedCalls) + 1
      BY <2>2, FS_AddElement DEF Counted
    <2> QED
      BY <1>n, <2>1, <2>3 DEF Counted
  <1>1. ASSUME NEW c \in Calls, ToolCalled(c) PROVE Counted'
    <2>1. FailedCalls' = FailedCalls /\ (Spent => Spent')
      BY <1>1, <1>t DEF ToolCalled, FailedCalls, Spent, Failed, TypeOK
    <2> QED
      BY <1>1, <1>q, <2>1 DEF ToolCalled, outside
  \* A request that begins is made by a call that had not failed.
  <1>b. ASSUME NEW c \in Calls, NEW stage \in {"build", "run"},
               NEW current \in 0..Len(issued), Begin(c, stage, current),
               pc[c] \notin Failed
        PROVE  FailedCalls' = FailedCalls
    BY <1>b, <1>t, Began DEF FailedCalls, Failed
  <1>2. ASSUME NEW c \in Calls, EnterBuild(c) PROVE Counted'
    <2>1. SettingsToken \in 0..Len(issued)
      BY LenProperties DEF SettingsToken, NoToken, IInv, TypeOK, Configured
    <2>2. FailedCalls' = FailedCalls /\ ~Spent
      BY <1>2, <1>b, <2>1 DEF EnterBuild, Failed, Spent
    <2> QED
      BY <1>2, <1>q, <2>2 DEF EnterBuild, outside
  <1>3. ASSUME NEW c \in Calls, EnterRun(c) PROVE Counted'
    <2>1. FailedCalls' = FailedCalls
      BY <1>3, <1>b, <1>t DEF EnterRun, Failed, TypeOK
    <2>2. Spent'
      BY <1>3 DEF EnterRun, Spent
    <2> QED
      BY <1>3, <1>q, <2>1, <2>2 DEF EnterRun, outside
  \* A login that is no renewal is the builder's, who had made none.
  <1>4. ASSUME NEW c \in Calls, LoginAnswered(c) PROVE Counted'
    <2>1. FailedCalls' = FailedCalls
      BY <1>4, <1>t DEF LoginAnswered, FailedCalls, Failed, TypeOK
    <2>2. /\ pc[c] = "login" /\ pc'[c] = "loggedIn"
          /\ UNCHANGED <<lock, owner, renewed>>
          /\ \A d \in Calls \ {c} : pc'[d] = pc[d]
      BY <1>4, <1>t DEF LoginAnswered, TypeOK
    <2>3. Len(issued') = Len(issued) + 1 /\ \A t \in 1..Len(issued) : issued'[t] = issued[t]
      BY <1>4, <1>t, Issuing
    <2>4. issued'[Len(issued) + 1].first = ~renewed[c]
      BY <1>4, <1>t DEF LoginAnswered, TypeOK
    <2>m. 1..Len(issued') = (1..Len(issued)) \cup {Len(issued) + 1}
          /\ Len(issued) + 1 \notin 1..Len(issued)
      BY <1>t, <2>3
    <2>5. CASE renewed[c]
      <3>1. FirstLogins' = FirstLogins
        <4>1. ~issued'[Len(issued) + 1].first
          BY <2>4, <2>5
        <4> QED
          BY <2>3, <2>m, <4>1, Zenon DEF FirstLogins
      <3>2. Spent => Spent'
        BY <1>t, <2>2 DEF Spent, TypeOK
      <3> QED
        BY <1>n, <2>1, <3>1, <3>2 DEF Counted
    <2>6. CASE ~renewed[c]
      <3>1. /\ FirstLogins' = FirstLogins \cup {Len(issued) + 1}
            /\ Len(issued) + 1 \notin FirstLogins
        <4>1. issued'[Len(issued) + 1].first
          BY <2>4, <2>6
        <4> QED
          BY <2>3, <2>m, <4>1, Zenon DEF FirstLogins
      <3>2. phase[c] = "build"
        BY <1>t, <2>2, <2>6 DEF Tokened, TypeOK
      <3>3. lock = c /\ lock # NoCall
        BY <1>t, <2>2, <3>2, CredentialsAssumption DEF TypeOK, Pending
      <3>4. ~Spent /\ Spent'
        BY <1>t, <2>2, <2>6, <3>3 DEF Spent, Building
      <3>5. IsFiniteSet(FirstLogins')
            /\ Cardinality(FirstLogins') = Cardinality(FirstLogins) + 1
        BY <3>1, FS_AddElement DEF Counted
      <3> QED
        BY <1>n, <2>1, <3>4, <3>5 DEF Counted
    <2> QED
      BY <2>5, <2>6
  <1>5. ASSUME NEW c \in Calls, LoginRefused(c) PROVE Counted'
    BY <1>5, <1>e DEF LoginRefused, Leave, Pending, Failed, outside
  \* A request that goes on: its call is not back at a first login.
  <1>g. ASSUME NEW c \in Calls, NEW next \in Pending,
               pc[c] \in Pending, pc' = [pc EXCEPT ![c] = next],
               next = "login" => renewed'[c],
               \A d \in Calls \ {c} : renewed'[d] = renewed[d],
               UNCHANGED <<issued, lock, owner>>
        PROVE  Counted'
    <2>1. FailedCalls' = FailedCalls
      BY <1>g, <1>t DEF FailedCalls, Failed, Pending, TypeOK
    <2>2. Spent => Spent'
      BY <1>g, <1>t DEF Spent, TypeOK
    <2> QED
      BY <1>g, <1>q, <2>1, <2>2
  <1>6. ASSUME NEW c \in Calls, StoreToken(c) PROVE Counted'
    BY <1>6, <1>g DEF StoreToken, Pending, outside
  <1>7. ASSUME NEW c \in Calls, Answered(c) PROVE Counted'
    BY <1>7, <1>g DEF Answered, Pending, outside
  <1>8. ASSUME NEW c \in Calls, Renew(c) PROVE Counted'
    <2>1. renewed'[c] /\ \A d \in Calls \ {c} : renewed'[d] = renewed[d]
      BY <1>8, <1>t DEF Renew, TypeOK
    <2> QED
      BY <1>8, <1>g, <2>1 DEF Renew, Pending, outside
  <1>9. ASSUME NEW c \in Calls, GiveUp(c) PROVE Counted'
    <2>1. PICK how \in Failed : pc' = [pc EXCEPT ![c] = how]
      BY <1>9 DEF GiveUp, Leave, Failed
    <2> QED
      BY <1>9, <1>e, <2>1 DEF GiveUp, Pending, outside
  <1>10. ASSUME NEW c \in Calls, RuntimeBuilt(c) PROVE Counted'
    <2>1. FailedCalls' = FailedCalls
      BY <1>10, <1>b, <1>t DEF RuntimeBuilt, Failed, TypeOK
    <2>2. answer[c].account \in Accounts
      BY <1>t DEF TypeOK, Answer
    <2>3. Spent'
      BY <1>10, <2>2, CredentialsAssumption DEF RuntimeBuilt, Spent, Accounts, NoOwner
    <2> QED
      BY <1>10, <1>q, <2>1, <2>3 DEF RuntimeBuilt, outside
  <1>11. ASSUME NEW c \in Calls, ToolAnswered(c) PROVE Counted'
    <2>1. FailedCalls' = FailedCalls
      BY <1>11, <1>t DEF ToolAnswered, FailedCalls, Failed, TypeOK
    <2>2. Spent => Spent'
      BY <1>11, <1>t DEF ToolAnswered, Spent, TypeOK
    <2> QED
      BY <1>11, <1>q, <2>1, <2>2 DEF ToolAnswered, outside
  <1>12. ASSUME NEW c \in Calls, TransportFails(c) PROVE Counted'
    BY <1>12, <1>e DEF TransportFails, Leave, Failed, outside
  <1>13. CASE AccountDeleted \/ AccountRegisteredAgain \/ UNCHANGED vars
    <2>1. UNCHANGED <<issued, lock, owner, pc, renewed>>
      BY <1>13 DEF AccountDeleted, AccountRegisteredAgain, vars
    <2> QED
      BY <1>q, <2>1 DEF FailedCalls, Spent
  <1>15. ASSUME NEW t \in 1..Len(issued), TokenExpires(t) PROVE Counted'
    <2>1. /\ UNCHANGED <<lock, owner, pc, renewed>>
          /\ issued' = [issued EXCEPT ![t].live = FALSE]
      BY <1>15 DEF TokenExpires
    <2>2. Len(issued') = Len(issued)
      BY <1>15, <1>t, Expiring
    <2>3. \A u \in 1..Len(issued) : issued'[u].first = issued[u].first
      <3>1. issued \in Seq(Token) /\ \A u \in 1..Len(issued) : issued[u] \in Token
        BY <1>t, ElementOfSeq DEF TypeOK
      <3> QED
        BY <2>1, <3>1, LenProperties DEF Token
    <2>4. FirstLogins' = FirstLogins
      BY <2>2, <2>3 DEF FirstLogins
    <2>5. FailedCalls' = FailedCalls /\ Spent' = Spent
      BY <2>1 DEF FailedCalls, Spent
    <2> QED
      BY <2>4, <2>5 DEF Counted
  <1> QED
    BY <1>1, <1>2, <1>3, <1>4, <1>5, <1>6, <1>7, <1>8, <1>9, <1>10, <1>11, <1>12,
       <1>13, <1>15 DEF Next, Progress

\* At the start there is no such login, and no call has failed.
LEMMA CountedInit == Init => Tokened /\ Counted
  <1> SUFFICES ASSUME Init PROVE Tokened /\ Counted
    OBVIOUS
  <1>1. Tokened
    BY DEF Init, Tokened
  <1>2. FailedCalls = {}
    BY DEF Init, FailedCalls, Failed
  <1>3. FirstLogins = {}
    <2>1. \/ issued = <<>>
          \/ \E a \in {Outsider, 1} :
                issued = <<[account |-> a, live |-> TRUE, first |-> FALSE]>>
      BY DEF Init
    <2> QED
      BY <2>1 DEF FirstLogins
  <1>4. IsFiniteSet({}) /\ Cardinality({}) = 0
    BY FS_EmptySet
  <1> QED
    BY <1>1, <1>2, <1>3, <1>4 DEF Counted

-----------------------------------------------------------------------------
(* The theorems.                                                            *)

LEMMA Kept == IInv /\ [Next]_vars => IInv'
  BY TypeKept, RenewalKept, BuildingKept, LendingKept, BelongingKept DEF IInv, RenewalInv

(* The invariant holds in every state, of any number of calls and accounts. *)
THEOREM Invariance == Spec => []IInv
  BY InitHolds, Kept, PTL DEF Spec

(* The variables keep their types, and whoever builds holds the lock        *)
(* (server.py:97).                                                          *)
THEOREM TypeCorrect == Spec => []TypeOK
  BY Invariance, PTL DEF IInv

(* A second 401 means the account the token was for is gone                 *)
(* (client.py:148), whatever expiries, renewals and registrations happened. *)
THEOREM SecondRejection == Spec => []SecondRejectionMeansGone
  <1>1. IInv => SecondRejectionMeansGone
    BY DEF IInv, Denied, SecondRejectionMeansGone
  <1> QED
    BY <1>1, Invariance, PTL

(* As long as the runtime's account can be asked for, every tool is         *)
(* answered for that account, however many calls, logins, renewals and      *)
(* expiries the shared token goes through (client.py:137, 183).             *)
THEOREM OwnerAnswers == Spec => []AnswersForOwner
  <1>1. IInv => AnswersForOwner
    BY DEF IInv, Belonging, Told, Telling, AnswersForOwner
  <1> QED
    BY <1>1, Invariance, PTL

(* However many calls are made at once, only one login is for want of a     *)
(* token, and one more for each call that failed (server.py:93).            *)
THEOREM OneLogin == Spec => []OneLoginOnFirstUse
  <1>1. Counted => OneLoginOnFirstUse
    <2> SUFFICES ASSUME Counted PROVE OneLoginOnFirstUse
      OBVIOUS
    <2>1. Cardinality(FirstLogins) \in Nat /\ Cardinality(FailedCalls) \in Nat
      BY FS_CardinalityType DEF Counted
    <2>2. Cardinality(FirstLogins) <= 1 + Cardinality(FailedCalls)
      BY <2>1 DEF Counted
    <2> QED
      BY <2>2 DEF OneLoginOnFirstUse, FirstLogins, FailedCalls
  <1>2. IInv /\ Tokened /\ Counted /\ [Next]_vars => (Tokened /\ Counted)'
    BY TokenedKept, CountedKept
  <1> QED
    BY <1>1, <1>2, CountedInit, Invariance, PTL DEF Spec

(* Once there is a runtime nothing replaces it or builds another            *)
(* (server.py:93).                                                          *)
THEOREM SingleRuntime == Spec => RuntimeBuiltOnce
  <1> DEFINE Kept1 ==
         owner # NoOwner =>
            owner' = owner /\ \A c \in Calls : phase'[c] = "build" => phase[c] = "build"
  <1>1. IInv /\ [Next]_vars => [Kept1]_vars
    BY BuildingKept
  <1> QED
    BY <1>1, Invariance, PTL DEF Spec, RuntimeBuiltOnce
=============================================================================
