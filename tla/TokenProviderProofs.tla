------------------------- MODULE TokenProviderProofs -------------------------
(***************************************************************************)
(* Proofs about TokenProvider, for any number of requests and any          *)
(* lifetimes.  The invariant adds to the properties that a rejected token  *)
(* does not come back (RetryPending), and how far the provider's clock is  *)
(* ahead of upstream's (ClocksAgree).                                      *)
(***************************************************************************)
EXTENDS TokenProvider, TLAPS

-----------------------------------------------------------------------------
(* The invariant. *)

\* Once a token is rejected the provider never has it again, and a request that
\* is out carries a token.
RetryPending ==
    \A c \in Caller :
        /\ call[c].rejected # NoToken => token # call[c].rejected
        /\ call[c].phase = "sent" => call[c].tok \in TokenId

LongLives == \A life \in Lifetimes : life >= Margin + MinUse

\* The provider gives its token up a margin, less the time of the renewal,
\* before upstream does, and a request is sent a tick before that at least.
ClocksAgree ==
    /\ (usable > 0 /\ token # NoToken /\ left[token] # Revoked)
          => left[token] >= usable + Margin - 1
    /\ \A c \in Caller :
          (call[c].phase = "sent" /\ left[call[c].tok] # Revoked)
             => left[call[c].tok] + call[c].age >= 2

Inv ==
    /\ TypeOK /\ RenewsOnlyWhatIsGone /\ RetryCarriesAnotherToken /\ RetryPending
    /\ (LongLives => ClocksAgree)

Request == [phase : {"idle", "waiting", "posting", "sent"}, age : 0 .. 1,
            tok : TokenId \cup {NoToken}, rejected : TokenId \cup {NoToken}]

-----------------------------------------------------------------------------
(* Lemmas about the operators. *)

\* What the requests are made of.
LEMMA Requests ==
    ASSUME NEW tok \in TokenId, NEW rejected \in TokenId \cup {NoToken}
    PROVE  /\ Sent(tok, rejected) \in Request /\ Waiting(rejected) \in Request
           /\ Posting(rejected) \in Request /\ IdleCall \in Request
BY DEF Sent, Waiting, Posting, IdleCall, Request, NoToken

\* A tick changes the age of a request and nothing else.
LEMMA OlderRequest ==
    ASSUME NEW r \in Request, r.age < 1
    PROVE  /\ Older(r) \in Request /\ Older(r).phase = r.phase /\ Older(r).age = r.age + 1
           /\ Older(r).tok = r.tok /\ Older(r).rejected = r.rejected
BY DEF Older, Request

\* No token is NoToken.
LEMMA TokensAreTokens == NoToken \notin TokenId
BY CallersAssumption DEF NoToken, TokenId

\* A token is used for a positive time; a long-lived one is given up in time.
LEMMA UsableTime ==
    ASSUME NEW life \in Lifetimes
    PROVE  /\ UsableFor(life) \in Nat
           /\ life >= Margin + MinUse => UsableFor(life) = life - Margin
BY TimesAssumption DEF UsableFor

-----------------------------------------------------------------------------
(* The invariant is inductive. *)

\* The first state satisfies it.
LEMMA InitInv == Init => Inv
<1> SUFFICES ASSUME Init PROVE Inv  OBVIOUS
<1>1. /\ token = NoToken /\ usable = 0 /\ holder = Nobody /\ queue = <<>>
      /\ call = [c \in Caller |-> IdleCall] /\ left = [id \in TokenId |-> 0]
    BY DEF Init
<1>2. \A c \in Caller : call[c] = IdleCall
    BY <1>1
<1>3. TypeOK
    BY <1>1 DEF TypeOK, IdleCall
<1>4. \A c \in Caller : call[c].phase = "idle" /\ call[c].rejected = NoToken
    BY <1>2 DEF IdleCall
<1>5. RenewsOnlyWhatIsGone /\ RetryCarriesAnotherToken /\ RetryPending
    BY <1>4 DEF RenewsOnlyWhatIsGone, RetryCarriesAnotherToken, RetryPending
<1>6. ClocksAgree
    BY <1>1, <1>4 DEF ClocksAgree
<1> QED  BY <1>3, <1>5, <1>6 DEF Inv

\* Steps that put one request into the state `next` and touch no token.
LEMMA OneRequestMoves ==
    ASSUME Inv, NEW c \in Caller, NEW next \in Request,
           call' = [call EXCEPT ![c] = next],
           UNCHANGED <<provider, left>>,
           queue' \in Seq(Caller), holder' \in Caller \cup {Nobody},
           holder' = holder \/ holder = Nobody \/ holder = c,
           next.phase = "posting" => holder' = c /\ ~Usable,
           next.phase = "sent" => next.tok # next.rejected /\ next.tok \in TokenId,
           next.rejected # NoToken => token # next.rejected,
           (next.phase = "sent" /\ LongLives /\ left[next.tok] # Revoked)
              => left[next.tok] + next.age >= 2
    PROVE  Inv'
<1>1. /\ call' \in [Caller -> Request] /\ call'[c] = next
      /\ \A d \in Caller : d # c => call'[d] = call[d]
    BY DEF Inv, TypeOK, Request
<1>2. token' = token /\ usable' = usable /\ left' = left
    BY DEF provider
<1>3. TypeOK'
    BY <1>1, <1>2 DEF Inv, TypeOK, Request
<1>4. RenewsOnlyWhatIsGone'
    BY <1>1, <1>2, CallersAssumption DEF Inv, RenewsOnlyWhatIsGone, Usable, Caller, Nobody
<1>5. RetryCarriesAnotherToken' /\ RetryPending'
    BY <1>1, <1>2 DEF Inv, RetryCarriesAnotherToken, RetryPending
<1>6. LongLives => ClocksAgree'
    BY <1>1, <1>2 DEF Inv, ClocksAgree
<1> QED  BY <1>3, <1>4, <1>5, <1>6 DEF Inv, LongLives

\* Upstream's clocks show whole ticks, or Revoked.
LEMMA UpstreamClock == Inv => \A id \in TokenId : left[id] \in Int
BY DEF Inv, TypeOK, Revoked

\* A token that can be used is as good for a request as ClocksAgree says.
LEMMA TokenAtHand ==
    ASSUME Inv, Usable
    PROVE  /\ token \in TokenId
           /\ (LongLives /\ left[token] # Revoked) => left[token] >= 2
<1>1. token \in TokenId /\ usable \in Nat /\ usable > 0 /\ left \in [TokenId -> Nat \cup {Revoked}]
    BY DEF Inv, TypeOK, Usable
<1>2. ASSUME LongLives, left[token] # Revoked PROVE left[token] >= 2
    <2>1. left[token] \in Nat /\ left[token] >= usable + Margin - 1
        BY <1>1, <1>2 DEF Inv, ClocksAgree, Usable
    <2> QED  BY <1>1, <2>1, TimesAssumption, MarginAssumption
<1> QED  BY <1>1, <1>2

\* A request starts.
LEMMA CallInv == ASSUME Inv, NEW c \in Caller, Call(c) PROVE Inv'
<1>1. UNCHANGED <<provider, holder, left>> /\ holder \in Caller \cup {Nobody}
    BY DEF Call, Inv, TypeOK
<1>2. CASE Usable
    <2>1. call' = [call EXCEPT ![c] = Sent(token, NoToken)] /\ queue' \in Seq(Caller)
        BY <1>2 DEF Call, Inv, TypeOK
    <2>2. token # NoToken /\ token \in TokenId
        BY <1>2, TokenAtHand DEF Usable
    <2>3. Sent(token, NoToken) \in Request
        BY <2>2, Requests
    <2> DEFINE next == Sent(token, NoToken)
    <2>4. next.phase = "sent" /\ next.tok = token /\ next.rejected = NoToken /\ next.age = 0
        BY DEF Sent
    <2>5. (LongLives /\ left[token] # Revoked) => left[token] + 0 >= 2
        BY <1>2, TokenAtHand, UpstreamClock
    <2> HIDE DEF next
    <2> QED  BY <1>1, <1>2, <2>1, <2>1, <2>2, <2>3, <2>4, <2>5, OneRequestMoves DEF next
<1>3. CASE ~Usable
    <2>1. call' = [call EXCEPT ![c] = Waiting(NoToken)] /\ queue' = Append(queue, c)
        BY <1>3 DEF Call
    <2>2. queue' \in Seq(Caller)
        BY <2>1 DEF Inv, TypeOK
    <2>3. Waiting(NoToken) \in Request
        BY DEF Waiting, Request
    <2> QED  BY <1>1, <2>1, <2>2, <2>3, OneRequestMoves DEF Waiting
<1> QED  BY <1>2, <1>3

\* A request gets the lock.
LEMMA EnterInv == ASSUME Inv, NEW c \in Caller, Enter(c) PROVE Inv'
<1>1. /\ holder = Nobody /\ queue \in Seq(Caller) /\ queue # <<>> /\ queue' = Tail(queue)
      /\ UNCHANGED <<provider, left>> /\ call[c] \in Request
    BY DEF Enter, Inv, TypeOK, Request
<1>2. queue' \in Seq(Caller)
    BY <1>1
<1> DEFINE r == call[c].rejected
<1>3. r \in TokenId \cup {NoToken} /\ (r # NoToken => token # r)
    BY <1>1 DEF Inv, RetryPending, Request
<1> HIDE DEF r
<1>4. CASE Usable
    <2>1. call' = [call EXCEPT ![c] = Sent(token, r)] /\ holder' = holder
        BY <1>4 DEF Enter, HasToken, r
    <2>2. token # NoToken /\ token \in TokenId /\ token # r
        BY <1>3, <1>4, TokenAtHand DEF Usable
    <2>3. Sent(token, r) \in Request
        BY <1>3, <2>2, Requests
    <2> DEFINE next == Sent(token, r)
    <2>4. next.phase = "sent" /\ next.tok = token /\ next.rejected = r /\ next.age = 0
        BY DEF Sent
    <2>5. (LongLives /\ left[token] # Revoked) => left[token] + 0 >= 2
        BY <1>4, TokenAtHand, UpstreamClock
    <2> HIDE DEF next
    <2> QED  BY <1>1, <1>2, <1>3, <2>1, <2>2, <2>3, <2>4, <2>5, OneRequestMoves DEF next
<1>5. CASE ~Usable
    <2>1. call' = [call EXCEPT ![c] = Posting(r)] /\ holder' = c
        BY <1>5 DEF Enter, HasToken, r
    <2>2. Posting(r) \in Request
        BY <1>3 DEF Posting, Request, NoToken
    <2> QED  BY <1>1, <1>2, <1>3, <1>5, <2>1, <2>2, OneRequestMoves DEF Posting
<1> QED  BY <1>4, <1>5

\* A request ends: it is answered, breaks, is rejected twice, or has no token.
LEMMA EndInv ==
    ASSUME Inv, NEW c \in Caller,
           Answered(c) \/ Breaks(c) \/ RejectedAgain(c) \/ RenewFails(c)
    PROVE  Inv'
<1>1. IdleCall \in Request /\ IdleCall.phase = "idle" /\ IdleCall.rejected = NoToken
    BY DEF IdleCall, Request
<1>2. call' = [call EXCEPT ![c] = IdleCall] /\ UNCHANGED <<provider, queue, left>>
    BY DEF Answered, Breaks, RejectedAgain, RenewFails, lock
<1>3. queue' \in Seq(Caller) /\ holder \in Caller \cup {Nobody}
    BY <1>2 DEF Inv, TypeOK
<1>4. holder' = holder \/ (holder' = Nobody /\ holder = c)
    BY DEF Answered, Breaks, RejectedAgain, RenewFails, lock, Release, Inv, RenewsOnlyWhatIsGone
<1> QED  BY <1>1, <1>2, <1>3, <1>4, OneRequestMoves

\* The first 401: nothing can be used any more, and the rejected token is gone.
LEMMA RejectedInv == ASSUME Inv, NEW c \in Caller, Rejected(c) PROVE Inv'
<1> DEFINE r == call[c].tok
<1>1. r \in TokenId /\ token' = NoToken /\ usable' = 0 /\ left' = left /\ holder' = holder
    BY DEF Rejected, Invalidate, Inv, RetryPending
<1>2. /\ call' \in [Caller -> Request] /\ call'[c] = Waiting(r)
      /\ \A d \in Caller : d # c => call'[d] = call[d]
    BY <1>1, Requests DEF Rejected, Inv, TypeOK, Request
<1>3. queue' \in Seq(Caller)
    BY DEF Rejected, Inv, TypeOK
<1>4. TypeOK'
    BY <1>1, <1>2, <1>3 DEF Inv, TypeOK, Request
<1>5. RenewsOnlyWhatIsGone' /\ RetryCarriesAnotherToken' /\ RetryPending'
    BY <1>1, <1>2, TokensAreTokens
        DEF Inv, RenewsOnlyWhatIsGone, RetryCarriesAnotherToken, RetryPending, Usable, Waiting,
            TypeOK
<1>6. LongLives => ClocksAgree'
    BY <1>1, <1>2 DEF Inv, ClocksAgree, Waiting
<1> QED  BY <1>4, <1>5, <1>6 DEF Inv, LongLives

\* A renewal: the new token was known to nobody, so nobody was rejected with it.
LEMMA RenewedInv ==
    ASSUME Inv, NEW c \in Caller, NEW life \in Lifetimes, NEW since \in 0 .. 1,
           Renewed(c, life, since)
    PROVE  Inv'
<1>1. PICK id \in TokenId \ Known :
        /\ token' = id
        /\ left' = [left EXCEPT ![id] = IF life > since THEN life - since ELSE 0]
        /\ call' = [call EXCEPT ![c] = Sent(id, call[c].rejected)]
    BY DEF Renewed
<1>2. /\ call[c].phase = "posting" /\ holder = c /\ holder' = Nobody /\ queue' = queue
      /\ usable' = UsableFor(life)
    BY DEF Renewed, Inv, RenewsOnlyWhatIsGone
<1>3. /\ id \in TokenId /\ \A d \in Caller : id # call[d].tok /\ id # call[d].rejected
    BY <1>1 DEF Known
<1>4. /\ call \in [Caller -> Request] /\ left \in [TokenId -> Nat \cup {Revoked}]
      /\ queue \in Seq(Caller)
    BY DEF Inv, TypeOK, Request
<1> DEFINE r == call[c].rejected
<1>5. r \in TokenId \cup {NoToken}
    BY <1>4 DEF Request
<1>6. /\ call' \in [Caller -> Request] /\ call'[c] = Sent(id, r)
      /\ \A d \in Caller : d # c => call'[d] = call[d]
    <2>1. Sent(id, r) \in Request
        BY <1>3, <1>5, Requests
    <2> QED  BY <1>1, <1>4, <2>1
<1>7. life \in Nat /\ since \in Nat /\ since <= 1 /\ UsableFor(life) \in Nat
    BY TimesAssumption, UsableTime
<1>8. /\ left' \in [TokenId -> Nat \cup {Revoked}]
      /\ left'[id] = IF life > since THEN life - since ELSE 0
      /\ \A other \in TokenId : other # id => left'[other] = left[other]
    BY <1>1, <1>3, <1>4, <1>7
<1>9. TypeOK'
    BY <1>1, <1>2, <1>3, <1>4, <1>6, <1>7, <1>8 DEF TypeOK, Request
<1>10. RenewsOnlyWhatIsGone'
    <2>1. \A d \in Caller : d # c => call[d].phase # "posting"
        BY <1>2 DEF Inv, RenewsOnlyWhatIsGone
    <2> QED  BY <1>6, <2>1 DEF RenewsOnlyWhatIsGone, Sent
<1>11. RetryCarriesAnotherToken'
    <2>1. r # id
        BY <1>3
    <2> QED  BY <1>6, <2>1 DEF Inv, RetryCarriesAnotherToken, Sent
<1>12. RetryPending'
    <2>1. \A d \in Caller : call'[d].rejected = call[d].rejected
        BY <1>6 DEF Sent
    <2>2. \A d \in Caller : call'[d].phase = "sent" => call'[d].tok \in TokenId
        BY <1>3, <1>6 DEF Inv, RetryPending, Sent
    <2> QED  BY <1>1, <1>3, <2>1, <2>2 DEF RetryPending
<1>13. ASSUME LongLives PROVE ClocksAgree'
    <2>1. life >= Margin + MinUse /\ UsableFor(life) = life - Margin
        BY <1>13, UsableTime DEF LongLives
    <2>2. left'[id] = life - since /\ life - since >= 2
        BY <1>7, <1>8, <2>1, TimesAssumption, MarginAssumption
    <2>3. left'[token'] >= usable' + Margin - 1
        BY <1>1, <1>2, <1>7, <2>1, <2>2, TimesAssumption
    <2>4. ASSUME NEW d \in Caller, call'[d].phase = "sent", left'[call'[d].tok] # Revoked
          PROVE  left'[call'[d].tok] + call'[d].age >= 2
        <3>1. CASE d = c
            BY <1>6, <1>7, <2>2, <3>1 DEF Sent
        <3>2. CASE d # c
            <4>1. call'[d] = call[d] /\ call[d].tok \in TokenId /\ call[d].tok # id
                BY <1>3, <1>6, <2>4, <3>2 DEF Inv, RetryPending
            <4>2. left'[call[d].tok] = left[call[d].tok]
                BY <1>8, <4>1
            <4> QED  BY <1>13, <2>4, <4>1, <4>2 DEF Inv, ClocksAgree
        <3> QED  BY <3>1, <3>2
    <2> QED  BY <2>3, <2>4 DEF ClocksAgree
<1> QED  BY <1>9, <1>10, <1>11, <1>12, <1>13 DEF Inv, LongLives

\* A revoked token.
LEMMA RevokeInv == ASSUME Inv, NEW id \in TokenId, Revoke(id) PROVE Inv'
<1>1. /\ UNCHANGED <<token, usable, holder, queue, call>>
      /\ left' = [left EXCEPT ![id] = Revoked]
    BY DEF Revoke, provider, lock
<1>2. \A other \in TokenId : left'[other] = Revoked \/ left'[other] = left[other]
    BY <1>1 DEF Inv, TypeOK
<1>3. TypeOK'
    BY <1>1 DEF Inv, TypeOK
<1>4. RenewsOnlyWhatIsGone' /\ RetryCarriesAnotherToken' /\ RetryPending'
    BY <1>1 DEF Inv, RenewsOnlyWhatIsGone, RetryCarriesAnotherToken, RetryPending, Usable
<1>5. LongLives => ClocksAgree'
    BY <1>1, <1>2 DEF Inv, ClocksAgree, RetryPending, TypeOK
<1> QED  BY <1>3, <1>4, <1>5 DEF Inv, LongLives

\* A tick: the provider's clock and upstream's go on together.
LEMMA TickInv == ASSUME Inv, Tick PROVE Inv'
<1>1. /\ UNCHANGED <<token, holder, queue>>
      /\ usable' = IF usable > 0 THEN usable - 1 ELSE 0
      /\ left' = [id \in TokenId |-> IF id \notin Known THEN 0
                                     ELSE IF left[id] > 0 THEN left[id] - 1 ELSE left[id]]
    BY DEF Tick, lock
<1>2. /\ call \in [Caller -> Request] /\ left \in [TokenId -> Nat \cup {Revoked}]
      /\ usable \in Nat
    BY DEF Inv, TypeOK, Request
<1>3. /\ call' \in [Caller -> Request]
      /\ \A d \in Caller :
            /\ call'[d].phase = call[d].phase /\ call'[d].tok = call[d].tok
            /\ call'[d].rejected = call[d].rejected
            /\ call[d].phase = "sent" => call'[d].age = call[d].age + 1
    <2>1. call' = [d \in Caller |-> IF call[d].phase \in {"sent", "posting"}
                                     THEN Older(call[d]) ELSE call[d]]
        BY DEF Tick
    <2>2. \A d \in Caller : call[d].phase \in {"sent", "posting"} => call[d].age < 1
        BY DEF Tick, InTime
    <2>3. \A d \in Caller : call[d].phase \in {"sent", "posting"} =>
            /\ Older(call[d]) \in Request /\ Older(call[d]).phase = call[d].phase
            /\ Older(call[d]).age = call[d].age + 1
            /\ Older(call[d]).tok = call[d].tok /\ Older(call[d]).rejected = call[d].rejected
        BY <1>2, <2>2, OlderRequest
    <2> QED  BY <1>2, <2>1, <2>3
<1>4. usable' \in Nat /\ left' \in [TokenId -> Nat \cup {Revoked}]
    <2>1. usable' \in Nat
        BY <1>1, <1>2
    <2>2. ASSUME NEW id \in TokenId
          PROVE  (IF id \notin Known THEN 0
                  ELSE IF left[id] > 0 THEN left[id] - 1 ELSE left[id]) \in Nat \cup {Revoked}
        <3>1. left[id] \in Nat \/ left[id] = Revoked
            BY <1>2
        <3> QED  BY <3>1 DEF Revoked
    <2>3. left' \in [TokenId -> Nat \cup {Revoked}]
        BY <1>1, <2>2
    <2> QED  BY <2>1, <2>3
<1>5. TypeOK'
    BY <1>1, <1>3, <1>4 DEF Inv, TypeOK, Request
<1>6. Usable' => Usable
    BY <1>1, <1>2 DEF Usable
<1>7. RenewsOnlyWhatIsGone'
    BY <1>1, <1>3, <1>6 DEF Inv, RenewsOnlyWhatIsGone
<1>8. RetryCarriesAnotherToken' /\ RetryPending'
    BY <1>1, <1>3 DEF Inv, RetryCarriesAnotherToken, RetryPending
<1>9. ASSUME LongLives PROVE ClocksAgree'
    <2>1. \A id \in TokenId \cap Known :
            left'[id] = IF left[id] > 0 THEN left[id] - 1 ELSE left[id]
        BY <1>1
    <2>2. token \in Known /\ \A d \in Caller : call[d].tok \in Known
        BY DEF Known
    <2>3. ASSUME usable' > 0, token' # NoToken, left'[token'] # Revoked
          PROVE  left'[token'] >= usable' + Margin - 1
        <3>1. /\ token \in TokenId /\ token' = token /\ usable' = usable - 1 /\ usable > 0
              /\ left'[token] = IF left[token] > 0 THEN left[token] - 1 ELSE left[token]
              /\ left[token] \in Nat \cup {Revoked}
            BY <1>1, <1>2, <2>1, <2>2, <2>3 DEF Inv, TypeOK
        <3>2. left[token] # Revoked
            BY <2>3, <3>1 DEF Revoked
        <3>3. left[token] \in Nat /\ left[token] >= usable + Margin - 1
            BY <1>9, <2>3, <3>1, <3>2 DEF Inv, ClocksAgree
        <3> QED  BY <1>2, <3>1, <3>3, TimesAssumption, MarginAssumption
    <2>4. ASSUME NEW d \in Caller, call'[d].phase = "sent", left'[call'[d].tok] # Revoked
          PROVE  left'[call'[d].tok] + call'[d].age >= 2
        <3> DEFINE t == call[d].tok
        <3>1. /\ t \in TokenId /\ call[d].phase = "sent" /\ call'[d].tok = t
              /\ call'[d].age = call[d].age + 1 /\ call[d].age \in 0 .. 1
            BY <1>2, <1>3, <2>4 DEF Inv, RetryPending, Request
        <3>2. /\ left'[t] = IF left[t] > 0 THEN left[t] - 1 ELSE left[t]
              /\ left[t] \in Nat \cup {Revoked}
            BY <1>2, <2>1, <2>2, <3>1
        <3> HIDE DEF t
        <3>3. left[t] # Revoked
            BY <2>4, <3>1, <3>2 DEF Revoked
        <3>4. left[t] \in Nat /\ left[t] + call[d].age >= 2
            BY <1>9, <3>1, <3>2, <3>3 DEF Inv, ClocksAgree, t
        <3>5. call[d].age < 1
            BY <3>1 DEF Tick, InTime
        <3> QED  BY <3>1, <3>2, <3>4, <3>5
    <2> QED  BY <2>3, <2>4 DEF ClocksAgree
<1> QED  BY <1>5, <1>7, <1>8, <1>9 DEF Inv, LongLives

\* Every step keeps the invariant.
LEMMA NextInv == Inv /\ [Next]_vars => Inv'
<1> SUFFICES ASSUME Inv, [Next]_vars PROVE Inv'  OBVIOUS
<1>1. CASE \E c \in Caller : Call(c)
    BY <1>1, CallInv
<1>2. CASE \E c \in Caller : Enter(c)
    BY <1>2, EnterInv
<1>3. CASE \E c \in Caller : Reply(c)
    BY <1>3, RenewedInv, EndInv, RejectedInv DEF Reply, Renew
<1>4. CASE \E id \in TokenId : Revoke(id)
    BY <1>4, RevokeInv
<1>5. CASE Tick
    BY <1>5, TickInv
<1>6. CASE UNCHANGED vars
    BY <1>6 DEF vars, provider, lock, Inv, TypeOK, RenewsOnlyWhatIsGone,
        RetryCarriesAnotherToken, RetryPending, LongLives, ClocksAgree, Usable
<1> QED  BY <1>1, <1>2, <1>3, <1>4, <1>5, <1>6 DEF Next

-----------------------------------------------------------------------------
(* The theorems. *)

\* The invariant holds throughout.
LEMMA Invariant == Spec => []Inv
<1> QED  BY InitInv, NextInv, PTL DEF Spec

\* The variables keep their types; no HTTP request is out for longer than its
\* timeout (stalzone.py OAuthTokenProvider, StalzoneClient._authenticated_get).
THEOREM TypeCorrect == Spec => []TypeOK
<1>1. Inv => TypeOK  BY DEF Inv
<1> QED  BY <1>1, Invariant, PTL

\* However many requests find the token gone or rejected at the same time, at
\* most one renews it, and only while there is none (get_token).
THEOREM OneRenewal == Spec => []RenewsOnlyWhatIsGone
<1>1. Inv => RenewsOnlyWhatIsGone  BY DEF Inv
<1> QED  BY <1>1, Invariant, PTL

\* A rejected token is never tried again by the same request (_authenticated_get).
THEOREM RetryIsNew == Spec => []RetryCarriesAnotherToken
<1>1. Inv => RetryCarriesAnotherToken  BY DEF Inv
<1> QED  BY <1>1, Invariant, PTL

\* No token expires while a request carries it, for any lifetimes from the margin
\* and the minimal use on (the margin of get_token covers a renewal and a request).
THEOREM MarginSuffices == Spec => []TokenOutlivesRequest
<1>1. Inv => TokenOutlivesRequest
    <2> SUFFICES ASSUME Inv, LongLives, NEW c \in Caller, call[c].phase = "sent"
                 PROVE  left[call[c].tok] # 0
        BY DEF TokenOutlivesRequest, LongLives
    <2>1. left[call[c].tok] # Revoked => left[call[c].tok] + call[c].age >= 2
        BY DEF Inv, ClocksAgree
    <2>2. call[c].age \in 0 .. 1 /\ left[call[c].tok] \in Int
        BY UpstreamClock DEF Inv, TypeOK, RetryPending
    <2> QED  BY <2>1, <2>2 DEF Revoked
<1> QED  BY <1>1, Invariant, PTL

=============================================================================
