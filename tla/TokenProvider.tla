---------------------------- MODULE TokenProvider ----------------------------
(***************************************************************************)
(* The OAuth token that all requests of one process share                  *)
(* (OAuthTokenProvider in app/clients/stalzone.py) and the requests        *)
(* that use it (StalzoneClient._authenticated_get): a renewal under a      *)
(* lock, and one retry when upstream answers 401.                          *)
(*                                                                         *)
(* The requests are coroutines of one event loop: what they do between two *)
(* awaits is one step.  Time is counted in ticks, each as long as a        *)
(* request may take; every time is kept as the ticks that remain.          *)
(***************************************************************************)
EXTENDS Integers, Sequences, FiniteSets

CONSTANTS
    Callers,    \* the process has up to so many requests at a time
    Lifetimes,  \* the values of expires_in
    Margin,     \* a token is given up so long before it expires: 60 s
    MinUse      \* but used for so long in any case: 60 s

ASSUME CallersAssumption == Callers \in Nat \ {0}
ASSUME TimesAssumption ==
    Lifetimes \subseteq Nat \ {0} /\ Margin \in Nat /\ MinUse \in Nat \ {0}

\* The margin is as long as a renewal and a request: 30 s each, at most.
ASSUME MarginAssumption == Margin >= 2

Caller == 1 .. Callers
Nobody == 0

\* The tokens that some request or the provider knows at one time.  An id is
\* used again once nobody knows its token any more.
TokenId == 1 .. (2 * Callers + 1)
NoToken == 0

VARIABLES
    token, usable,  \* OAuthTokenProvider._token, and the ticks to _expires_at
    holder, queue,  \* OAuthTokenProvider._lock
    call,           \* the requests
    left            \* upstream: the ticks a token is good for, or Revoked

Revoked == -1

provider == <<token, usable>>
lock == <<holder, queue>>
vars == <<provider, lock, call, left>>

\* age: ticks since the HTTP request was sent.  tok: the token it carries.
\* rejected: the token of the first attempt, once that was answered 401.
IdleCall == [phase |-> "idle", age |-> 0, tok |-> NoToken, rejected |-> NoToken]

-----------------------------------------------------------------------------
(* OAuthTokenProvider *)

Usable == token # NoToken /\ usable > 0

Sent(tok, rejected) ==
    [phase |-> "sent", age |-> 0, tok |-> tok, rejected |-> rejected]
Waiting(rejected) ==
    [phase |-> "waiting", age |-> 0, tok |-> NoToken, rejected |-> rejected]
Posting(rejected) ==
    [phase |-> "posting", age |-> 0, tok |-> NoToken, rejected |-> rejected]

\* A slip: the lock is taken, and the token renewed without another look.
HasTokenNever == FALSE

\* The second look at the token, under the lock.
HasToken == Usable

\* Who is first in the queue takes the free lock.
Enter(c) ==
    /\ holder = Nobody /\ queue # <<>> /\ c = Head(queue)
    /\ queue' = Tail(queue)
    /\ IF HasToken
       THEN /\ call' = [call EXCEPT ![c] = Sent(token, call[c].rejected)]
            /\ holder' = holder
       ELSE /\ call' = [call EXCEPT ![c] = Posting(call[c].rejected)]
            /\ holder' = c
    /\ UNCHANGED <<provider, left>>

\* A slip: the margin is forgotten.
UsableForWholeLife(life) == life

\* _expires_at, from the moment the reply is here.
UsableFor(life) == IF life - Margin > MinUse THEN life - Margin ELSE MinUse

Known == {token} \cup {call[c].tok : c \in Caller} \cup {call[c].rejected : c \in Caller}

\* The POST is answered: upstream issued the token at some time since it was sent.
Renewed(c, life, since) ==
    /\ call[c].phase = "posting"
    /\ since <= call[c].age
    /\ \E id \in TokenId \ Known :
        /\ \A other \in TokenId \ Known : id <= other
        /\ token' = id
        /\ left' = [left EXCEPT ![id] = IF life > since THEN life - since ELSE 0]
        /\ call' = [call EXCEPT ![c] = Sent(id, call[c].rejected)]
    /\ usable' = UsableFor(life)
    /\ holder' = Nobody
    /\ UNCHANGED queue

\* A slip: the lock is not released.
ReleaseNever == holder

\* Leaving `async with self._lock` on an exception.
Release == Nobody

\* The POST fails or its answer holds no token.
RenewFails(c) ==
    /\ call[c].phase = "posting"
    /\ call' = [call EXCEPT ![c] = IdleCall]
    /\ holder' = Release
    /\ UNCHANGED <<provider, queue, left>>

-----------------------------------------------------------------------------
(* StalzoneClient._authenticated_get *)

\* A request starts, with the token at hand or in the queue for one.
Call(c) ==
    /\ call[c].phase = "idle"
    /\ IF Usable
       THEN /\ call' = [call EXCEPT ![c] = Sent(token, NoToken)]
            /\ UNCHANGED queue
       ELSE /\ call' = [call EXCEPT ![c] = Waiting(NoToken)]
            /\ queue' = Append(queue, c)
    /\ UNCHANGED <<provider, holder, left>>

\* The answer is here, whatever it is but 401.
Answered(c) ==
    /\ call[c].phase = "sent"
    /\ left[call[c].tok] > 0
    /\ call' = [call EXCEPT ![c] = IdleCall]
    /\ UNCHANGED <<provider, lock, left>>

\* The request times out or the connection breaks.
Breaks(c) ==
    /\ call[c].phase = "sent"
    /\ call' = [call EXCEPT ![c] = IdleCall]
    /\ UNCHANGED <<provider, lock, left>>

\* A slip: the token is kept.
InvalidateNothing == UNCHANGED provider

\* OAuthTokenProvider.invalidate
Invalidate == token' = NoToken /\ usable' = 0

\* The first 401: the provider's token, whichever it is by now, is dropped, and
\* since there is none the request waits for the lock.
Rejected(c) ==
    /\ call[c].phase = "sent" /\ call[c].rejected = NoToken
    /\ left[call[c].tok] <= 0
    /\ Invalidate
    /\ call' = [call EXCEPT ![c] = Waiting(call[c].tok)]
    /\ queue' = Append(queue, c)
    /\ UNCHANGED <<holder, left>>

\* The second 401 is an error like any other.
RejectedAgain(c) ==
    /\ call[c].phase = "sent" /\ call[c].rejected # NoToken
    /\ left[call[c].tok] <= 0
    /\ call' = [call EXCEPT ![c] = IdleCall]
    /\ UNCHANGED <<provider, lock, left>>

-----------------------------------------------------------------------------
(* The world. *)

\* Upstream does not accept the token any more.
Revoke(id) ==
    /\ id \in Known /\ left[id] > 0
    /\ left' = [left EXCEPT ![id] = Revoked]
    /\ UNCHANGED <<provider, lock, call>>

\* A slip: a request never times out.
InTimeAlways(c) == TRUE

\* An HTTP request has been out for less than its timeout.
InTime(c) == call[c].age < 1

Older(request) == [request EXCEPT !.age = @ + 1]

\* Time passes while every coroutine waits for something, and none for an
\* answer for longer than its timeout.  A token nobody knows is forgotten.
Tick ==
    /\ holder = Nobody => queue = <<>>
    /\ \A c \in Caller : call[c].phase \in {"sent", "posting"} => InTime(c)
    /\ usable' = IF usable > 0 THEN usable - 1 ELSE 0
    /\ left' = [id \in TokenId |-> IF id \notin Known THEN 0
                                  ELSE IF left[id] > 0 THEN left[id] - 1 ELSE left[id]]
    /\ call' = [c \in Caller |-> IF call[c].phase \in {"sent", "posting"}
                                 THEN Older(call[c]) ELSE call[c]]
    /\ UNCHANGED <<token, lock>>

-----------------------------------------------------------------------------
(* Specification. *)

Init ==
    /\ token = NoToken /\ usable = 0
    /\ holder = Nobody /\ queue = <<>>
    /\ call = [c \in Caller |-> IdleCall]
    /\ left = [id \in TokenId |-> 0]

Renew(c) == \E life \in Lifetimes, since \in 0 .. 1 : Renewed(c, life, since)

Reply(c) ==
    Renew(c) \/ RenewFails(c) \/ Answered(c) \/ Breaks(c) \/ Rejected(c) \/ RejectedAgain(c)

Next ==
    \/ \E c \in Caller : Call(c) \/ Enter(c) \/ Reply(c)
    \/ \E id \in TokenId : Revoke(id)
    \/ Tick

Spec == Init /\ [][Next]_vars

\* Every HTTP request is answered or breaks, and the event loop wakes the first
\* in the queue of a free lock.
Fairness == \A c \in Caller : WF_vars(Enter(c)) /\ WF_vars(Reply(c))
FairSpec == Spec /\ Fairness

-----------------------------------------------------------------------------
(* Properties. *)

\* The kinds of value the variables hold; no HTTP request outlives its timeout.
TypeOK ==
    /\ token \in TokenId \cup {NoToken} /\ usable \in Nat
    /\ holder \in Caller \cup {Nobody}
    /\ queue \in Seq(Caller)
    /\ call \in [Caller -> [phase : {"idle", "waiting", "posting", "sent"}, age : 0 .. 1,
                            tok : TokenId \cup {NoToken}, rejected : TokenId \cup {NoToken}]]
    /\ left \in [TokenId -> Nat \cup {Revoked}]

\* While a request renews the token there is none that could be used, and
\* nobody else renews it: requests that find the token gone at the same time,
\* or are answered 401 together, do not each ask for one (stalzone.py get_token
\* looks again under the lock).
RenewsOnlyWhatIsGone ==
    \A c \in Caller : call[c].phase = "posting" => holder = c /\ ~Usable

\* The second attempt of a request carries another token than the first one,
\* though a renewal or other rejections were under way (stalzone.py
\* _authenticated_get).
RetryCarriesAnotherToken ==
    \A c \in Caller : call[c].phase = "sent" => call[c].tok # call[c].rejected

\* A token does not expire while a request carries it, when tokens live as long
\* as the margin and the minimal use together: a 401 means a revoked token.
TokenOutlivesRequest ==
    (\A life \in Lifetimes : life >= Margin + MinUse) =>
        \A c \in Caller : call[c].phase = "sent" => left[call[c].tok] # 0

\* Every request ends, however renewals fail and tokens are revoked.
EveryCallEnds == \A c \in Caller : call[c].phase # "idle" ~> call[c].phase = "idle"

=============================================================================
