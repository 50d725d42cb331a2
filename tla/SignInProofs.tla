---- MODULE SignInProofs ----
(***************************************************************************)
(* Theorems about SignIn: for any callers over one jar, any accounts,      *)
(* retries and nonces, a login that runs alone is not refused for its      *)
(* nonce, and a key is minted for the account that signed in last.         *)
(***************************************************************************)
EXTENDS SignIn, TLAPS

Steps == InLogin \cup InMint \cup Resting
Idle == Resting \cup {"has nonce"}

(* What TypeOK says of one caller. *)
Placed(c) ==
  IF step[c] \in Idle THEN out[c] = NoRequest /\ reply[c] = NoReply ELSE out[c] \in Requests

---------------------------------------------------------------------------
(* What the steps have in common *)

(* A request that is prepared finds its caller without one, and without an *)
(* answer.                                                                 *)
LEMMA PrepareTyped ==
  ASSUME TypeOK, NEW c \in Callers, step[c] \in Idle,
         NEW what \in {"nonce", "login", "mint"}, NEW token \in Tokens \cup {NoToken},
         NEW waits \in Steps \ Idle, Prepare(c, what, waits, token), UNCHANGED reply
  PROVE  /\ step' \in [Callers -> Steps]
         /\ out' \in [Callers -> Requests \cup {NoRequest}]
         /\ \A d \in Callers : Placed(d)'
         /\ step'[c] = waits /\ reply[c] = NoReply
         /\ out'[c] = [client |-> c, what |-> what, token |-> token,
                       cookies |-> jar, attempt |-> 0]
         /\ \A d \in Callers \ {c} : step'[d] = step[d] /\ out'[d] = out[d]
<1> DEFINE r == [client |-> c, what |-> what, token |-> token, cookies |-> jar, attempt |-> 0]
<1>1. r \in Requests
  BY DEF TypeOK, Requests
<1>2. out' = [out EXCEPT ![c] = r] /\ step' = [step EXCEPT ![c] = waits]
  BY DEF Prepare, Cookies
<1> HIDE DEF r
<1>3. /\ step' \in [Callers -> Steps] /\ out' \in [Callers -> Requests \cup {NoRequest}]
      /\ step'[c] = waits /\ out'[c] = r
      /\ \A d \in Callers \ {c} : step'[d] = step[d] /\ out'[d] = out[d]
  BY <1>1, <1>2 DEF TypeOK, Steps
<1>4. \A d \in Callers : Placed(d)
  BY DEF TypeOK, Placed, Idle
<1>5. \A d \in Callers : Placed(d)'
  BY <1>1, <1>3, <1>4 DEF Placed
<1> QED BY <1>3, <1>4, <1>5 DEF Placed, r

(* A call that ends leaves nothing of itself. *)
LEMMA EndTyped ==
  ASSUME TypeOK, NEW c \in Callers, NEW how \in Idle, End(c, how)
  PROVE  /\ step' \in [Callers -> Steps]
         /\ out' \in [Callers -> Requests \cup {NoRequest}]
         /\ reply' \in [Callers -> Replies]
         /\ \A d \in Callers : Placed(d)'
         /\ step'[c] = how /\ out'[c] = NoRequest /\ reply'[c] = NoReply
         /\ \A d \in Callers \ {c} :
              step'[d] = step[d] /\ out'[d] = out[d] /\ reply'[d] = reply[d]
<1>1. /\ step' = [step EXCEPT ![c] = how]
      /\ out' = [out EXCEPT ![c] = NoRequest]
      /\ reply' = [reply EXCEPT ![c] = NoReply]
  BY DEF End
<1>2. NoReply \in Replies /\ how \in Steps
  BY DEF Replies, Idle, Steps, InLogin
<1>3. /\ step' \in [Callers -> Steps] /\ out' \in [Callers -> Requests \cup {NoRequest}]
      /\ reply' \in [Callers -> Replies]
      /\ step'[c] = how /\ out'[c] = NoRequest /\ reply'[c] = NoReply
      /\ \A d \in Callers \ {c} :
           step'[d] = step[d] /\ out'[d] = out[d] /\ reply'[d] = reply[d]
  BY <1>1, <1>2 DEF TypeOK, Steps
<1>4. \A d \in Callers : Placed(d)
  BY DEF TypeOK, Placed, Idle
<1>5. \A d \in Callers : Placed(d)'
  BY <1>3, <1>4 DEF Placed
<1> QED BY <1>3, <1>5

(* An answer keeps its shape, and only a caller that waits has one. *)
LEMMA AnswerTyped ==
  ASSUME TypeOK, NEW r, r.what \in {"nonce", "login", "mint"}, NEW a,
         \A c \in Callers : out[c] = r => a \in Replies,
         Answer(r, a), UNCHANGED <<step, out>>
  PROVE  /\ reply' \in [Callers -> Replies]
         /\ \A d \in Callers : Placed(d)'
         /\ \A d \in Callers : reply'[d] = reply[d] \/ (reply'[d] = a /\ out[d] = r)
<1>1. \A d \in Callers : Placed(d)
  BY DEF TypeOK, Placed, Idle
<1>2. r # NoRequest
  BY DEF NoRequest
<1>3. CASE out[r.client] = r
  <2>1. reply' = [reply EXCEPT ![r.client] = a]
    BY <1>3 DEF Answer
  <2>2. reply' \in [Callers -> Replies]
    BY <1>3, <2>1 DEF TypeOK
  <2>3. \A d \in Callers : reply'[d] = reply[d] \/ (reply'[d] = a /\ out[d] = r)
    BY <1>3, <2>1 DEF TypeOK
  <2>4. \A d \in Callers : Placed(d)'
    BY <1>1, <1>2, <2>3 DEF Placed
  <2> QED BY <2>2, <2>3, <2>4
<1>4. CASE out[r.client] # r
  <2>1. reply' = reply
    BY <1>4 DEF Answer
  <2> QED BY <1>1, <2>1 DEF TypeOK, Placed
<1> QED BY <1>3, <1>4

---------------------------------------------------------------------------
(* Type correctness *)

TypedRest ==
  /\ jar \in Jars /\ issued \in Nat
  /\ nonce \in [Callers -> Nat]
  /\ key \in [Callers -> Accounts \cup {Nobody}]
  /\ why \in [Callers -> {"none", "cookie", "signature", "spent", "expired", "nobody"}]

Typed ==
  /\ TypedRest
  /\ step \in [Callers -> Steps]
  /\ out \in [Callers -> Requests \cup {NoRequest}]
  /\ reply \in [Callers -> Replies]
  /\ \A c \in Callers : Placed(c)

(* The type invariant, as what it says of each caller and the rest. *)
LEMMA TypeParts == TypeOK <=> Typed
BY DEF TypeOK, Typed, TypedRest, Placed, Idle, Steps

LEMMA TypePartsNext == TypeOK' <=> Typed'
BY TypeParts, PTL

(* SIWEMessage.Token: a token of the signer's own. *)
LEMMA TokenTyped ==
  ASSUME NEW account \in Accounts, NEW n \in Nat
  PROVE  LET token == SignSIWE(account, NewSIWEMessage(account, n))
         IN  /\ token \in Tokens /\ Genuine(token)
             /\ token.fields.address = account /\ token.fields.nonce = n
BY DEF SignSIWE, NewSIWEMessage, Tokens, Text, Sign, Genuine

(* What the jar holds after an answer. *)
LEMMA SetCookiesTyped ==
  ASSUME jar \in Jars, NEW cookies \in Jars, SetCookies(cookies)
  PROVE  /\ jar' \in Jars
         /\ jar'.nonce = IF cookies.nonce = NoNonce THEN jar.nonce ELSE cookies.nonce
         /\ jar'.session = IF cookies.session = Nobody THEN jar.session ELSE cookies.session
BY DEF SetCookies, Jars

Reasons == {"cookie", "signature", "spent", "expired", "nobody"}

(* What the server answers a request. *)
Says(r, a) ==
  \/ r.what = "nonce" /\ a = [status |-> "nonce", nonce |-> issued + 1]
  \/ r.what = "login" /\ a = [status |-> "session", account |-> r.token.fields.address]
  \/ /\ r.what = "mint" /\ r.cookies.session # Nobody
     /\ a = [status |-> "key", account |-> r.cookies.session]
  \/ \E reason \in Reasons :
       /\ a = [status |-> "refused", why |-> reason]
       /\ r.what \in {"login", "mint"}
       /\ reason = "cookie" => r.what = "login" /\ r.cookies.nonce # r.token.fields.nonce
       /\ reason = "signature" => r.what = "login" /\ ~Genuine(r.token)

(* The server answers what Says lists, and nothing else. *)
LEMMA ServeAnswers ==
  ASSUME TypeOK, NEW r \in wire, Serve(r)
  PROVE  /\ r.what \in {"nonce", "login", "mint"}
         /\ issued' \in Nat
         /\ \E a : Answer(r, a) /\ Says(r, a)
<1>1. CASE ServeNonce(r)
  <2> DEFINE a == [status |-> "nonce", nonce |-> issued + 1]
  <2>1. Answer(r, a) /\ r.what = "nonce" /\ issued' = issued + 1
    BY <1>1 DEF ServeNonce
  <2>2. Says(r, a)
    BY <2>1, Zenon DEF Says
  <2> HIDE DEF a
  <2>3. issued \in Nat /\ issued' = issued + 1
    BY <2>1 DEF TypeOK
  <2>4. issued' \in Nat
    BY <2>3
  <2> QED BY <2>1, <2>2, <2>4
<1>2. CASE ServeLogin(r)
  <2>1. r.what = "login" /\ issued' \in Nat
    BY <1>2 DEF ServeLogin, TypeOK
  <2>2. CASE Answer(r, [status |-> "session", account |-> r.token.fields.address])
    BY <2>1, <2>2 DEF Says
  <2>3. CASE \E reason \in {"cookie", "signature", "spent", "expired"} :
               /\ Refuse(r, reason)
               /\ reason = "cookie" => r.cookies.nonce # r.token.fields.nonce
               /\ reason = "signature" => ~Genuine(r.token)
    <3>1. PICK reason \in {"cookie", "signature", "spent", "expired"} :
               /\ Refuse(r, reason)
               /\ reason = "cookie" => r.cookies.nonce # r.token.fields.nonce
               /\ reason = "signature" => ~Genuine(r.token)
      BY <2>3
    <3> DEFINE a == [status |-> "refused", why |-> reason]
    <3>2. Answer(r, a)
      BY <3>1 DEF Refuse
    <3>3. Says(r, a)
      BY <2>1, <3>1 DEF Says, Reasons
    <3> HIDE DEF a
    <3> QED BY <2>1, <3>2, <3>3
  <2> QED BY <1>2, <2>2, <2>3 DEF ServeLogin
<1>3. CASE ServeMint(r)
  <2>1. r.what = "mint" /\ issued' \in Nat
    BY <1>3 DEF ServeMint, TypeOK
  <2>2. CASE r.cookies.session = Nobody
    <3> DEFINE a == [status |-> "refused", why |-> "nobody"]
    <3>1. Answer(r, a)
      BY <1>3, <2>2 DEF ServeMint, Refuse
    <3>2. Says(r, a)
      BY <2>1 DEF Says, Reasons
    <3> HIDE DEF a
    <3> QED BY <2>1, <3>1, <3>2
  <2>3. CASE r.cookies.session # Nobody
    <3> DEFINE a == [status |-> "key", account |-> r.cookies.session]
    <3>1. Answer(r, a)
      BY <1>3, <2>3 DEF ServeMint
    <3>2. Says(r, a)
      BY <2>1, <2>3 DEF Says
    <3> HIDE DEF a
    <3> QED BY <2>1, <3>1, <3>2
  <2> QED BY <2>2, <2>3
<1> QED BY <1>1, <1>2, <1>3 DEF Serve

(* The answers that have the shape of one. *)
LEMMA RepliesHold ==
  /\ \A n \in Nat \ {NoNonce} : [status |-> "nonce", nonce |-> n] \in Replies
  /\ \A x \in Accounts : [status |-> "session", account |-> x] \in Replies
  /\ \A x \in Accounts : [status |-> "key", account |-> x] \in Replies
  /\ \A reason \in Reasons : [status |-> "refused", why |-> reason] \in Replies
BY DEF Replies, Reasons

(* What is read from an answer. *)
LEMMA SaidNonce ==
  ASSUME NEW a \in Replies, a.status = "nonce" PROVE a.nonce \in Nat /\ a.nonce # NoNonce
BY DEF Replies, NoReply

LEMMA SaidAccount ==
  ASSUME NEW a \in Replies, a.status \in {"session", "key"} PROVE a.account \in Accounts
BY DEF Replies, NoReply

LEMMA SaidWhy ==
  ASSUME NEW a \in Replies, a.status = "refused" PROVE a.why \in Reasons
BY DEF Replies, NoReply, Reasons

(* An answer that finds its caller has the shape of one. *)
LEMMA SaidTyped ==
  ASSUME TypeOK, NEW c \in Callers, out[c].what \in {"nonce", "login", "mint"},
         OwnToken(c), NEW a, Says(out[c], a)
  PROVE  a \in Replies
<1>0. out[c] \in Requests \cup {NoRequest}
  BY DEF TypeOK
<1>1. out[c] \in Requests
  BY <1>0 DEF NoRequest
<1>2. out[c].what = "login" => out[c].token.fields.address \in Accounts
  BY SignInAssumption DEF OwnToken
<1>3. out[c].cookies.session \in Accounts \cup {Nobody}
  BY <1>1 DEF Requests, Jars
<1>4. issued + 1 \in Nat \ {NoNonce}
  <2>1. issued \in Nat
    BY DEF TypeOK
  <2> QED BY <2>1 DEF NoNonce
<1>5. CASE a = [status |-> "nonce", nonce |-> issued + 1]
  BY <1>4, <1>5, RepliesHold, Zenon
<1>6. CASE /\ out[c].what = "login"
           /\ a = [status |-> "session", account |-> out[c].token.fields.address]
  BY <1>2, <1>6, RepliesHold, Zenon
<1>7. CASE /\ out[c].cookies.session # Nobody
           /\ a = [status |-> "key", account |-> out[c].cookies.session]
  <2>1. out[c].cookies.session \in Accounts
    BY <1>3, <1>7
  <2> QED BY <1>7, <2>1, RepliesHold, Zenon
<1>8. CASE \E reason \in Reasons : a = [status |-> "refused", why |-> reason]
  BY <1>8, RepliesHold, Zenon
<1> QED BY <1>5, <1>6, <1>7, <1>8, Zenon DEF Says

(* A repeated attempt is the same request. *)
LEMMA RetryRequests ==
  ASSUME NEW r \in Requests
  PROVE  LET again == [r EXCEPT !.attempt = r.attempt + 1]
         IN  /\ again \in Requests
             /\ again.what = r.what /\ again.token = r.token /\ again.cookies = r.cookies
BY DEF Requests

Busy == {"nonce sent", "login sent", "mint sent"}

(* Where a caller has a request, and where it has none. *)
LEMMA Strings ==
  /\ Resting \subseteq Idle /\ Idle \subseteq Steps /\ "has nonce" \in Idle
  /\ {"nonce waits", "login waits", "mint waits"} \subseteq Steps \ Idle
  /\ Busy \subseteq Steps \ Idle /\ DOMAIN Sent = {"nonce waits", "login waits", "mint waits"}
  /\ \A waits \in DOMAIN Sent : Sent[waits] \in Busy
BY DEF Resting, Idle, Steps, InLogin, InMint, Busy, Sent

(* A step of a caller keeps the type invariant. *)
LEMMA StepTyped ==
  ASSUME TypeOK, NEW c \in Callers, OwnToken(c), Login(c) \/ MintAPIKey(c) \/ Step(c)
  PROVE  TypeOK'
<1> USE Strings
<1>0. Typed
  BY TypeParts
<1> USE <1>0, TypePartsNext DEF Typed
<1>1. CASE Login(c)
  <2>1. step[c] \in Idle /\ Prepare(c, "nonce", "nonce waits", NoToken) /\ UNCHANGED reply
    BY <1>1 DEF Login
  <2>2. /\ step' \in [Callers -> Steps] /\ out' \in [Callers -> Requests \cup {NoRequest}]
        /\ \A d \in Callers : Placed(d)'
    BY <2>1, PrepareTyped
  <2>3. TypedRest'
    BY <1>1 DEF Login, TypedRest
  <2>4. reply' \in [Callers -> Replies]
    BY <2>1
  <2> QED BY <2>2, <2>3, <2>4
<1>2. CASE MintAPIKey(c)
  <2>1. step[c] \in Idle /\ Prepare(c, "mint", "mint waits", NoToken) /\ UNCHANGED reply
    BY <1>2 DEF MintAPIKey, Resting
  <2>2. /\ step' \in [Callers -> Steps] /\ out' \in [Callers -> Requests \cup {NoRequest}]
        /\ \A d \in Callers : Placed(d)'
    BY <2>1, PrepareTyped
  <2>3. TypedRest'
    BY <1>2 DEF MintAPIKey, TypedRest
  <2>4. reply' \in [Callers -> Replies]
    BY <2>1
  <2> QED BY <2>2, <2>3, <2>4
<1>3. CASE Present(c)
  <2> DEFINE token == SignSIWE(signer[c], NewSIWEMessage(signer[c], nonce[c]))
  <2>1. step[c] \in Idle /\ Prepare(c, "login", "login waits", token) /\ UNCHANGED reply
    BY <1>3 DEF Present
  <2>2. signer[c] \in Accounts /\ nonce[c] \in Nat
    BY SignInAssumption DEF TypedRest
  <2>3. token \in Tokens
    BY <2>2, TokenTyped
  <2> HIDE DEF token
  <2>4. /\ step' \in [Callers -> Steps] /\ out' \in [Callers -> Requests \cup {NoRequest}]
        /\ \A d \in Callers : Placed(d)'
    BY <2>1, <2>3, PrepareTyped
  <2>5. TypedRest'
    BY <1>3 DEF Present, TypedRest, NoNonce
  <2>6. reply' \in [Callers -> Replies]
    BY <2>1
  <2> QED BY <2>4, <2>5, <2>6
<1>4. CASE PresentFails(c) \/ PaceCut(c) \/ GiveUp(c)
  <2>1. End(c, "failed") /\ "failed" \in Idle
    BY <1>4 DEF PresentFails, PaceCut, GiveUp, Resting
  <2>2. /\ UNCHANGED <<jar, issued, key, why>>
        /\ nonce' = nonce \/ nonce' = [nonce EXCEPT ![c] = NoNonce]
    BY <1>4 DEF PresentFails, PaceCut, GiveUp
  <2>3. nonce' \in [Callers -> Nat]
    <3>1. nonce \in [Callers -> Nat] /\ NoNonce \in Nat
      BY DEF TypedRest, NoNonce
    <3> QED BY <2>2, <3>1
  <2>4. TypedRest'
    BY <2>2, <2>3 DEF TypedRest
  <2> QED BY <2>1, <2>4, EndTyped
<1>5. CASE Send(c)
  <2>1. /\ step[c] \in DOMAIN Sent /\ step' = [step EXCEPT ![c] = Sent[step[c]]]
        /\ UNCHANGED <<out, reply>>
    BY <1>5 DEF Send
  <2>2. TypedRest'
    BY <1>5 DEF Send, TypedRest
  <2>3. step' \in [Callers -> Steps]
    BY <2>1
  <2>4. \A d \in Callers : Placed(d)'
    BY <2>1 DEF Placed
  <2> QED BY <2>1, <2>2, <2>3, <2>4
<1>6. CASE Retry(c)
  <2>1. /\ step[c] \in Busy /\ UNCHANGED step
        /\ out' = [out EXCEPT ![c] = [out[c] EXCEPT !.attempt = out[c].attempt + 1]]
        /\ reply' = [reply EXCEPT ![c] = NoReply]
    BY <1>6 DEF Retry, Busy
  <2>2. out[c] \in Requests
    BY <2>1 DEF Placed
  <2>3. [out[c] EXCEPT !.attempt = out[c].attempt + 1] \in Requests
    BY <2>2, RetryRequests
  <2>4. NoReply \in Replies
    BY DEF Replies
  <2>5. out' \in [Callers -> Requests \cup {NoRequest}] /\ reply' \in [Callers -> Replies]
    BY <2>1, <2>3, <2>4
  <2>6. \A d \in Callers : Placed(d)'
    BY <2>1, <2>3 DEF Placed
  <2>7. TypedRest'
    BY <1>6 DEF Retry, TypedRest
  <2> QED BY <2>1, <2>5, <2>6, <2>7
<1>7. CASE TakeNonce(c)
  <2>1. \E how \in {"has nonce", "failed"} : End(c, how)
    BY <1>7 DEF TakeNonce
  <2>2. reply[c] \in Replies /\ reply[c].status = "nonce"
    BY <1>7 DEF TakeNonce
  <2>3. reply[c].nonce \in Nat
    BY <2>2, SaidNonce
  <2>4. [Empty EXCEPT !.nonce = reply[c].nonce] \in Jars
    BY <2>3 DEF Empty, Jars
  <2>5. jar' \in Jars
    BY <1>7, <2>4, SetCookiesTyped DEF TypedRest, TakeNonce
  <2>6. /\ UNCHANGED <<issued, key, why>>
        /\ nonce' = nonce \/ nonce' = [nonce EXCEPT ![c] = reply[c].nonce]
    BY <1>7 DEF TakeNonce
  <2>7. TypedRest'
    BY <2>3, <2>5, <2>6 DEF TypedRest
  <2> QED BY <2>1, <2>7, EndTyped DEF Resting
<1>8. CASE TakeSession(c)
  <2>1. \E how \in {"in", "failed"} : End(c, how)
    BY <1>8 DEF TakeSession
  <2>2. reply[c] \in Replies /\ reply[c].status = "session"
    BY <1>8 DEF TakeSession
  <2>3. reply[c].account \in Accounts
    BY <2>2, SaidAccount
  <2>4. [Empty EXCEPT !.session = reply[c].account] \in Jars
    BY <2>3 DEF Empty, Jars, NoNonce
  <2>5. jar' \in Jars
    BY <1>8, <2>4, SetCookiesTyped DEF TypedRest, TakeSession
  <2>6. TypedRest'
    BY <1>8, <2>5 DEF TypedRest, TakeSession
  <2> QED BY <2>1, <2>6, EndTyped DEF Resting
<1>9. CASE TakeKey(c)
  <2>1. \E how \in {"minted", "failed"} : End(c, how)
    BY <1>9 DEF TakeKey
  <2>2. reply[c] \in Replies /\ reply[c].status = "key"
    BY <1>9 DEF TakeKey
  <2>3. reply[c].account \in Accounts
    BY <2>2, SaidAccount
  <2>4. /\ UNCHANGED <<jar, issued, nonce, why>>
        /\ key' = key \/ key' = [key EXCEPT ![c] = reply[c].account]
    BY <1>9 DEF TakeKey
  <2>5. TypedRest'
    BY <2>3, <2>4 DEF TypedRest
  <2> QED BY <2>1, <2>5, EndTyped DEF Resting
<1>10. CASE Refused(c)
  <2>1. End(c, "failed") /\ "failed" \in Idle
    BY <1>10 DEF Refused, Resting
  <2>2. reply[c] \in Replies /\ reply[c].status = "refused"
    BY <1>10 DEF Refused
  <2>3. reply[c].why \in Reasons
    BY <2>2, SaidWhy
  <2>4. UNCHANGED <<jar, issued, nonce, key>> /\ why' = [why EXCEPT ![c] = reply[c].why]
    BY <1>10 DEF Refused
  <2>5. TypedRest'
    BY <2>3, <2>4 DEF TypedRest, Reasons
  <2> QED BY <2>1, <2>5, EndTyped
<1> QED BY <1>1, <1>2, <1>3, <1>4, <1>5, <1>6, <1>7, <1>8, <1>9, <1>10 DEF Step

(* So does an answer of the server. *)
LEMMA ServeTyped ==
  ASSUME TypeOK, \A c \in Callers : OwnToken(c), NEW r \in wire, Serve(r)
  PROVE  TypeOK'
<1>0. Typed
  BY TypeParts
<1> USE <1>0, TypePartsNext DEF Typed
<1>1. /\ r.what \in {"nonce", "login", "mint"} /\ issued' \in Nat
      /\ \E a : Answer(r, a) /\ Says(r, a)
  BY ServeAnswers
<1>2. PICK a : Answer(r, a) /\ Says(r, a)
  BY <1>1
<1>3. UNCHANGED <<jar, step, nonce, out, key, why, logins, crowded, displaced>>
  BY DEF Serve
<1>4. \A c \in Callers : out[c] = r => a \in Replies
  BY <1>1, <1>2, SaidTyped
<1>5. reply' \in [Callers -> Replies] /\ \A d \in Callers : Placed(d)'
  BY <1>1, <1>2, <1>3, <1>4, AnswerTyped
<1>6. TypedRest'
  BY <1>1, <1>3 DEF TypedRest
<1> QED BY <1>3, <1>5, <1>6
---------------------------------------------------------------------------
(* Whose session, whose nonce *)

(* The invariant holds before anyone signs in. *)
LEMMA Initially == Init => IInv
<1> SUFFICES ASSUME Init PROVE IInv
  OBVIOUS
<1>1. Empty \in Jars
  BY DEF Empty, Jars, NoNonce
<1>2. NoReply \in Replies
  BY DEF Replies
<1>3. TypedRest
  BY <1>1 DEF Init, TypedRest, NoNonce
<1>4. /\ step = [c \in Callers |-> "out"] /\ out = [c \in Callers |-> NoRequest]
      /\ reply = [c \in Callers |-> NoReply]
  BY DEF Init
<1>5. Typed
  BY <1>2, <1>3, <1>4, Strings DEF Typed, Placed, Idle, Resting
<1>6. ASSUME NEW c \in Callers PROVE OwnToken(c) /\ OwnSession(c) /\ OwnCookie(c)
  <2>1. /\ step[c] = "out" /\ out[c].what = "none" /\ reply[c].status = "none"
        /\ \A d \in Callers : step[d] = "out"
    BY <1>4 DEF NoRequest, NoReply
  <2>2. why[c] = "none"
    BY DEF Init
  <2>3. OwnToken(c) /\ OwnSession(c)
    BY <2>1 DEF OwnToken, OwnSession
  <2>4. OwnCookie(c)
    BY <2>1, <2>2 DEF OwnCookie, InLogin
  <2> QED BY <2>3, <2>4
<1> QED BY <1>5, <1>6, TypeParts DEF IInv

(* What a caller's step leaves as it was for another. *)
LEMMA OthersKeep ==
  ASSUME TypeOK, NEW c \in Callers, Login(c) \/ MintAPIKey(c) \/ Step(c),
         NEW d \in Callers \ {c}
  PROVE  /\ step'[d] = step[d] /\ out'[d] = out[d] /\ reply'[d] = reply[d]
         /\ nonce'[d] = nonce[d] /\ key'[d] = key[d] /\ why'[d] = why[d]
<1>1. Typed
  BY TypeParts
<1>2. CASE Login(c)
  BY <1>1, <1>2 DEF Typed, TypedRest, Login, Prepare
<1>3. CASE MintAPIKey(c)
  BY <1>1, <1>3 DEF Typed, TypedRest, MintAPIKey, Prepare
<1>4. CASE Present(c)
  BY <1>1, <1>4 DEF Typed, TypedRest, Present, Prepare
<1>5. CASE PresentFails(c) \/ PaceCut(c) \/ GiveUp(c)
  BY <1>1, <1>5 DEF Typed, TypedRest, PresentFails, PaceCut, GiveUp, End
<1>6. CASE Send(c)
  BY <1>1, <1>6 DEF Typed, TypedRest, Send
<1>7. CASE Retry(c)
  BY <1>1, <1>7 DEF Typed, TypedRest, Retry
<1>8. CASE TakeNonce(c)
  BY <1>1, <1>8 DEF Typed, TypedRest, TakeNonce, End
<1>9. CASE TakeSession(c)
  BY <1>1, <1>9 DEF Typed, TypedRest, TakeSession, End
<1>10. CASE TakeKey(c)
  BY <1>1, <1>10 DEF Typed, TypedRest, TakeKey, End
<1>11. CASE Refused(c)
  BY <1>1, <1>11 DEF Typed, TypedRest, Refused, End
<1> QED BY <1>2, <1>3, <1>4, <1>5, <1>6, <1>7, <1>8, <1>9, <1>10, <1>11 DEF Step

Ends(c) ==
  \/ PresentFails(c) \/ PaceCut(c) \/ GiveUp(c)
  \/ TakeNonce(c) \/ TakeSession(c) \/ TakeKey(c) \/ Refused(c)

(* A step of a caller: a request prepared, sent, sent again, or ended. *)
LEMMA StepKinds ==
  ASSUME NEW c \in Callers, Login(c) \/ MintAPIKey(c) \/ Step(c)
  PROVE  \/ Login(c) \/ MintAPIKey(c) \/ Present(c) \/ Send(c) \/ Retry(c) \/ Ends(c)
BY DEF Step, Ends

(* What a call that ends leaves, by how it ended. *)
LEMMA EndsClean ==
  ASSUME TypeOK, NEW c \in Callers, Ends(c)
  PROVE  /\ step'[c] \in {"has nonce", "in", "minted", "failed"}
         /\ out'[c] = NoRequest /\ reply'[c] = NoReply
         /\ step'[c] = "has nonce" => TakeNonce(c)
         /\ step'[c] = "in" => TakeSession(c)
         /\ step'[c] = "minted" => TakeKey(c)
<1>1. Typed
  BY TypeParts
<1>2. CASE PresentFails(c) \/ PaceCut(c) \/ GiveUp(c) \/ Refused(c)
  BY <1>1, <1>2 DEF Typed, PresentFails, PaceCut, GiveUp, Refused, End
<1>3. CASE TakeNonce(c)
  BY <1>1, <1>3 DEF Typed, TakeNonce, End
<1>4. CASE TakeSession(c)
  BY <1>1, <1>4 DEF Typed, TakeSession, End
<1>5. CASE TakeKey(c)
  BY <1>1, <1>5 DEF Typed, TakeKey, End
<1> QED BY <1>2, <1>3, <1>4, <1>5 DEF Ends

(* The steps in which a request waits for the limiter. *)
LEMMA Waits ==
  /\ "nonce waits" \in Steps \ Idle /\ "login waits" \in Steps \ Idle
  /\ "mint waits" \in Steps \ Idle
BY DEF Resting, Idle, Steps, InLogin, InMint

(* Neither a request nor an answer. *)
LEMMA Nothing == NoReply.status = "none" /\ NoRequest.what = "none"
BY DEF NoReply, NoRequest

(* A request is prepared with the jar's cookies. *)
LEMMA LoginPrepares ==
  ASSUME TypeOK, NEW c \in Callers, Login(c)
  PROVE  /\ reply'[c] = NoReply /\ step'[c] = "nonce waits" /\ out'[c].what = "nonce"
         /\ why'[c] = "none"
<1>1. step[c] \in Idle /\ Prepare(c, "nonce", "nonce waits", NoToken) /\ UNCHANGED reply
  BY Strings DEF Login
<1>2. step'[c] = "nonce waits" /\ reply[c] = NoReply
  BY <1>1, Waits, PrepareTyped
<1>3. out'[c] = [client |-> c, what |-> "nonce", token |-> NoToken,
                 cookies |-> jar, attempt |-> 0]
  BY <1>1, Waits, PrepareTyped
<1>4. out'[c].what = "nonce"
  BY <1>3
<1>5. why'[c] = "none"
  BY TypeParts DEF Login, Typed, TypedRest
<1> QED BY <1>1, <1>2, <1>4, <1>5

LEMMA MintPrepares ==
  ASSUME TypeOK, NEW c \in Callers, MintAPIKey(c)
  PROVE  /\ reply'[c] = NoReply /\ step'[c] = "mint waits" /\ out'[c].what = "mint"
         /\ out'[c].cookies = jar
<1>1. step[c] \in Idle /\ Prepare(c, "mint", "mint waits", NoToken) /\ UNCHANGED reply
  BY DEF MintAPIKey, Idle, Resting
<1>2. step'[c] = "mint waits" /\ reply[c] = NoReply
  BY <1>1, Waits, PrepareTyped
<1>3. out'[c] = [client |-> c, what |-> "mint", token |-> NoToken,
                 cookies |-> jar, attempt |-> 0]
  BY <1>1, Waits, PrepareTyped
<1>4. out'[c].what = "mint" /\ out'[c].cookies = jar
  BY <1>3
<1> QED BY <1>1, <1>2, <1>4

LEMMA PresentPrepares ==
  ASSUME TypeOK, NEW c \in Callers, Present(c)
  PROVE  /\ reply'[c] = NoReply /\ step'[c] = "login waits" /\ out'[c].what = "login"
         /\ out'[c].cookies = jar /\ out'[c].token.fields.nonce = nonce[c]
         /\ out'[c].token.fields.address = signer[c] /\ Genuine(out'[c].token)
<1> DEFINE token == SignSIWE(signer[c], NewSIWEMessage(signer[c], nonce[c]))
<1>1. step[c] \in Idle /\ Prepare(c, "login", "login waits", token) /\ UNCHANGED reply
  BY DEF Present, Idle
<1>2. signer[c] \in Accounts /\ nonce[c] \in Nat
  BY SignInAssumption, TypeParts DEF Typed, TypedRest
<1>3. /\ token \in Tokens /\ Genuine(token)
      /\ token.fields.address = signer[c] /\ token.fields.nonce = nonce[c]
  BY <1>2, TokenTyped
<1> HIDE DEF token
<1>4. step'[c] = "login waits" /\ reply[c] = NoReply
  BY <1>1, <1>3, Waits, PrepareTyped
<1>5. out'[c] = [client |-> c, what |-> "login", token |-> token,
                 cookies |-> jar, attempt |-> 0]
  BY <1>1, <1>3, Waits, PrepareTyped
<1>6. out'[c].what = "login" /\ out'[c].cookies = jar /\ out'[c].token = token
  BY <1>5
<1> QED BY <1>1, <1>3, <1>4, <1>6

(* A request sent, or sent again, is the one that was prepared. *)
LEMMA SentAsPrepared ==
  ASSUME TypeOK, NEW c \in Callers, Send(c) \/ Retry(c)
  PROVE  /\ step'[c] \in Busy /\ step[c] \notin Idle
         /\ step'[c] \in InLogin => step[c] \in InLogin
         /\ out'[c].what = out[c].what /\ out'[c].token = out[c].token
         /\ out'[c].cookies = out[c].cookies
         /\ reply'[c] \in {reply[c], NoReply}
         /\ UNCHANGED <<jar, nonce, key, why, crowded, displaced>>
<1>1. Typed
  BY TypeParts
<1>2. CASE Send(c)
  BY <1>1, <1>2, Strings DEF Typed, Send, Sent, Busy, InLogin, Idle, Resting
<1>3. CASE Retry(c)
  <2>1. step[c] \in Busy /\ step[c] \notin Idle
    BY <1>3, Strings DEF Retry, Busy
  <2>2. out[c] \in Requests
    BY <1>1, <2>1 DEF Typed, Placed
  <2>3. /\ out' = [out EXCEPT ![c] = [out[c] EXCEPT !.attempt = out[c].attempt + 1]]
        /\ reply' = [reply EXCEPT ![c] = NoReply] /\ UNCHANGED step
        /\ UNCHANGED <<jar, nonce, key, why, crowded, displaced>>
    BY <1>3 DEF Retry
  <2>4. /\ out'[c] = [out[c] EXCEPT !.attempt = out[c].attempt + 1]
        /\ reply'[c] = NoReply /\ step'[c] = step[c]
    BY <1>1, <2>3 DEF Typed
  <2>5. /\ out'[c].what = out[c].what /\ out'[c].token = out[c].token
        /\ out'[c].cookies = out[c].cookies
    BY <2>2, <2>4, RetryRequests
  <2> QED BY <2>1, <2>3, <2>4, <2>5
<1> QED BY <1>2, <1>3

(* The jar's nonce changes when a nonce is taken, and its session when a   *)
(* login is accepted, which displaces the callers of other accounts.       *)
LEMMA JarSteps ==
  ASSUME TypeOK, NEW c \in Callers, Login(c) \/ MintAPIKey(c) \/ Step(c)
  PROVE  /\ \/ TakeNonce(c) /\ jar'.nonce = reply[c].nonce
            \/ jar'.nonce = jar.nonce
         /\ \/ /\ TakeSession(c) /\ jar'.session = reply[c].account
               /\ displaced' = (displaced \ {c})
                               \cup {d \in Callers \ {c} : signer[d] # reply[c].account}
            \/ /\ jar'.session = jar.session
               /\ displaced' = displaced \/ (Login(c) /\ displaced' = displaced \ {c})
         /\ crowded' = crowded \/ Login(c)
<1>1. Typed
  BY TypeParts
<1>2. CASE TakeNonce(c)
  <2>1. reply[c] \in Replies /\ reply[c].status = "nonce" /\ jar \in Jars
    BY <1>1, <1>2 DEF Typed, TypedRest, TakeNonce
  <2>2. reply[c].nonce \in Nat /\ reply[c].nonce # NoNonce
    BY <2>1, SaidNonce
  <2> DEFINE cookies == [Empty EXCEPT !.nonce = reply[c].nonce]
  <2>3. cookies \in Jars /\ cookies.nonce = reply[c].nonce /\ cookies.session = Nobody
    BY <2>2 DEF Empty, Jars
  <2>4. SetCookies(cookies) /\ UNCHANGED <<crowded, displaced>>
    BY <1>2 DEF TakeNonce
  <2> HIDE DEF cookies
  <2>5. jar'.nonce = reply[c].nonce /\ jar'.session = jar.session
    BY <2>1, <2>2, <2>3, <2>4, SetCookiesTyped
  <2> QED BY <1>2, <2>4, <2>5
<1>3. CASE TakeSession(c)
  <2>1. reply[c] \in Replies /\ reply[c].status = "session" /\ jar \in Jars
    BY <1>1, <1>3 DEF Typed, TypedRest, TakeSession
  <2>2. reply[c].account \in Accounts /\ reply[c].account # Nobody
    BY <2>1, SaidAccount, SignInAssumption
  <2> DEFINE cookies == [Empty EXCEPT !.session = reply[c].account]
  <2>3. cookies \in Jars /\ cookies.nonce = NoNonce /\ cookies.session = reply[c].account
    BY <2>2 DEF Empty, Jars, NoNonce
  <2>4. SetCookies(cookies) /\ UNCHANGED crowded
    BY <1>3 DEF TakeSession
  <2> HIDE DEF cookies
  <2>5. jar'.nonce = jar.nonce /\ jar'.session = reply[c].account
    BY <2>1, <2>2, <2>3, <2>4, SetCookiesTyped
  <2> QED BY <1>3, <2>4, <2>5 DEF TakeSession
<1>4. CASE Login(c)
  BY <1>4 DEF Login
<1>5. CASE MintAPIKey(c) \/ Present(c) \/ Send(c) \/ Retry(c)
  BY <1>5 DEF MintAPIKey, Present, Send, Retry
<1>6. CASE PresentFails(c) \/ PaceCut(c) \/ GiveUp(c) \/ TakeKey(c) \/ Refused(c)
  BY <1>6 DEF PresentFails, PaceCut, GiveUp, TakeKey, Refused
<1> QED BY <1>2, <1>3, <1>4, <1>5, <1>6 DEF Step

(* Of another caller only the jar and the histories change.                *)
LEMMA OthersOwn ==
  ASSUME IInv, NEW c \in Callers, Login(c) \/ MintAPIKey(c) \/ Step(c), NEW d \in Callers \ {c}
  PROVE  OwnToken(d)' /\ OwnSession(d)' /\ OwnCookie(d)'
<1>0. Typed /\ TypeOK
  BY TypeParts DEF IInv
<1>1. /\ step'[d] = step[d] /\ out'[d] = out[d] /\ reply'[d] = reply[d]
      /\ nonce'[d] = nonce[d] /\ key'[d] = key[d] /\ why'[d] = why[d]
      /\ \A e \in Callers \ {c} : step'[e] = step[e]
  BY <1>0, OthersKeep
<1>2. OwnToken(d) /\ OwnSession(d) /\ OwnCookie(d) /\ OwnSession(c)
  BY DEF IInv
<1>3. /\ \/ TakeNonce(c) /\ jar'.nonce = reply[c].nonce
         \/ jar'.nonce = jar.nonce
      /\ \/ /\ TakeSession(c) /\ jar'.session = reply[c].account
            /\ displaced' = (displaced \ {c})
                            \cup {e \in Callers \ {c} : signer[e] # reply[c].account}
         \/ /\ jar'.session = jar.session
            /\ displaced' = displaced \/ (Login(c) /\ displaced' = displaced \ {c})
      /\ crowded' = crowded \/ Login(c)
  BY <1>0, JarSteps
<1>4. OwnToken(d)'
  BY <1>1, <1>2 DEF OwnToken
<1>5. OwnSession(d)'
  <2>1. CASE jar'.session = jar.session /\ (d \in displaced' <=> d \in displaced)
    BY <1>1, <1>2, <2>1 DEF OwnSession
  <2>2. CASE jar'.session = signer[d] /\ (d \in displaced' <=> d \in displaced)
    BY <1>1, <1>2, <2>2 DEF OwnSession
  <2>3. CASE d \in displaced'
    BY <1>1, <1>2, <2>3 DEF OwnSession
  <2> QED BY <1>3, <2>1, <2>2, <2>3
<1>6. OwnCookie(d)'
  <2>1. CASE d \in crowded'
    BY <2>1 DEF OwnCookie
  <2>2. CASE d \notin crowded'
    <3>1. d \notin crowded /\ (Login(c) => step[d] \notin InLogin)
      BY <1>3, <2>2 DEF Login
    <3>2. \A e \in Callers \ {d} : ~(step[d] \in InLogin /\ step[e] \in InLogin)
      BY <1>2, <3>1 DEF OwnCookie
    <3>3. step'[c] \in InLogin => step[c] \in InLogin \/ Login(c)
      <4>1. CASE Login(c)
        BY <4>1
      <4>2. CASE MintAPIKey(c) \/ Present(c)
        BY <1>0, <4>2, MintPrepares DEF Present, InLogin
      <4>3. CASE Send(c) \/ Retry(c)
        BY <1>0, <4>3, SentAsPrepared
      <4>4. CASE Ends(c)
        BY <1>0, <4>4, EndsClean DEF TakeNonce, InLogin
      <4> QED BY <4>1, <4>2, <4>3, <4>4, StepKinds
    <3>4. \A e \in Callers \ {d} : ~(step'[d] \in InLogin /\ step'[e] \in InLogin)
      BY <1>1, <3>1, <3>2, <3>3
    <3>5. step'[d] = "has nonce" => jar'.nonce = nonce'[d]
      <4>1. TakeNonce(c) => step[c] \in InLogin
        BY DEF TakeNonce, InLogin
      <4>2. step[d] = "has nonce" => step[d] \in InLogin /\ jar.nonce = nonce[d]
        BY <1>2, <3>1 DEF OwnCookie, InLogin
      <4> QED BY <1>1, <1>3, <3>2, <4>1, <4>2
    <3> QED BY <1>1, <1>2, <3>1, <3>4, <3>5 DEF OwnCookie
  <2> QED BY <2>1, <2>2
<1> QED BY <1>4, <1>5, <1>6

(* A caller's own step: its cookie goes from the jar to its request, and   *)
(* the answer's to the jar.                                                *)
LEMMA StepOwn ==
  ASSUME IInv, NEW c \in Callers, Login(c) \/ MintAPIKey(c) \/ Step(c)
  PROVE  OwnToken(c)' /\ OwnSession(c)' /\ OwnCookie(c)'
<1>0. Typed /\ TypeOK
  BY TypeParts DEF IInv
<1>1. /\ OwnToken(c) /\ OwnSession(c) /\ OwnCookie(c)
      /\ \A d \in Callers \ {c} : step'[d] = step[d]
  BY <1>0, OthersKeep DEF IInv
<1>2. CASE Login(c)
  <2>1. /\ step'[c] = "nonce waits" /\ out'[c].what = "nonce" /\ reply'[c] = NoReply
        /\ why'[c] = "none"
    BY <1>0, <1>2, LoginPrepares
  <2>2. reply'[c].status = "none"
    BY <2>1, Nothing
  <2>3. c \notin crowded' => \A d \in Callers \ {c} : step[d] \notin InLogin
    BY <1>2 DEF Login
  <2>4. OwnCookie(c)'
    BY <1>1, <2>1, <2>2, <2>3 DEF OwnCookie
  <2>5. OwnToken(c)' /\ OwnSession(c)'
    BY <2>1, <2>2 DEF OwnToken, OwnSession
  <2> QED BY <2>4, <2>5
<1>3. CASE MintAPIKey(c)
  <2>1. /\ step'[c] = "mint waits" /\ out'[c].what = "mint" /\ reply'[c] = NoReply
        /\ out'[c].cookies = jar
    BY <1>0, <1>3, MintPrepares
  <2>2. /\ reply'[c].status = "none" /\ step[c] = "in"
        /\ UNCHANGED <<why, crowded, displaced>>
    BY <1>3, <2>1, Nothing DEF MintAPIKey
  <2>3. OwnCookie(c)'
    BY <1>1, <2>1, <2>2 DEF OwnCookie, InLogin
  <2>4. OwnToken(c)' /\ OwnSession(c)'
    BY <1>1, <2>1, <2>2 DEF OwnToken, OwnSession
  <2> QED BY <2>3, <2>4
<1>4. CASE Present(c)
  <2>1. /\ step'[c] = "login waits" /\ out'[c].what = "login" /\ reply'[c] = NoReply
        /\ out'[c].cookies = jar /\ out'[c].token.fields.nonce = nonce[c]
        /\ out'[c].token.fields.address = signer[c] /\ Genuine(out'[c].token)
    BY <1>0, <1>4, PresentPrepares
  <2>2. /\ reply'[c].status = "none" /\ step[c] = "has nonce" /\ step[c] \in InLogin
        /\ UNCHANGED <<why, crowded, displaced>>
    BY <1>4, <2>1, Nothing DEF Present, InLogin
  <2>3. OwnCookie(c)'
    BY <1>1, <2>1, <2>2 DEF OwnCookie
  <2>4. OwnToken(c)'
    BY <2>1 DEF OwnToken, Genuine
  <2>5. OwnSession(c)'
    BY <2>1, <2>2 DEF OwnSession
  <2> QED BY <2>3, <2>4, <2>5
<1>5. CASE Send(c) \/ Retry(c)
  <2>1. /\ step'[c] \in Busy /\ (step'[c] \in InLogin => step[c] \in InLogin)
        /\ out'[c].what = out[c].what /\ out'[c].token = out[c].token
        /\ out'[c].cookies = out[c].cookies /\ reply'[c] \in {reply[c], NoReply}
        /\ UNCHANGED <<jar, nonce, key, why, crowded, displaced>>
    BY <1>0, <1>5, SentAsPrepared
  <2>2. /\ step'[c] \notin {"has nonce", "in", "minted"}
        /\ reply'[c] = reply[c] \/ reply'[c].status = "none"
    BY <2>1, Nothing DEF Busy
  <2>3. OwnCookie(c)'
    BY <1>1, <2>1, <2>2 DEF OwnCookie
  <2>4. OwnToken(c)'
    BY <1>1, <2>1 DEF OwnToken, Genuine
  <2>5. OwnSession(c)'
    BY <1>1, <2>1, <2>2 DEF OwnSession
  <2> QED BY <2>3, <2>4, <2>5
<1>6. CASE Ends(c)
  <2>1. /\ step'[c] \in {"has nonce", "in", "minted", "failed"}
        /\ out'[c] = NoRequest /\ reply'[c] = NoReply
        /\ step'[c] = "has nonce" => TakeNonce(c)
        /\ step'[c] = "in" => TakeSession(c)
        /\ step'[c] = "minted" => TakeKey(c)
    BY <1>0, <1>6, EndsClean
  <2>2. out'[c].what = "none" /\ reply'[c].status = "none"
    BY <2>1, Nothing
  <2>3. OwnToken(c)'
    BY <2>2 DEF OwnToken
  <2>4. step'[c] = "in" => jar'.session = signer[c]
    <3>1. TakeSession(c) => reply[c].account = signer[c]
      BY <1>1 DEF TakeSession, OwnSession
    <3>2. TakeSession(c) => jar'.session = reply[c].account
      <4> SUFFICES ASSUME TakeSession(c) PROVE jar'.session = reply[c].account
        OBVIOUS
      <4>1. reply[c] \in Replies /\ reply[c].status = "session" /\ jar \in Jars
        BY <1>0 DEF Typed, TypedRest, TakeSession
      <4>2. reply[c].account \in Accounts /\ reply[c].account # Nobody
        BY <4>1, SaidAccount, SignInAssumption
      <4> QED BY <4>2 DEF TakeSession, SetCookies, Empty
    <3> QED BY <2>1, <3>1, <3>2
  <2>5. step'[c] = "minted" /\ c \notin displaced' => key'[c] = signer[c]
    <3>1. TakeKey(c) => step'[c] # "minted" \/ key'[c] = reply[c].account
      BY <1>0 DEF TakeKey, End, Typed, TypedRest
    <3>2. TakeKey(c) => reply[c].status = "key" /\ displaced' = displaced
      BY DEF TakeKey
    <3> QED BY <1>1, <2>1, <3>1, <3>2 DEF OwnSession
  <2>6. OwnSession(c)'
    BY <2>2, <2>4, <2>5 DEF OwnSession
  <2>7. crowded' = crowded
    BY <1>6 DEF Ends, PresentFails, PaceCut, GiveUp, TakeNonce, TakeSession, TakeKey, Refused
  <2>8. step'[c] = "has nonce" => step[c] \in InLogin /\ jar'.nonce = nonce'[c]
    <3> SUFFICES ASSUME step'[c] = "has nonce"
                 PROVE  step[c] \in InLogin /\ jar'.nonce = nonce'[c]
      OBVIOUS
    <3>1. TakeNonce(c)
      BY <2>1
    <3>2. /\ step[c] = "nonce sent" /\ reply[c] \in Replies /\ reply[c].status = "nonce"
          /\ jar \in Jars
      BY <1>0, <3>1 DEF TakeNonce, Typed, TypedRest
    <3>3. nonce'[c] = reply[c].nonce
      BY <1>0, <3>1 DEF TakeNonce, End, Typed, TypedRest
    <3>4. reply[c].nonce # NoNonce
      BY <3>2, SaidNonce
    <3>5. jar'.nonce = reply[c].nonce
      BY <3>1, <3>4 DEF TakeNonce, SetCookies, Empty
    <3> QED BY <3>2, <3>3, <3>5 DEF InLogin
  <2>9. c \in crowded \/ why'[c] \notin {"cookie", "signature"}
    <3>1. CASE Refused(c)
      <4>1. why'[c] = reply[c].why /\ reply[c].status = "refused"
        BY <1>0, <3>1 DEF Refused, Typed, TypedRest
      <4> QED BY <1>1, <4>1 DEF OwnCookie
    <3>2. CASE ~Refused(c)
      <4>1. why' = why
        BY <1>6, <3>2 DEF Ends, PresentFails, PaceCut, GiveUp, TakeNonce, TakeSession, TakeKey
      <4> QED BY <1>1, <4>1 DEF OwnCookie
    <3> QED BY <3>1, <3>2
  <2>10. step'[c] \in InLogin => step'[c] = "has nonce"
    BY <2>1 DEF InLogin
  <2>11. OwnCookie(c)'
    BY <1>1, <2>2, <2>7, <2>8, <2>9, <2>10 DEF OwnCookie
  <2> QED BY <2>3, <2>6, <2>11
<1> QED BY <1>2, <1>3, <1>4, <1>5, <1>6, StepKinds

(* What an answer says of the request it answers.                          *)
LEMMA SaysReads ==
  ASSUME NEW r, NEW a, Says(r, a)
  PROVE  /\ a.status = "session" =>
              r.what = "login" /\ a.account = r.token.fields.address
         /\ a.status = "key" => r.what = "mint" /\ a.account = r.cookies.session
         /\ a.status = "refused" /\ a.why = "cookie" =>
              r.what = "login" /\ r.cookies.nonce # r.token.fields.nonce
         /\ a.status = "refused" /\ a.why = "signature" =>
              r.what = "login" /\ ~Genuine(r.token)
<1>1. CASE a = [status |-> "nonce", nonce |-> issued + 1]
  <2>1. a.status = "nonce"
    BY <1>1
  <2> QED BY <2>1
<1>2. CASE /\ r.what = "login"
           /\ a = [status |-> "session", account |-> r.token.fields.address]
  <2>1. a.status = "session" /\ a.account = r.token.fields.address
    BY <1>2
  <2> QED BY <1>2, <2>1
<1>3. CASE r.what = "mint" /\ a = [status |-> "key", account |-> r.cookies.session]
  <2>1. a.status = "key" /\ a.account = r.cookies.session
    BY <1>3
  <2> QED BY <1>3, <2>1
<1>4. CASE \E reason \in Reasons :
             /\ a = [status |-> "refused", why |-> reason]
             /\ reason = "cookie" => r.what = "login" /\ r.cookies.nonce # r.token.fields.nonce
             /\ reason = "signature" => r.what = "login" /\ ~Genuine(r.token)
  <2>1. PICK reason \in Reasons :
             /\ a = [status |-> "refused", why |-> reason]
             /\ reason = "cookie" => r.what = "login" /\ r.cookies.nonce # r.token.fields.nonce
             /\ reason = "signature" => r.what = "login" /\ ~Genuine(r.token)
    BY <1>4
  <2>2. a.status = "refused" /\ a.why = reason
    BY <2>1
  <2> QED BY <2>1, <2>2
<1> QED BY <1>1, <1>2, <1>3, <1>4, Zenon DEF Says

(* The server answers a login with its signer, a mint with its session,    *)
(* and refuses a nonce only for want of its cookie.                        *)
LEMMA ServeOwn ==
  ASSUME IInv, NEW r \in wire, Serve(r), NEW d \in Callers
  PROVE  OwnToken(d)' /\ OwnSession(d)' /\ OwnCookie(d)'
<1>0. TypeOK /\ OwnToken(d) /\ OwnSession(d) /\ OwnCookie(d) /\ \A c \in Callers : OwnToken(c)
  BY DEF IInv
<1>1. r.what \in {"nonce", "login", "mint"} /\ \E a : Answer(r, a) /\ Says(r, a)
  BY <1>0, ServeAnswers
<1>2. PICK a : Answer(r, a) /\ Says(r, a)
  BY <1>1
<1>3. UNCHANGED <<jar, step, nonce, out, key, why, crowded, displaced>>
  BY DEF Serve
<1>4. \A c \in Callers : out[c] = r => a \in Replies
  BY <1>0, <1>1, <1>2, SaidTyped
<1>5. reply'[d] = reply[d] \/ (reply'[d] = a /\ out[d] = r)
  BY <1>0, <1>1, <1>2, <1>3, <1>4, AnswerTyped
<1>6. CASE reply'[d] = reply[d]
  BY <1>0, <1>3, <1>6 DEF OwnToken, OwnSession, OwnCookie, Genuine
<1>7. CASE reply'[d] = a /\ out[d] = r
  <2>1. /\ a.status = "session" => r.what = "login" /\ a.account = r.token.fields.address
        /\ a.status = "key" => r.what = "mint" /\ a.account = r.cookies.session
        /\ a.status = "refused" /\ a.why = "cookie" =>
             r.what = "login" /\ r.cookies.nonce # r.token.fields.nonce
        /\ a.status = "refused" /\ a.why = "signature" => r.what = "login" /\ ~Genuine(r.token)
    BY <1>2, SaysReads
  <2>2. OwnToken(d)'
    BY <1>0, <1>3 DEF OwnToken, Genuine
  <2>3. OwnSession(d)'
    BY <1>0, <1>3, <1>7, <2>1 DEF OwnToken, OwnSession
  <2>4. OwnCookie(d)'
    BY <1>0, <1>3, <1>7, <2>1 DEF OwnToken, OwnCookie
  <2> QED BY <2>2, <2>3, <2>4
<1> QED BY <1>5, <1>6, <1>7

(* The invariant is inductive.                                             *)
LEMMA Inductive == IInv /\ [Next]_vars => IInv'
<1> SUFFICES ASSUME IInv, [Next]_vars PROVE IInv'
  OBVIOUS
<1>0. TypeOK /\ \A c \in Callers : OwnToken(c)
  BY DEF IInv
<1>1. ASSUME NEW c \in Callers, Login(c) \/ MintAPIKey(c) \/ Step(c) PROVE IInv'
  <2>1. TypeOK'
    BY <1>0, <1>1, StepTyped
  <2>2. \A d \in Callers : OwnToken(d)' /\ OwnSession(d)' /\ OwnCookie(d)'
    BY <1>1, StepOwn, OthersOwn
  <2> QED BY <2>1, <2>2 DEF IInv
<1>2. ASSUME NEW r \in wire, Serve(r) PROVE IInv'
  <2>1. TypeOK'
    BY <1>0, <1>2, ServeTyped
  <2>2. \A d \in Callers : OwnToken(d)' /\ OwnSession(d)' /\ OwnCookie(d)'
    BY <1>2, ServeOwn
  <2> QED BY <2>1, <2>2 DEF IInv
<1>3. CASE UNCHANGED vars
  <2>1. TypeOK'
    BY <1>0, <1>3 DEF TypeOK, vars
  <2>2. \A d \in Callers : OwnToken(d)' /\ OwnSession(d)' /\ OwnCookie(d)'
    BY <1>3 DEF IInv, vars, OwnToken, OwnSession, OwnCookie, Genuine
  <2> QED BY <2>1, <2>2 DEF IInv
<1> QED BY <1>1, <1>2, <1>3 DEF Next
---------------------------------------------------------------------------
(* The theorems *)

(* At every moment of every execution of Nonce, Login and MintAPIKey over  *)
(* a shared jar, whatever the network loses and however often a GET is     *)
(* sent again, the state has its shape, each caller presents a token of    *)
(* its own, and its nonce and its session are where the code left them.    *)
THEOREM Invariant == Spec => []IInv
BY Initially, Inductive, PTL DEF Spec

(* Login: one that no other login runs beside is never refused for its     *)
(* cookie or its signature (gamma/auth.go, siwe.go).                       *)
THEOREM SignedInAlone == Spec => []LoneLogin
<1>1. IInv => LoneLogin
  BY DEF IInv, OwnCookie, LoneLogin
<1> QED BY <1>1, Invariant, PTL

(* MintAPIKey: the key is for the caller's own account, unless another     *)
(* account signed in over the jar after it did (relayer/relayer.go).       *)
THEOREM MintedForOwner == Spec => []MintsOwn
<1>1. IInv => MintsOwn
  BY DEF IInv, OwnSession, MintsOwn
<1> QED BY <1>1, Invariant, PTL
====
