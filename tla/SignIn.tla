---- MODULE SignIn ----
(***************************************************************************)
(* Signing in with Ethereum: gamma.Client.Nonce and Login (gamma/auth.go), *)
(* the message and its bearer token (siwe.go), the session that reads the  *)
(* jar's cookies before it waits and stores an answer's after (session.go) *)
(* and relayer.Client.MintAPIKey (relayer/relayer.go), for callers that    *)
(* share one cookie jar.  The network delays and loses requests and        *)
(* answers; a GET, and the login is one, is sent again.                    *)
(***************************************************************************)
EXTENDS Naturals

CONSTANTS
  Callers,   \* goroutines that sign in over one jar
  Accounts,  \* externally owned accounts
  signer,    \* the account of each caller's signer
  Retries,   \* WithRetries: extra attempts of a GET
  MaxLogins, \* bound: logins of each caller
  MaxNonces  \* bound: nonces the server issues

Nobody == "nobody"

ASSUME SignInAssumption ==
  /\ signer \in [Callers -> Accounts] /\ Nobody \notin Accounts
  /\ Retries \in Nat /\ MaxLogins \in Nat /\ MaxNonces \in Nat

VARIABLES
  jar,       \* the cookies of the shared jar: a nonce's and a session's
  issued,    \* server: nonces issued
  spent,     \* server: nonces a login was accepted for
  wire,      \* requests on their way
  step,      \* what each caller is doing
  nonce,     \* the nonce each was given and has not signed for yet
  out,       \* the request each prepared or sent last
  reply,     \* the answer each has been sent and not read
  key,       \* the account of the key each minted
  why,       \* why each was refused last
  logins,    \* how many logins each has begun
  crowded,   \* history: callers another's login has run beside
  displaced  \* history: callers whose session another account's displaced

vars == <<jar, issued, spent, wire, step, nonce, out, reply, key, why,
          logins, crowded, displaced>>

NoNonce == 0
Empty == [nonce |-> NoNonce, session |-> Nobody]

NoToken == [token |-> "none"]
NoRequest == [what |-> "none"]
NoReply == [status |-> "none"]

(* Where Login and MintAPIKey are: the request waits for the limiter or    *)
(* has been sent.  Between calls a caller has not signed in, or has, or    *)
(* failed to, for want of an answer or refused, or has its key.            *)
InLogin == {"nonce waits", "nonce sent", "has nonce", "login waits", "login sent"}
InMint == {"mint waits", "mint sent"}
Resting == {"out", "in", "failed", "minted"}
---------------------------------------------------------------------------
(* The message and its token (siwe.go) *)

(* A signature can be made by its account's signer alone. *)
Sign(account, text) == [by |-> account, over |-> text]

(* String: the text names the account and the nonce. *)
Text(message) == <<message.address, message.nonce>>

NewSIWEMessage(address, n) == [address |-> address, nonce |-> n]

(* SignSIWE and Token: the fields, with a signature over the text they     *)
(* make.  A PersonalSigner signs the same, from the text.                  *)
SignSIWE(account, message) == [fields |-> message, signature |-> Sign(account, Text(message))]

(* The server rebuilds the text from the fields. *)
Genuine(token) == token.signature = Sign(token.fields.address, Text(token.fields))
---------------------------------------------------------------------------
Init ==
  /\ jar = Empty
  /\ issued = 0 /\ spent = {} /\ wire = {}
  /\ step = [c \in Callers |-> "out"]
  /\ nonce = [c \in Callers |-> NoNonce]
  /\ out = [c \in Callers |-> NoRequest]
  /\ reply = [c \in Callers |-> NoReply]
  /\ key = [c \in Callers |-> Nobody]
  /\ why = [c \in Callers |-> "none"]
  /\ logins = [c \in Callers |-> 0]
  /\ crowded = {} /\ displaced = {}

(* Mutant of Cookies: the request takes none. *)
CookiesNone == Empty

(* Do: the jar's cookies ride on the request. *)
Cookies == jar

(* Do builds the request and reads the cookies, before the limiter. *)
Prepare(c, what, waits, token) ==
  /\ out' = [out EXCEPT ![c] = [client |-> c, what |-> what, token |-> token,
                                cookies |-> Cookies, attempt |-> 0]]
  /\ step' = [step EXCEPT ![c] = waits]

(* A call ends.  A late request of its own shows nowhere any more. *)
End(c, how) ==
  /\ step' = [step EXCEPT ![c] = how]
  /\ out' = [out EXCEPT ![c] = NoRequest]
  /\ reply' = [reply EXCEPT ![c] = NoReply]
  /\ wire' = {r \in wire : r.client # c}

(* Login asks for a nonce. *)
Login(c) ==
  /\ step[c] \in Resting
  /\ logins[c] < MaxLogins
  /\ logins' = [logins EXCEPT ![c] = @ + 1]
  /\ LET others == {d \in Callers \ {c} : step[d] \in InLogin}
     IN  crowded' = (crowded \ {c}) \cup others \cup (IF others = {} THEN {} ELSE {c})
  /\ displaced' = displaced \ {c}
  /\ key' = [key EXCEPT ![c] = Nobody]
  /\ why' = [why EXCEPT ![c] = "none"]
  /\ Prepare(c, "nonce", "nonce waits", NoToken)
  /\ UNCHANGED <<jar, issued, spent, wire, nonce, reply>>

(* Login signs the message and makes the bearer token. *)
Present(c) ==
  /\ step[c] = "has nonce"
  /\ Prepare(c, "login", "login waits",
             SignSIWE(signer[c], NewSIWEMessage(signer[c], nonce[c])))
  /\ nonce' = [nonce EXCEPT ![c] = NoNonce]
  /\ UNCHANGED <<jar, issued, spent, wire, reply, key, why, logins, crowded, displaced>>

(* The signer makes no signature, or an unusable one. *)
PresentFails(c) ==
  /\ step[c] = "has nonce"
  /\ End(c, "failed")
  /\ nonce' = [nonce EXCEPT ![c] = NoNonce]
  /\ UNCHANGED <<jar, issued, spent, key, why, logins, crowded, displaced>>

MintAPIKey(c) ==
  /\ step[c] = "in"
  /\ Prepare(c, "mint", "mint waits", NoToken)
  /\ UNCHANGED <<jar, issued, spent, wire, nonce, reply, key, why, logins,
                 crowded, displaced>>

Sent == [waits \in {"nonce waits", "login waits", "mint waits"} |->
           IF waits = "nonce waits" THEN "nonce sent"
           ELSE IF waits = "login waits" THEN "login sent" ELSE "mint sent"]

(* The limiter lets the request go. *)
Send(c) ==
  /\ step[c] \in DOMAIN Sent
  /\ step' = [step EXCEPT ![c] = Sent[step[c]]]
  /\ wire' = wire \cup {out[c]}
  /\ UNCHANGED <<jar, issued, spent, nonce, out, reply, key, why, logins,
                 crowded, displaced>>

(* The caller's context ends in the wait. *)
PaceCut(c) ==
  /\ step[c] \in DOMAIN Sent
  /\ End(c, "failed")
  /\ UNCHANGED <<jar, issued, spent, nonce, key, why, logins, crowded, displaced>>

(* Only a GET is sent again. *)
ExtraAttempts(r) == IF r.what = "mint" THEN 0 ELSE Retries

(* Mutant of Retry: attempts are not counted. *)
RetryUncounted(c) ==
  /\ step[c] \in {"nonce sent", "login sent", "mint sent"}
  /\ out[c].attempt < ExtraAttempts(out[c])
  /\ wire' = wire \cup {out[c]}
  /\ reply' = [reply EXCEPT ![c] = NoReply]
  /\ UNCHANGED <<jar, issued, spent, step, nonce, out, key, why, logins, crowded, displaced>>

(* No answer comes, and the attempt is repeated as it was made.  A late    *)
(* login may still be accepted; the answer to another request is lost.     *)
Retry(c) ==
  /\ step[c] \in {"nonce sent", "login sent", "mint sent"}
  /\ out[c].attempt < ExtraAttempts(out[c])
  /\ out' = [out EXCEPT ![c].attempt = @ + 1]
  /\ wire' = {r \in wire : r # out[c] \/ r.what = "login"} \cup {out'[c]}
  /\ reply' = [reply EXCEPT ![c] = NoReply]
  /\ UNCHANGED <<jar, issued, spent, step, nonce, key, why, logins, crowded, displaced>>

(* No answer comes to the last attempt. *)
GiveUp(c) ==
  /\ step[c] \in {"nonce sent", "login sent", "mint sent"}
  /\ out[c].attempt >= ExtraAttempts(out[c])
  /\ End(c, "failed")
  /\ UNCHANGED <<jar, issued, spent, nonce, key, why, logins, crowded, displaced>>

(* Mutant of SetCookies: the session's cookie is kept where it is. *)
SetCookiesOnce(cookies) ==
  jar' = [nonce |-> IF cookies.nonce = NoNonce THEN jar.nonce ELSE cookies.nonce,
          session |-> IF jar.session # Nobody THEN jar.session ELSE cookies.session]

(* Do: the cookies an answer sets replace the jar's of the same name. *)
SetCookies(cookies) ==
  jar' = [nonce |-> IF cookies.nonce = NoNonce THEN jar.nonce ELSE cookies.nonce,
          session |-> IF cookies.session = Nobody THEN jar.session ELSE cookies.session]

(* Nonce: the cookie is stored, then the body is read, or cut short. *)
TakeNonce(c) ==
  /\ step[c] = "nonce sent" /\ reply[c].status = "nonce"
  /\ SetCookies([Empty EXCEPT !.nonce = reply[c].nonce])
  /\ \/ End(c, "has nonce") /\ nonce' = [nonce EXCEPT ![c] = reply[c].nonce]
     \/ End(c, "failed") /\ UNCHANGED nonce
  /\ UNCHANGED <<issued, spent, key, why, logins, crowded, displaced>>

(* Login: the session's cookie is stored, whatever becomes of the body. *)
TakeSession(c) ==
  /\ step[c] = "login sent" /\ reply[c].status = "session"
  /\ SetCookies([Empty EXCEPT !.session = reply[c].account])
  /\ displaced' = (displaced \ {c})
                  \cup {d \in Callers \ {c} : signer[d] # reply[c].account}
  /\ \E how \in {"in", "failed"} : End(c, how)
  /\ UNCHANGED <<issued, spent, nonce, key, why, logins, crowded>>

TakeKey(c) ==
  /\ step[c] = "mint sent" /\ reply[c].status = "key"
  /\ \/ End(c, "minted") /\ key' = [key EXCEPT ![c] = reply[c].account]
     \/ End(c, "failed") /\ UNCHANGED key
  /\ UNCHANGED <<jar, issued, spent, nonce, why, logins, crowded, displaced>>

Refused(c) ==
  /\ step[c] \in {"login sent", "mint sent"} /\ reply[c].status = "refused"
  /\ End(c, "failed")
  /\ why' = [why EXCEPT ![c] = reply[c].why]
  /\ UNCHANGED <<jar, issued, spent, nonce, key, logins, crowded, displaced>>
---------------------------------------------------------------------------
(* The server *)

Answer(r, a) == reply' = IF out[r.client] = r THEN [reply EXCEPT ![r.client] = a] ELSE reply
Refuse(r, reason) == Answer(r, [status |-> "refused", why |-> reason])

(* A nonce is bound to the cookie it comes with. *)
ServeNonce(r) ==
  /\ r.what = "nonce" /\ issued < MaxNonces
  /\ issued' = issued + 1
  /\ Answer(r, [status |-> "nonce", nonce |-> issued'])
  /\ UNCHANGED spent

(* "A nonce presented without its cookie is refused"; so is a token whose  *)
(* signature is another's or which has expired, and one may be that was    *)
(* accepted before.                                                        *)
ServeLogin(r) ==
  /\ r.what = "login"
  /\ \/ /\ r.cookies.nonce = r.token.fields.nonce /\ Genuine(r.token)
        /\ spent' = spent \cup {r.token.fields.nonce}
        /\ Answer(r, [status |-> "session", account |-> r.token.fields.address])
     \/ /\ UNCHANGED spent
        /\ \/ r.cookies.nonce # r.token.fields.nonce /\ Refuse(r, "cookie")
           \/ ~Genuine(r.token) /\ Refuse(r, "signature")
           \/ r.token.fields.nonce \in spent /\ Refuse(r, "spent")
           \/ Refuse(r, "expired")
  /\ UNCHANGED issued

(* A key is minted for the session's account. *)
ServeMint(r) ==
  /\ r.what = "mint"
  /\ IF r.cookies.session = Nobody
     THEN Refuse(r, "nobody")
     ELSE Answer(r, [status |-> "key", account |-> r.cookies.session])
  /\ UNCHANGED <<issued, spent>>

Serve(r) ==
  /\ wire' = wire \ {r}
  /\ ServeNonce(r) \/ ServeLogin(r) \/ ServeMint(r)
  /\ UNCHANGED <<jar, step, nonce, out, key, why, logins, crowded, displaced>>
---------------------------------------------------------------------------
Step(c) ==
  \/ Present(c) \/ PresentFails(c) \/ Send(c) \/ PaceCut(c) \/ Retry(c) \/ GiveUp(c)
  \/ TakeNonce(c) \/ TakeSession(c) \/ TakeKey(c) \/ Refused(c)

Next ==
  \/ \E c \in Callers : Login(c) \/ MintAPIKey(c) \/ Step(c)
  \/ \E r \in wire : Serve(r)

(* A call under way goes on: the limiter lets it go, and the http.Client   *)
(* ends an attempt that is not answered.                                   *)
Fairness == \A c \in Callers : WF_vars(Step(c))

Spec == Init /\ [][Next]_vars /\ Fairness
---------------------------------------------------------------------------
(* A login nobody else's has run beside is refused only because its token  *)
(* was too old, or had been accepted before by an answer that was lost:    *)
(* its nonce goes out with its own cookie, whatever earlier and failed     *)
(* logins left in the jar.                                                 *)
LoneLogin == \A c \in Callers : why[c] \in {"cookie", "signature"} => c \in crowded

(* A minted key is for the caller's own account, though logins of other    *)
(* accounts share its jar, unless one of them has signed in since it had.  *)
MintsOwn ==
  \A c \in Callers : step[c] = "minted" /\ c \notin displaced => key[c] = signer[c]

(* Every login ends, however often answers are lost. *)
LoginEnds == \A c \in Callers : step[c] \in InLogin ~> step[c] \in Resting
---------------------------------------------------------------------------
(* What the safety properties rest on, for the proofs. *)

Jars == [nonce : Nat, session : Accounts \cup {Nobody}]

Tokens == [fields : [address : Accounts, nonce : Nat],
           signature : [by : Accounts, over : Accounts \X Nat]]

Requests == [client : Callers, what : {"nonce", "login", "mint"},
             token : Tokens \cup {NoToken}, cookies : Jars, attempt : Nat]

Replies == {NoReply} \cup [status : {"nonce"}, nonce : Nat \ {NoNonce}]
           \cup [status : {"session", "key"}, account : Accounts]
           \cup [status : {"refused"}, why : {"cookie", "signature", "spent", "expired", "nobody"}]

(* The state keeps its shape: a caller has a request prepared, or sent,    *)
(* where it waits for the limiter or for an answer, and nowhere else.      *)
TypeOK ==
  /\ jar \in Jars /\ issued \in Nat
  /\ step \in [Callers -> InLogin \cup InMint \cup Resting]
  /\ nonce \in [Callers -> Nat]
  /\ out \in [Callers -> Requests \cup {NoRequest}]
  /\ reply \in [Callers -> Replies]
  /\ key \in [Callers -> Accounts \cup {Nobody}]
  /\ why \in [Callers -> {"none", "cookie", "signature", "spent", "expired", "nobody"}]
  /\ \A c \in Callers :
       IF step[c] \in Resting \cup {"has nonce"}
       THEN out[c] = NoRequest /\ reply[c] = NoReply
       ELSE out[c] \in Requests

(* The token a caller presents is its own. *)
OwnToken(c) ==
  out[c].what = "login" => out[c].token.fields.address = signer[c] /\ Genuine(out[c].token)

(* From its login to its key a caller that nobody displaced has its own    *)
(* session: in the jar, then on its request, then in the answer.           *)
OwnSession(c) ==
  /\ reply[c].status = "session" => reply[c].account = signer[c]
  /\ c \notin displaced =>
       /\ step[c] = "in" => jar.session = signer[c]
       /\ out[c].what = "mint" => out[c].cookies.session = signer[c]
       /\ reply[c].status = "key" => reply[c].account = signer[c]
       /\ step[c] = "minted" => key[c] = signer[c]

(* From its nonce to its answer a caller that signed in alone has the      *)
(* cookie its nonce is bound to.                                           *)
OwnCookie(c) ==
  \/ c \in crowded
  \/ /\ \A d \in Callers \ {c} : ~(step[c] \in InLogin /\ step[d] \in InLogin)
     /\ step[c] = "has nonce" => jar.nonce = nonce[c]
     /\ out[c].what = "login" => out[c].cookies.nonce = out[c].token.fields.nonce
     /\ reply[c].status = "refused" => reply[c].why \notin {"cookie", "signature"}
     /\ why[c] \notin {"cookie", "signature"}

(* The inductive invariant. *)
IInv == TypeOK /\ \A c \in Callers : OwnToken(c) /\ OwnSession(c) /\ OwnCookie(c)
====
