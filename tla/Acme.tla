-------------------------------- MODULE Acme --------------------------------
(***************************************************************************)
(* Certificates of the server's domain (acme/acme.c): one synchronisation  *)
(* at a time loads what is stored, makes an account and keys where there   *)
(* are none, orders a certificate, lets the authority (CA) look for a      *)
(* token on the server's own port 80, and hands the certificate to HTTPS.  *)
(* It may fail at every request and the server may crash at every step;    *)
(* the periodic worker starts it again and again.                          *)
(***************************************************************************)
EXTENDS Integers, FiniteSets

CONSTANTS
  None,
  Validity,    \* time for which a certificate is valid
  MaxTime,     \* bounds: time, keys made, orders made, failures and crashes
  MaxKeys, MaxOrders, MaxFailures

VARIABLES
  db,       \* the document of the domain: kid, akey, skey, cert
  pc,       \* where the synchronisation is, "idle" if _sync_pending is not set
  ctx,      \* struct acme: kid, akey, skey
  token,    \* _challenge_token
  https,    \* what the HTTPS server has: key and certificate
  first,    \* first_run
  up,       \* the process runs
  ca,       \* the authority: accounts, order, authorization, token, asking
  made,     \* keys and orders that were made so far
  time, failures

vars == <<db, pc, ctx, token, https, first, up, ca, made, time, failures>>

Key == 1..MaxKeys
Cert == [key : Key, from : 0..MaxTime, till : 0..(MaxTime + Validity)]

AcmeAssumption ==
  /\ {Validity, MaxTime, MaxKeys, MaxOrders, MaxFailures} \subseteq Nat
  /\ None \notin Key \union Cert \union [key : Key, cert : Cert]

NoCtx == [kid |-> None, akey |-> None, skey |-> None]

TypeOK ==
  /\ db \in [kid : Key \cup {None}, akey : Key \cup {None}, skey : Key \cup {None},
             cert : Cert \cup {None}]
  /\ pc \in {"idle", "load", "directory", "account", "order", "authorize", "activate",
             "await", "poll", "finalize", "issued", "certificate", "callback", "failed"}
  /\ ctx \in [kid : Key \cup {None}, akey : Key \cup {None}, skey : Key \cup {None}]
  /\ token \in 1..MaxOrders \cup {None}
  /\ https \in [key : Key, cert : Cert] \cup {None}
  /\ {first, up} \subseteq BOOLEAN
  /\ ca.accounts \subseteq Key /\ ca.order \in {"none", "pending", "ready", "valid", "invalid"}
  /\ made \in [keys : 0..MaxKeys, orders : 0..MaxOrders]
  /\ time \in 0..MaxTime /\ failures \in 0..MaxFailures

Init ==
  /\ db = [kid |-> None, akey |-> None, skey |-> None, cert |-> None]
  /\ pc = "idle" /\ ctx = NoCtx /\ token = None
  /\ https = None /\ first = TRUE /\ up = TRUE
  /\ ca = [accounts |-> {}, order |-> "none", authz |-> "none", token |-> None,
           asking |-> FALSE, key |-> None]
  /\ made = [keys |-> 0, orders |-> 0]
  /\ time = 0 /\ failures = 0

-----------------------------------------------------------------------------
Tick ==
  /\ time < MaxTime /\ time' = time + 1
  /\ UNCHANGED <<db, pc, ctx, token, https, first, up, ca, made, failures>>

\* A crash, or the end of a shut down server; it is started again.
Crash ==
  /\ up /\ failures < MaxFailures /\ failures' = failures + 1
  /\ up' = FALSE
  /\ UNCHANGED <<db, pc, ctx, token, https, first, ca, made, time>>

Restart ==
  /\ ~up /\ up' = TRUE
  /\ pc' = "idle" /\ ctx' = NoCtx /\ token' = None /\ https' = None /\ first' = TRUE
  /\ UNCHANGED <<db, ca, made, time, failures>>

At(s) == up /\ pc = s
Goto(s) == pc' = s
Keep == UNCHANGED <<https, first, up, time>>

\* acme_sync, from the periodic worker: one at a time.
Sync ==
  /\ At("idle") /\ Goto("load")
  /\ Keep /\ UNCHANGED <<db, ctx, token, ca, made, failures>>

IsDue == db.cert = None \/ time >= db.cert.till - (db.cert.till - db.cert.from) \div 3

\* _account_load: without an account nothing else is loaded.
\* Mutant: the domain's key is not.
LoadedAccount ==
  IF db.kid = None THEN NoCtx ELSE [kid |-> db.kid, akey |-> db.akey, skey |-> None]
Loaded ==
  IF db.kid = None THEN NoCtx ELSE [kid |-> db.kid, akey |-> db.akey, skey |-> db.skey]

Load ==
  /\ At("load") /\ ctx' = Loaded
  /\ Goto(IF db.kid = None \/ IsDue THEN "directory" ELSE "callback")
  /\ Keep /\ UNCHANGED <<db, token, ca, made, failures>>

\* _directory_load, _acme_ensure_key: a new key is stored at once.
Directory ==
  /\ At("directory")
  /\ IF ctx.akey # None THEN UNCHANGED <<db, ctx, made>>
     ELSE /\ made.keys < MaxKeys
          /\ made' = [made EXCEPT !.keys = @ + 1]
          /\ ctx' = [ctx EXCEPT !.akey = made'.keys]
          /\ db' = [db EXCEPT !.akey = made'.keys]
  /\ Goto(IF ctx.kid # None THEN "order" ELSE "account")
  /\ Keep /\ UNCHANGED <<token, ca, failures>>

\* _account_ensure: found by its key, or created.
Account ==
  /\ At("account")
  /\ ca' = [ca EXCEPT !.accounts = @ \cup {ctx.akey}]
  /\ ctx' = [ctx EXCEPT !.kid = ctx.akey]
  /\ db' = [db EXCEPT !.kid = ctx.akey]
  /\ Goto("order")
  /\ Keep /\ UNCHANGED <<token, made, failures>>

\* _order up to its first answer; the authority may remember an authorization.
Order ==
  /\ At("order") /\ made.orders < MaxOrders
  /\ ctx.skey = None => made.keys < MaxKeys
  /\ LET keys == IF ctx.skey = None THEN made.keys + 1 ELSE made.keys
         skey == IF ctx.skey = None THEN keys ELSE ctx.skey
         known == ca.authz = "valid"
     IN  /\ made' = [keys |-> keys, orders |-> made.orders + 1]
         /\ ctx' = [ctx EXCEPT !.skey = skey] /\ db' = [db EXCEPT !.skey = skey]
         /\ ca' = [ca EXCEPT !.order = IF known THEN "ready" ELSE "pending",
                             !.authz = IF known THEN "valid" ELSE "pending",
                             !.token = made'.orders, !.asking = FALSE, !.key = None]
         /\ Goto(IF known THEN "finalize" ELSE "authorize")
  /\ Keep /\ UNCHANGED <<token, failures>>

\* _authorize: the token is there before the challenge is activated.
\* Mutant: it is that of the order before, if there is one.
KeptToken == IF made.orders > 1 THEN made.orders - 1 ELSE ca.token
NewToken == ca.token

Authorize ==
  /\ At("authorize")
  /\ IF ca.authz = "pending" THEN token' = NewToken /\ Goto("activate")
     ELSE token' = None /\ Goto(IF ca.authz = "valid" THEN "poll" ELSE "failed")
  /\ Keep /\ UNCHANGED <<db, ctx, ca, made, failures>>

Activate ==
  /\ At("activate") /\ Goto("await")
  /\ ca' = [ca EXCEPT !.asking = TRUE]
  /\ Keep /\ UNCHANGED <<db, ctx, token, made, failures>>

\* The loop of _authorize; the token goes with it.
Await ==
  /\ At("await") /\ ca.authz # "pending" /\ token' = None
  /\ Goto(IF ca.authz = "valid" THEN "poll" ELSE "failed")
  /\ Keep /\ UNCHANGED <<db, ctx, ca, made, failures>>

\* _handler_challenge, asked by the authority: 200 with the body, 403, or a
\* redirection, unless the server is not reached.
Validate ==
  /\ ca.asking
  /\ \E reached \in BOOLEAN :
       /\ ca' = IF reached /\ up /\ token = ca.token
                THEN [ca EXCEPT !.authz = "valid", !.order = "ready", !.asking = FALSE]
                ELSE [ca EXCEPT !.authz = "invalid", !.order = "invalid", !.asking = FALSE]
       /\ IF reached THEN UNCHANGED failures
          ELSE failures < MaxFailures /\ failures' = failures + 1
  /\ Keep /\ UNCHANGED <<db, pc, ctx, token, made>>

\* The loops of _order before and after _finalize.
Poll ==
  /\ At("poll") /\ ca.order # "pending"
  /\ Goto(CASE ca.order = "ready" -> "finalize"
            [] ca.order = "valid" -> "certificate"
            [] OTHER -> "failed")
  /\ Keep /\ UNCHANGED <<db, ctx, token, ca, made, failures>>

Finalize ==
  /\ At("finalize") /\ Goto("issued")
  /\ ca' = [ca EXCEPT !.order = "valid", !.key = ctx.skey]
  /\ Keep /\ UNCHANGED <<db, ctx, token, made, failures>>

Issued ==
  /\ At("issued") /\ ca.order # "ready"
  /\ Goto(IF ca.order = "valid" THEN "certificate" ELSE "failed")
  /\ Keep /\ UNCHANGED <<db, ctx, token, ca, made, failures>>

\* _certificate: the chain and its dates are stored.
Certificate ==
  /\ At("certificate") /\ Goto("callback")
  /\ db' = [db EXCEPT !.cert = [key |-> ca.key, from |-> time, till |-> time + Validity]]
  /\ Keep /\ UNCHANGED <<ctx, token, ca, made, failures>>

\* acme_consumer_callback; nothing new is only of interest in the first run.
\* Mutant: nor is it then.
IsNewsNever == db.cert # (IF https = None THEN db.cert ELSE https.cert)
IsNews == first \/ db.cert # https.cert

Callback ==
  /\ At("callback") /\ Goto("idle")
  /\ first' = (first /\ ~IsNews)
  /\ IF IsNews THEN https' = [key |-> db.skey, cert |-> db.cert] ELSE UNCHANGED https
  /\ UNCHANGED <<db, ctx, token, up, ca, made, time, failures>>

\* A request fails, whatever the authority did of it; so does the
\* synchronisation, and the server if it is the first.
Fail ==
  /\ up /\ pc \in {"directory", "account", "order", "authorize", "activate", "await",
                   "poll", "finalize", "issued", "certificate"}
  /\ failures < MaxFailures /\ failures' = failures + 1
  /\ Goto("failed") /\ token' = None
  /\ ca' \in {ca} \cup
       (IF pc = "account" THEN {[ca EXCEPT !.accounts = @ \cup {ctx.akey}]} ELSE {})
       \cup (IF pc = "finalize" THEN {[ca EXCEPT !.order = "valid", !.key = ctx.skey]} ELSE {})
       \cup (IF pc = "activate" THEN {[ca EXCEPT !.asking = TRUE]} ELSE {})
  /\ Keep /\ UNCHANGED <<db, ctx, made>>

Failed ==
  /\ At("failed") /\ Goto("idle")
  /\ up' = ~first
  /\ UNCHANGED <<db, ctx, token, https, first, ca, made, time, failures>>

Steps ==
  \/ Load \/ Directory \/ Account \/ Order \/ Authorize \/ Activate \/ Await
  \/ Poll \/ Finalize \/ Issued \/ Certificate \/ Callback \/ Failed

Next == Tick \/ Crash \/ Restart \/ Sync \/ Steps \/ Validate \/ Fail

Spec == Init /\ [][Next]_vars

\* The worker comes again, and the authority answers.
Fairness ==
  /\ WF_vars(Steps) /\ WF_vars(Sync) /\ WF_vars(Restart) /\ WF_vars(Validate)

FairSpec == Spec /\ Fairness
-----------------------------------------------------------------------------
(* A stored certificate is always one of the stored key, and the account    *)
(* that of the account's key, through failed and interrupted renewals; so   *)
(* what HTTPS is given after any restart works.                             *)
KeysFit ==
  /\ db.cert # None => db.cert.key = db.skey
  /\ https # None => https.cert.key = https.key
  /\ db.kid # None => db.kid = db.akey /\ db.kid \in ca.accounts

(* When the authority looks for its token while the server waits for that,  *)
(* the token is there, and it is the one of this order.                     *)
ChallengeServed ==
  (up /\ pc = "await" /\ ca.asking) => token = ca.token

Expired == https # None /\ time >= https.cert.till
\* The bounds leave room for one more certificate.
Room == made.orders < MaxOrders /\ made.keys < MaxKeys

(* A server that has no certificate or an expired one gets one, unless it   *)
(* goes down or the bound on orders is reached.                             *)
Needs == up /\ (https = None \/ Expired)
CertificateComes == Needs ~> (~Needs \/ ~Room)
=============================================================================
