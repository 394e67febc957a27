---------------------------- MODULE Live_proof ----------------------------
(***************************************************************************)
(* For every validity and all bounds: through failures, crashes and        *)
(* renewals, the stored certificate is one of the stored key, and what     *)
(* HTTPS is given works.  And of the gauges, for all levels and bounds: a  *)
(* row that is to be relied on tells of a number that was counted, and     *)
(* rows are in the order in which their numbers were.  And of the channel  *)
(* to a worker process, for all sizes: it does what Channel says, step by  *)
(* step.                                                                   *)
(***************************************************************************)
EXTENDS MCLive, SequenceTheorems, FiniteSetTheorems, WellFoundedInduction, TLAPS


DbType == [kid : Key \union {None}, akey : Key \union {None}, skey : Key \union {None},
           cert : Cert \union {None}]
CtxType == [kid : Key \union {None}, akey : Key \union {None}, skey : Key \union {None}]
CaType == [accounts : SUBSET Key, order : {"none", "pending", "ready", "valid", "invalid"},
           authz : {"none", "pending", "valid", "invalid"},
           token : Nat \union {None}, asking : BOOLEAN, key : Key \union {None}]
HttpsType == [key : Key, cert : Cert] \union {None}
MadeType == [keys : 0..MaxKeys, orders : Nat]

Types ==
  /\ db \in DbType /\ ctx \in CtxType /\ ca \in CaType
  /\ pc \in {"idle", "load", "directory", "account", "order", "authorize", "activate",
             "await", "poll", "finalize", "issued", "certificate", "callback", "failed"}
  /\ https \in HttpsType /\ made \in MadeType /\ time \in 0..MaxTime

\* What is stored is stored in the order account key, account, key, certificate.
Stored ==
  /\ db.cert # None => db.skey # None /\ db.cert.key = db.skey
  /\ db.skey # None => db.kid # None
  /\ db.kid # None => db.akey # None /\ db.kid = db.akey /\ db.kid \in ca.accounts

\* A synchronisation works with what is stored.
InStep ==
  /\ pc \notin {"idle", "load", "directory", "failed"} =>
       ctx.akey # None /\ ctx.akey = db.akey
  /\ pc \in {"directory", "account"} => ctx.kid = db.kid /\ ctx.skey = db.skey
  /\ pc = "directory" => IF ctx.kid = None THEN ctx.akey = None ELSE ctx.akey = db.akey
  /\ pc = "account" => ctx.kid = None
  /\ pc \in {"order", "authorize", "activate", "await", "poll", "finalize", "issued",
             "certificate"} => db.kid # None /\ ctx.skey = db.skey
  /\ pc \in {"authorize", "activate", "await", "poll", "finalize", "issued", "certificate"}
       => db.skey # None
  /\ pc = "callback" => db.cert # None

\* An issued certificate is one of the stored key.
OfKey ==
  /\ ca.order = "valid" => db.skey # None /\ ca.key = db.skey
  /\ pc = "certificate" => ca.order = "valid"
  /\ https # None => https.cert.key = https.key

\* The authority asks while an authorization is pending, and not after it; the
\* token it is to find is there before.
Asks ==
  /\ ca.asking => ca.authz = "pending"
  /\ pc \in {"authorize", "activate", "poll", "finalize", "issued", "certificate"} => ~ca.asking
  /\ pc = "activate" => ca.authz = "pending"
  /\ pc \in {"activate", "await"} => token = ca.token

IInv == Types /\ Stored /\ InStep /\ OfKey /\ Asks

LEMMA InitIInv == ASSUME AcmeAssumption, Init PROVE IInv
<1>1. Types
  BY DEF AcmeAssumption, Init, NoCtx, Types, DbType, CtxType, CaType, HttpsType, MadeType
<1>2. Stored /\ InStep /\ OfKey /\ Asks
  BY DEF Init, NoCtx, Stored, InStep, OfKey, Asks
<1>3. QED
  BY <1>1, <1>2 DEF IInv

\* What the actions write keeps the types.
LEMMA KeyUpdates ==
  ASSUME Types, NEW k \in Key
  PROVE  /\ [db EXCEPT !.akey = k] \in DbType /\ [ctx EXCEPT !.akey = k] \in CtxType
         /\ [db EXCEPT !.kid = k] \in DbType /\ [ctx EXCEPT !.kid = k] \in CtxType
         /\ [db EXCEPT !.skey = k] \in DbType /\ [ctx EXCEPT !.skey = k] \in CtxType
<1>1. db \in DbType /\ ctx \in CtxType
  BY DEF Types
<1>2. [db EXCEPT !.akey = k] \in DbType /\ [db EXCEPT !.kid = k] \in DbType
  BY <1>1 DEF DbType
<1>3. [db EXCEPT !.skey = k] \in DbType
  BY <1>1 DEF DbType
<1>4. [ctx EXCEPT !.akey = k] \in CtxType /\ [ctx EXCEPT !.kid = k] \in CtxType
  BY <1>1 DEF CtxType
<1>5. [ctx EXCEPT !.skey = k] \in CtxType
  BY <1>1 DEF CtxType
<1>6. QED
  BY <1>2, <1>3, <1>4, <1>5

LEMMA CaUpdates ==
  ASSUME Types, NEW k \in Key, NEW o \in {"ready", "pending", "valid", "invalid"},
         NEW z \in {"pending", "valid"}, NEW t \in Nat
  PROVE  /\ [ca EXCEPT !.accounts = @ \union {k}] \in CaType
         /\ [ca EXCEPT !.order = o, !.key = k] \in CaType
         /\ [ca EXCEPT !.order = o, !.authz = z, !.token = t, !.asking = FALSE,
                       !.key = None] \in CaType
<1>1. ca \in CaType
  BY DEF Types
<1>2. [ca EXCEPT !.accounts = @ \union {k}] \in CaType
  BY <1>1 DEF CaType
<1>3. [ca EXCEPT !.order = o, !.key = k] \in CaType
  BY <1>1 DEF CaType
<1>4. [ca EXCEPT !.order = o, !.authz = z, !.token = t, !.asking = FALSE, !.key = None]
        \in CaType
  BY <1>1 DEF CaType
<1>5. QED
  BY <1>2, <1>3, <1>4

LEMMA NextIInv == ASSUME AcmeAssumption, IInv, [Next]_vars PROVE IInv'
<1> USE AcmeAssumption, IInv DEF IInv, At, Goto, Keep
<1>1. ASSUME Tick \/ Crash \/ Sync \/ Failed \/ UNCHANGED vars PROVE IInv'
  BY <1>1 DEF AcmeAssumption, Types, Stored, InStep, OfKey, Asks, Tick, Crash, Sync, Failed, vars
<1>2. CASE Restart
  <2>1. Types'
    BY <1>2 DEF Types, CtxType, HttpsType, Restart, NoCtx
  <2>2. Stored' /\ InStep' /\ OfKey' /\ Asks'
    BY <1>2 DEF Restart, NoCtx, Stored, InStep, OfKey, Asks
  <2>3. QED
    BY <2>1, <2>2
<1>3. CASE Load
  <2>1. Loaded \in CtxType /\ Loaded.kid = db.kid
        /\ (db.kid # None => Loaded.akey = db.akey /\ Loaded.skey = db.skey)
        /\ (db.kid = None => Loaded.akey = None /\ Loaded.skey = None)
    BY DEF Loaded, NoCtx, CtxType, Types, DbType
  <2>2. /\ pc = "load" /\ ctx' = Loaded /\ pc' \in {"directory", "callback"}
        /\ pc' = "callback" => db.kid # None /\ db.cert # None
        /\ UNCHANGED <<db, token, ca, made, https, time>>
    BY <1>3 DEF Load, IsDue
  <2>3. Types'
    BY <2>1, <2>2 DEF Types
  <2>4. Stored' /\ OfKey' /\ Asks'
    BY <2>2 DEF Stored, OfKey, Asks
  <2>5. InStep'
    BY <2>1, <2>2 DEF InStep, Stored
  <2>6. QED
    BY <2>3, <2>4, <2>5
<1>4. CASE Directory
  <2>1. CASE ctx.akey # None
    <3>1. /\ pc = "directory" /\ UNCHANGED <<db, ctx, made, token, ca, https, time>>
          /\ pc' = IF ctx.kid # None THEN "order" ELSE "account"
      BY <1>4, <2>1 DEF Directory
    <3>2. QED
      BY <2>1, <3>1 DEF Types, Stored, InStep, OfKey, Asks
  <2>2. CASE ctx.akey = None
    <3>1. made.keys + 1 \in Key /\ made'.keys = made.keys + 1 /\ made' \in MadeType
      BY <1>4, <2>2 DEF Directory, Types, MadeType, Key, AcmeAssumption
    <3>2. /\ db' = [db EXCEPT !.akey = made.keys + 1]
          /\ ctx' = [ctx EXCEPT !.akey = made.keys + 1]
          /\ pc = "directory" /\ UNCHANGED <<token, ca, https, time>>
          /\ pc' = IF ctx.kid # None THEN "order" ELSE "account"
      BY <1>4, <2>2, <3>1 DEF Directory
    <3>3. Types'
      BY <3>1, <3>2, KeyUpdates DEF Types
    <3>4. db.kid = None /\ ctx.kid = None
      BY <2>2, <3>2 DEF InStep, Stored
    <3>5. /\ db'.kid = None /\ db'.skey = db.skey /\ db'.cert = db.cert
          /\ db'.akey = made.keys + 1 /\ made.keys + 1 # None
          /\ ctx'.kid = None /\ ctx'.skey = ctx.skey /\ ctx'.akey = made.keys + 1
      BY <3>1, <3>2, <3>4 DEF Types, DbType, CtxType, AcmeAssumption
    <3>6. Stored' /\ InStep' /\ OfKey' /\ Asks'
      BY <3>2, <3>4, <3>5 DEF Stored, InStep, OfKey, Asks
    <3>7. QED
      BY <3>3, <3>6
  <2>3. QED
    BY <2>1, <2>2
<1>5. CASE Account
  <2>1. /\ pc = "account" /\ pc' = "order" /\ UNCHANGED <<token, made, https, time>>
        /\ ca' = [ca EXCEPT !.accounts = @ \union {ctx.akey}]
        /\ ctx' = [ctx EXCEPT !.kid = ctx.akey] /\ db' = [db EXCEPT !.kid = ctx.akey]
    BY <1>5 DEF Account
  <2>2. ctx.akey \in Key /\ ctx.akey = db.akey /\ ctx.skey = db.skey
    BY <2>1 DEF InStep, Types, CtxType
  <2>3. Types'
    BY <2>1, <2>2, KeyUpdates, CaUpdates DEF Types
  <2>4. /\ db'.kid = ctx.akey /\ db'.akey = db.akey /\ db'.skey = db.skey /\ db'.cert = db.cert
        /\ ctx'.kid = ctx.akey /\ ctx'.akey = ctx.akey /\ ctx'.skey = ctx.skey
    BY <2>1 DEF Types, DbType, CtxType
  <2>5. /\ ca'.accounts = ca.accounts \union {ctx.akey} /\ ca'.order = ca.order
        /\ ca'.authz = ca.authz /\ ca'.token = ca.token /\ ca'.asking = ca.asking
        /\ ca'.key = ca.key
    BY <2>1 DEF Types, CaType
  <2>6. ctx.akey # None
    BY <2>2 DEF AcmeAssumption
  <2>7. Stored'
    BY <2>2, <2>4, <2>5, <2>6 DEF Stored
  <2>8. InStep'
    BY <2>1, <2>2, <2>4, <2>6 DEF InStep
  <2>9. OfKey' /\ Asks'
    BY <2>1, <2>4, <2>5 DEF OfKey, Asks
  <2>10. QED
    BY <2>3, <2>7, <2>8, <2>9
<1>6. CASE Order
  <2> DEFINE keys == IF ctx.skey = None THEN made.keys + 1 ELSE made.keys
             skey == IF ctx.skey = None THEN keys ELSE ctx.skey
             known == ca.authz = "valid"
  <2>1. /\ made' = [keys |-> keys, orders |-> made.orders + 1]
        /\ ctx' = [ctx EXCEPT !.skey = skey] /\ db' = [db EXCEPT !.skey = skey]
        /\ ca' = [ca EXCEPT !.order = IF known THEN "ready" ELSE "pending",
                            !.authz = IF known THEN "valid" ELSE "pending",
                            !.token = made'.orders, !.asking = FALSE, !.key = None]
        /\ pc' = IF known THEN "finalize" ELSE "authorize"
        /\ pc = "order" /\ https' = https /\ time' = time
    BY <1>6 DEF Order
  <2>2. ctx.skey = None => made.keys < MaxKeys
    BY <1>6 DEF Order
  <2>3. skey \in Key /\ keys \in 0..MaxKeys
    BY <2>2 DEF Types, MadeType, CtxType, Key, AcmeAssumption
  <2>4. skey = db.skey \/ db.skey = None
    BY <2>1 DEF InStep
  <2> HIDE DEF keys, skey, known
  <2>5. made' \in MadeType /\ made'.orders \in Nat
    BY <2>1, <2>3 DEF Types, MadeType
  <2>6. ca' \in CaType
    BY <2>1, <2>3, <2>5, CaUpdates
  <2>7. Types'
    BY <2>1, <2>3, <2>5, <2>6, KeyUpdates DEF Types
  <2>8. /\ ca'.accounts = ca.accounts /\ ca'.order \in {"ready", "pending"}
        /\ ca'.authz = (IF known THEN "valid" ELSE "pending")
        /\ ca'.token = made'.orders /\ ca'.asking = FALSE /\ ca'.key = None
    BY <2>1 DEF Types, CaType
  <2>9. /\ db'.skey = skey /\ db'.kid = db.kid /\ db'.akey = db.akey /\ db'.cert = db.cert
        /\ ctx'.skey = skey /\ ctx'.akey = ctx.akey /\ skey # None
    BY <2>1, <2>3 DEF Types, DbType, CtxType, AcmeAssumption
  <2>10. Stored' /\ InStep'
    BY <2>1, <2>4, <2>8, <2>9 DEF Stored, InStep
  <2>11. OfKey' /\ Asks'
    BY <2>1, <2>8, <2>9 DEF OfKey, Asks
  <2>12. QED
    BY <2>7, <2>10, <2>11
<1>7. CASE Authorize
  <2>1. /\ pc = "authorize" /\ UNCHANGED <<db, ctx, ca, made, https, time>>
        /\ \/ ca.authz = "pending" /\ token' = ca.token /\ pc' = "activate"
           \/ pc' \in {"poll", "failed"}
    BY <1>7 DEF Authorize, NewToken
  <2>2. Types'
    BY <2>1 DEF Types
  <2>3. Stored' /\ InStep' /\ OfKey' /\ Asks'
    BY <2>1 DEF Stored, InStep, OfKey, Asks
  <2>4. QED
    BY <2>2, <2>3
<1>8. CASE Activate
  <2>1. /\ pc = "activate" /\ pc' = "await" /\ UNCHANGED <<db, ctx, token, made, https, time>>
        /\ ca' = [ca EXCEPT !.asking = TRUE]
    BY <1>8 DEF Activate
  <2>2. ca' \in CaType
    BY <2>1 DEF Types, CaType
  <2>3. Types'
    BY <2>1, <2>2 DEF Types
  <2>4. /\ ca'.accounts = ca.accounts /\ ca'.order = ca.order /\ ca'.authz = ca.authz
        /\ ca'.token = ca.token /\ ca'.key = ca.key
    BY <2>1 DEF Types, CaType
  <2>5. Stored' /\ InStep' /\ OfKey' /\ Asks'
    BY <2>1, <2>4 DEF Stored, InStep, OfKey, Asks
  <2>6. QED
    BY <2>3, <2>5
<1>9. CASE Await
  <2>1. /\ pc = "await" /\ ca.authz # "pending" /\ pc' \in {"poll", "failed"}
        /\ UNCHANGED <<db, ctx, ca, made, https, time>>
    BY <1>9 DEF Await
  <2>2. Types'
    BY <2>1 DEF Types
  <2>3. Stored' /\ InStep' /\ OfKey' /\ Asks'
    BY <2>1 DEF Stored, InStep, OfKey, Asks
  <2>4. QED
    BY <2>2, <2>3
<1>10. CASE Poll \/ Issued
  <2>1. /\ pc \in {"poll", "issued"} /\ pc' \in {"finalize", "certificate", "failed"}
        /\ pc' = "certificate" => ca.order = "valid"
        /\ UNCHANGED <<db, ctx, token, ca, made, https, time>>
    BY <1>10 DEF Poll, Issued
  <2>2. Types'
    BY <2>1 DEF Types
  <2>3. Stored' /\ InStep' /\ OfKey' /\ Asks'
    BY <2>1 DEF Stored, InStep, OfKey, Asks
  <2>4. QED
    BY <2>2, <2>3
<1>11. ASSUME pc = "finalize", UNCHANGED <<db, ctx, made, https, time>>,
              ca' = [ca EXCEPT !.order = "valid", !.key = ctx.skey],
              pc' \in {"issued", "failed"}
       PROVE  IInv'
  <2>1. ctx.skey = db.skey /\ db.skey # None /\ db.skey \in Key
    BY <1>11 DEF InStep, Types, DbType
  <2>2. Types'
    BY <1>11, <2>1, CaUpdates DEF Types
  <2>3. /\ ca'.accounts = ca.accounts /\ ca'.order = "valid" /\ ca'.authz = ca.authz
        /\ ca'.asking = ca.asking /\ ca'.key = ctx.skey
    BY <1>11 DEF Types, CaType
  <2>4. Stored' /\ InStep' /\ OfKey' /\ Asks'
    BY <1>11, <2>1, <2>3 DEF Stored, InStep, OfKey, Asks
  <2>5. QED
    BY <2>2, <2>4
<1>12. CASE Finalize
  BY <1>12, <1>11 DEF Finalize
<1>13. CASE Certificate
  <2> DEFINE crt == [key |-> ca.key, from |-> time, till |-> time + Validity]
  <2>1. /\ pc = "certificate" /\ pc' = "callback" /\ UNCHANGED <<ctx, token, ca, made, https, time>>
        /\ db' = [db EXCEPT !.cert = crt]
    BY <1>13 DEF Certificate
  <2>2. ca.key = db.skey /\ db.skey # None /\ db.skey \in Key
    BY <2>1 DEF OfKey, Types, DbType
  <2>3. crt \in Cert /\ crt # None /\ crt.key = ca.key
    <3>1. crt \in Cert
      BY <2>2 DEF Types, Cert, AcmeAssumption
    <3>2. QED
      BY <3>1 DEF AcmeAssumption
  <2> HIDE DEF crt
  <2>4. /\ db' \in DbType /\ db'.cert = crt
        /\ db'.kid = db.kid /\ db'.akey = db.akey /\ db'.skey = db.skey
    BY <2>1, <2>3 DEF Types, DbType
  <2>5. Types'
    BY <2>1, <2>4 DEF Types
  <2>6. Stored' /\ InStep' /\ OfKey' /\ Asks'
    BY <2>1, <2>2, <2>3, <2>4 DEF Stored, InStep, OfKey, Asks
  <2>7. QED
    BY <2>5, <2>6
<1>14. CASE Callback
  <2>1. /\ pc = "callback" /\ pc' = "idle" /\ UNCHANGED <<db, ctx, token, ca, made, time>>
        /\ https' = https \/ https' = [key |-> db.skey, cert |-> db.cert]
    BY <1>14 DEF Callback
  <2>2. db.cert \in Cert /\ db.skey \in Key /\ db.cert.key = db.skey
    BY <2>1 DEF InStep, Stored, Types, DbType
  <2>3. https' \in HttpsType
    BY <2>1, <2>2 DEF Types, HttpsType
  <2>4. Types'
    BY <2>1, <2>3 DEF Types
  <2>5. OfKey'
    BY <2>1, <2>2 DEF OfKey
  <2>6. Stored' /\ InStep' /\ Asks'
    BY <2>1 DEF Stored, InStep, Asks
  <2>7. QED
    BY <2>4, <2>5, <2>6
<1>15. CASE Validate
  <2>1. ca.asking /\ UNCHANGED <<db, ctx, pc, token, https, made, time>>
    BY <1>15 DEF Validate
  <2>2. PICK o \in {"ready", "invalid"}, z \in {"valid", "invalid"} :
          ca' = [ca EXCEPT !.authz = z, !.order = o, !.asking = FALSE]
    BY <1>15 DEF Validate
  <2>3. ca' \in CaType
    BY <2>2 DEF Types, CaType
  <2>4. Types'
    BY <2>1, <2>3 DEF Types
  <2>5. /\ ca'.accounts = ca.accounts /\ ca'.order # "valid" /\ ca'.asking = FALSE
        /\ ca'.token = ca.token /\ ca'.key = ca.key
    BY <2>2 DEF Types, CaType
  <2>6. pc \notin {"authorize", "activate", "poll", "finalize", "issued", "certificate"}
    BY <2>1 DEF Asks
  <2>7. Stored' /\ InStep' /\ OfKey' /\ Asks'
    BY <2>1, <2>5, <2>6 DEF Stored, InStep, OfKey, Asks
  <2>8. QED
    BY <2>4, <2>7
<1>16. CASE Fail
  <2>1. /\ UNCHANGED <<db, ctx, https, made, time>> /\ pc' = "failed"
        /\ \/ ca' = ca
           \/ pc = "account" /\ ca' = [ca EXCEPT !.accounts = @ \union {ctx.akey}]
           \/ pc = "finalize" /\ ca' = [ca EXCEPT !.order = "valid", !.key = ctx.skey]
           \/ pc = "activate" /\ ca' = [ca EXCEPT !.asking = TRUE]
    BY <1>16 DEF Fail
  <2>2. CASE ca' = ca
    BY <2>1, <2>2 DEF Types, Stored, InStep, OfKey, Asks
  <2>3. CASE pc = "account" /\ ca' = [ca EXCEPT !.accounts = @ \union {ctx.akey}]
    <3>1. ctx.akey \in Key
      BY <2>3 DEF InStep, Types, CtxType
    <3>2. Types'
      BY <2>1, <2>3, <3>1, CaUpdates DEF Types
    <3>3. /\ ca'.accounts = ca.accounts \union {ctx.akey} /\ ca'.order = ca.order
          /\ ca'.authz = ca.authz /\ ca'.asking = ca.asking /\ ca'.key = ca.key
      BY <2>3 DEF Types, CaType
    <3>4. Stored' /\ InStep' /\ OfKey' /\ Asks'
      BY <2>1, <3>3 DEF Stored, InStep, OfKey, Asks
    <3>5. QED
      BY <3>2, <3>4
  <2>4. CASE pc = "finalize" /\ ca' = [ca EXCEPT !.order = "valid", !.key = ctx.skey]
    BY <2>1, <2>4, <1>11
  <2>5. CASE pc = "activate" /\ ca' = [ca EXCEPT !.asking = TRUE]
    <3>1. ca' \in CaType
      BY <2>5 DEF Types, CaType
    <3>2. Types'
      BY <2>1, <3>1 DEF Types
    <3>3. /\ ca'.accounts = ca.accounts /\ ca'.order = ca.order
          /\ ca'.authz = ca.authz /\ ca'.key = ca.key
      BY <2>5 DEF Types, CaType
    <3>4. Stored' /\ InStep' /\ OfKey' /\ Asks'
      BY <2>1, <2>5, <3>3 DEF Stored, InStep, OfKey, Asks
    <3>5. QED
      BY <3>2, <3>4
  <2>6. QED
    BY <2>1, <2>2, <2>3, <2>4, <2>5
<1>17. QED
  BY <1>1, <1>2, <1>3, <1>4, <1>5, <1>6, <1>7, <1>8, <1>9, <1>10, <1>12, <1>13,
     <1>14, <1>15, <1>16 DEF Next, Steps

LEMMA Invariance == ASSUME AcmeAssumption PROVE Spec => []IInv
<1>1. Init => IInv
  BY InitIInv
<1>2. IInv /\ [Next]_vars => IInv'
  BY NextIInv
<1>3. QED
  BY <1>1, <1>2, PTL DEF Spec

(* A stored certificate is always one of the stored key, the account that   *)
(* of the account's key, and what HTTPS has fits, whatever fails.           *)
THEOREM KeysAlwaysFit == ASSUME AcmeAssumption PROVE Spec => []KeysFit
<1>1. IInv => KeysFit
  BY DEF IInv, Stored, OfKey, KeysFit
<1>2. QED
  BY <1>1, Invariance, PTL

(* While the server waits for the authority to look for its token, the      *)
(* token of this order is there, whatever was left of the orders before.    *)
THEOREM ChallengeAlwaysServed == ASSUME AcmeAssumption PROVE Spec => []ChallengeServed
<1>1. IInv => ChallengeServed
  BY DEF IInv, Asks, ChallengeServed
<1>2. QED
  BY <1>1, Invariance, PTL
-----------------------------------------------------------------------------
\* What is left of a list without its c-th entry.
Omits(q, list, c) ==
  /\ DOMAIN q = 1..Len(q) /\ Len(q) \in Nat /\ Len(q) = Len(list) - 1
  /\ \A i \in DOMAIN q : /\ i < c => i \in DOMAIN list /\ q[i] = list[i]
                         /\ ~(i < c) => i + 1 \in DOMAIN list /\ q[i] = list[i + 1]
  /\ \A k \in DOMAIN list : /\ k < c => k \in DOMAIN q /\ q[k] = list[k]
                            /\ c < k => k - 1 \in DOMAIN q /\ q[k - 1] = list[k]

LEMMA OmitsIs ==
  ASSUME NEW M, NEW list \in Seq(M), NEW c \in DOMAIN list, NEW q, q = G!RemoveAt(list, c)
  PROVE  q \in Seq(M) /\ Omits(q, list, c)
<1>1. PICK n \in Nat : n = Len(list)
  OBVIOUS
<1>2. DOMAIN list = 1..n /\ c \in 1..n
  BY <1>1
<1>3. PICK a : a = SubSeq(list, 1, c - 1)
  OBVIOUS
<1>4. PICK b : b = SubSeq(list, c + 1, n)
  OBVIOUS
<1>5. q = a \o b
  BY <1>1, <1>3, <1>4 DEF G!RemoveAt
<1>6. a \in Seq(M) /\ Len(a) = c - 1 /\ \A i \in 1..c - 1 : a[i] = list[i]
  BY <1>1, <1>2, <1>3
<1>7. b \in Seq(M) /\ Len(b) = n - c /\ \A i \in 1..n - c : b[i] = list[c + i]
  BY <1>1, <1>2, <1>4
<1>8. /\ q \in Seq(M) /\ Len(q) = Len(a) + Len(b)
      /\ \A i \in 1..Len(a) + Len(b) : q[i] = IF i <= Len(a) THEN a[i] ELSE b[i - Len(a)]
  <2>1. a \in Seq(M) /\ b \in Seq(M)
    BY <1>6, <1>7
  <2> QED BY ONLY <1>5, <2>1, ConcatProperties
<1>9. Len(q) = n - 1 /\ DOMAIN q = 1..n - 1
  <2>1. Len(a) = c - 1 /\ Len(b) = n - c /\ Len(q) = Len(a) + Len(b) /\ c \in Int /\ n \in Int
    BY <1>1, <1>2, <1>6, <1>7, <1>8
  <2>2. Len(q) = n - 1
    BY ONLY <2>1
  <2>3. DOMAIN q = 1..Len(q)
    BY <1>8
  <2> QED BY <2>2, <2>3
<1>10. ASSUME NEW i \in 1..n - 1 PROVE q[i] = IF i < c THEN list[i] ELSE list[i + 1]
  <2>1. i \in 1..Len(a) + Len(b) /\ (i < c <=> i <= Len(a)) /\ i \in Int
    BY ONLY <1>1, <1>2, <1>6, <1>7, i \in 1..n - 1
  <2>2. CASE i < c
    <3>1. i \in 1..c - 1
      BY ONLY <1>1, <1>2, <2>1, <2>2
    <3> QED BY <1>6, <1>8, <2>1, <2>2, <3>1
  <2>3. CASE ~(i < c)
    <3>1. i - Len(a) \in 1..n - c /\ c + (i - Len(a)) = i + 1
      BY ONLY <1>1, <1>2, <1>6, i \in 1..n - 1, <2>3
    <3>2. q[i] = b[i - Len(a)]
      BY <1>8, <2>1, <2>3
    <3>3. b[i - Len(a)] = list[c + (i - Len(a))]
      BY <1>7, <3>1
    <3> QED BY <2>3, <3>1, <3>2, <3>3
  <2> QED BY <2>2, <2>3
<1>11. \A i \in DOMAIN q : /\ i < c => i \in DOMAIN list /\ q[i] = list[i]
                           /\ ~(i < c) => i + 1 \in DOMAIN list /\ q[i] = list[i + 1]
  BY ONLY <1>1, <1>2, <1>9, <1>10
<1>12. ASSUME NEW k \in DOMAIN list
       PROVE  /\ k < c => k \in DOMAIN q /\ q[k] = list[k]
              /\ c < k => k - 1 \in DOMAIN q /\ q[k - 1] = list[k]
  <2>1. k \in 1..n /\ k \in Int /\ c \in Int
    BY <1>2
  <2>2. ASSUME k < c PROVE k \in DOMAIN q /\ q[k] = list[k]
    <3>1. k \in 1..n - 1
      BY ONLY <1>2, <2>1, <2>2, <1>1
    <3> QED BY <1>9, <1>10, <2>2, <3>1
  <2>3. ASSUME c < k PROVE k - 1 \in DOMAIN q /\ q[k - 1] = list[k]
    <3>1. k - 1 \in 1..n - 1 /\ ~(k - 1 < c) /\ (k - 1) + 1 = k
      BY ONLY <1>2, <2>1, <2>3, <1>1
    <3> QED BY <1>9, <1>10, <3>1
  <2> QED BY <2>2, <2>3
<1> QED BY <1>1, <1>8, <1>9, <1>11, <1>12 DEF Omits

-----------------------------------------------------------------------------
(* Gauges.                                                                 *)

RowRec == [id : Nat, level : Level]

\* The levels that wait are the last counted; the one in hand comes before them.
Waiting ==
  /\ counted \in Seq(Level) /\ queue \in Seq(Level) /\ Len(queue) < Len(counted)
  /\ \A k \in DOMAIN queue : queue[k] = counted[Len(counted) - Len(queue) + k]
  /\ setting.pc = "put" => setting.level = counted[Len(counted) - Len(queue)]

\* A row has the level it tells of, which has been taken off the queue.
Telling ==
  /\ ids \in Nat /\ DOMAIN origin = 1..ids /\ origin \in Seq(Nat) /\ Len(origin) = ids
  /\ \A k \in 1..ids : origin[k] \in Nat /\ 1 <= origin[k] /\ origin[k] <= Len(counted) - Len(queue)
  /\ rows \in Seq(RowRec) /\ rows # <<>>
  /\ \A i \in DOMAIN rows : rows[i].id \in 1..ids /\ rows[i].level = counted[origin[rows[i].id]]
  /\ \A i, j \in DOMAIN rows : i < j => rows[i].id < rows[j].id
  /\ stray \subseteq 1..ids

\* A round has read a row, and made its copy, which tells of the same, after it.
Rounds ==
  /\ round = [pc |-> round.pc, base |-> round.base, copy |-> round.copy]
  /\ round.pc \in {"idle", "copy", "check", "delete"}
  /\ round.pc \in {"idle", "copy"} => round.copy = 0
  /\ round.pc \in {"check", "delete"} =>
       /\ round.copy \in 1..ids /\ round.copy \notin stray
       /\ round.base.id < round.copy /\ origin[round.copy] = origin[round.base.id]
  /\ round.pc # "idle" =>
       /\ round.base.id \in 1..ids /\ round.base.level \in Level
       /\ round.base.level = counted[origin[round.base.id]]

\* The newest row but for the copy is to be relied on, and rows that are, are in order.
InOrder ==
  /\ \E i \in G!Reliable : \A j \in DOMAIN rows : i < j => rows[j].id = round.copy
  /\ \A i, j \in G!Reliable : i < j => origin[rows[i].id] <= origin[rows[j].id]

GaugeInv == Waiting /\ Telling /\ Rounds /\ InOrder

LEMMA LevelsAre == 0 \in Level
BY LiveAssumption DEF G!GaugeBounds

LEMMA GaugeStarts == ASSUME G!Init PROVE GaugeInv
<1>1. /\ rows = <<[id |-> 1, level |-> 0]>> /\ ids = 1 /\ queue = <<>>
      /\ setting = [pc |-> "idle", level |-> 0] /\ round = [pc |-> "idle", base |-> 0, copy |-> 0]
      /\ counted = <<0>> /\ origin = <<1>> /\ stray = {}
  BY DEF G!Init, G!NoSet, G!NoRound
<1>2. Waiting
  BY <1>1, LevelsAre DEF Waiting
<1>3. DOMAIN rows = {1} /\ rows[1].id = 1 /\ rows[1].level = 0 /\ rows[1] \in RowRec /\ rows # <<>>
      /\ rows \in Seq(RowRec)
  <2>1. PICK r : r = [id |-> 1, level |-> 0]
    OBVIOUS
  <2>2. r \in RowRec /\ r.id = 1 /\ r.level = 0
    BY <2>1, LevelsAre DEF RowRec
  <2>3. rows = <<r>>
    BY <1>1, <2>1
  <2> QED BY <2>2, <2>3
<1>4. Telling
  BY <1>1, <1>3 DEF Telling
<1>5. Rounds
  BY <1>1 DEF Rounds
<1>6. InOrder
  BY <1>1, <1>3 DEF InOrder, G!Reliable
<1> QED BY <1>2, <1>4, <1>5, <1>6 DEF GaugeInv

LEMMA CountStep == ASSUME GaugeInv, NEW l \in Level, G!Count(l) PROVE GaugeInv'
<1>1. /\ queue' = Append(queue, l) /\ counted' = Append(counted, l)
      /\ UNCHANGED <<rows, setting, round, ids, origin, stray>>
  BY DEF G!Count, G!Keep, G!Queued
<1>2. PICK m \in Nat, n \in Nat : m = Len(queue) /\ n = Len(counted) /\ m < n
  BY DEF GaugeInv, Waiting
<1>3. DOMAIN queue = 1..m /\ DOMAIN counted = 1..n /\ queue \in Seq(Level) /\ counted \in Seq(Level)
  BY <1>2 DEF GaugeInv, Waiting
<1>4. /\ queue' \in Seq(Level) /\ Len(queue') = m + 1 /\ DOMAIN queue' = 1..m + 1
      /\ queue'[m + 1] = l /\ \A k \in 1..m : queue'[k] = queue[k]
  BY <1>1, <1>2, <1>3
<1>5. /\ counted' \in Seq(Level) /\ Len(counted') = n + 1 /\ counted'[n + 1] = l
      /\ \A k \in 1..n : counted'[k] = counted[k]
  BY <1>1, <1>2, <1>3
<1>6. (n + 1) - (m + 1) = n - m /\ n - m \in 1..n
  BY <1>2
<1>7. Waiting'
  <2>1. ASSUME NEW k \in DOMAIN queue' PROVE queue'[k] = counted'[(n - m) + k]
    <3>1. CASE k = m + 1
      <4>1. (n - m) + k = n + 1
        BY <1>2, <3>1
      <4> QED BY <1>4, <1>5, <3>1, <4>1
    <3>2. CASE k # m + 1
      <4>1. k \in 1..m /\ (n - m) + k \in 1..n
        BY <1>2, <1>4, <3>2
      <4>2. queue[k] = counted[(n - m) + k]
        BY <1>2, <1>3, <4>1 DEF GaugeInv, Waiting
      <4> QED BY <1>4, <1>5, <4>1, <4>2
    <3> QED BY <3>1, <3>2
  <2>2. setting'.pc = "put" => setting'.level = counted'[n - m]
    BY <1>1, <1>2, <1>5, <1>6 DEF GaugeInv, Waiting
  <2>3. m + 1 < n + 1
    BY <1>2
  <2> QED BY <1>4, <1>5, <1>6, <2>1, <2>2, <2>3 DEF Waiting
<1>8. \A k \in 1..ids : origin[k] \in 1..n /\ counted'[origin[k]] = counted[origin[k]]
  BY <1>2, <1>5 DEF GaugeInv, Telling
<1>9. Telling'
  BY <1>1, <1>2, <1>4, <1>5, <1>6, <1>8 DEF GaugeInv, Telling
<1>10. Rounds'
  BY <1>1, <1>8 DEF GaugeInv, Rounds
<1>11. InOrder'
  BY <1>1 DEF GaugeInv, InOrder, G!Reliable
<1> QED BY <1>7, <1>9, <1>10, <1>11 DEF GaugeInv

LEMMA SetReadsStep == ASSUME GaugeInv, G!SetReads PROVE GaugeInv'
<1>1. /\ queue # <<>> /\ queue' = Tail(queue) /\ UNCHANGED <<rows, round, ids, counted, origin, stray>>
      /\ setting'.pc = "put" => setting'.level = Head(queue)
  BY DEF G!SetReads, G!Keep, G!NoSet
<1>2. PICK m \in Nat, n \in Nat : m = Len(queue) /\ n = Len(counted) /\ m < n
  BY DEF GaugeInv, Waiting
<1>3. queue \in Seq(Level) /\ DOMAIN queue = 1..m /\ \A k \in 1..m : queue[k] = counted[(n - m) + k]
  BY <1>2 DEF GaugeInv, Waiting
<1>4. m # 0
  BY <1>1, <1>2, <1>3
<1>5. /\ queue' \in Seq(Level) /\ Len(queue') = m - 1 /\ DOMAIN queue' = 1..m - 1
      /\ Head(queue) = queue[1] /\ \A k \in 1..m - 1 : queue'[k] = queue[k + 1]
  BY <1>1, <1>2, <1>3, <1>4
<1>6. n - (m - 1) = (n - m) + 1 /\ 1 \in 1..m /\ m - 1 < n
  BY <1>2, <1>4
<1>7. Waiting'
  <2>1. ASSUME NEW k \in DOMAIN queue' PROVE queue'[k] = counted[(n - (m - 1)) + k]
    <3>1. k \in 1..m - 1
      BY <1>5
    <3>2. k + 1 \in 1..m /\ (n - m) + (k + 1) = (n - (m - 1)) + k
      BY ONLY <3>1, m \in Nat, n \in Nat
    <3> QED BY <1>3, <1>5, <3>1, <3>2
  <2>2. setting'.pc = "put" => setting'.level = counted[n - (m - 1)]
    BY <1>1, <1>3, <1>5, <1>6
  <2>3. Len(counted') = n /\ counted' = counted /\ counted \in Seq(Level)
    BY <1>1, <1>2 DEF GaugeInv, Waiting
  <2> QED BY <1>5, <1>6, <2>1, <2>2, <2>3 DEF Waiting
<1>8. \A k \in 1..ids : origin[k] \in Nat /\ origin[k] <= n - m => origin[k] <= n - (m - 1)
  BY <1>2
<1>9. Telling'
  BY <1>1, <1>2, <1>5, <1>8 DEF GaugeInv, Telling
<1>10. Rounds'
  BY <1>1 DEF GaugeInv, Rounds
<1>11. InOrder'
  BY <1>1 DEF GaugeInv, InOrder, G!Reliable
<1> QED BY <1>7, <1>9, <1>10, <1>11 DEF GaugeInv

\* A row is added, with what it tells of.
Added(r, o) ==
  /\ ids' = ids + 1 /\ DOMAIN rows' = DOMAIN rows \union {Len(rows) + 1} /\ rows' \in Seq(RowRec)
  /\ rows' # <<>> /\ rows'[Len(rows) + 1] = r /\ \A i \in DOMAIN rows : rows'[i] = rows[i]
  /\ \A i \in DOMAIN rows : i < Len(rows) + 1
  /\ origin' \in Seq(Nat) /\ DOMAIN origin' = 1..ids + 1 /\ Len(origin') = ids + 1
  /\ origin'[ids + 1] = o /\ \A k \in 1..ids : origin'[k] = origin[k]

LEMMA AddedIs ==
  ASSUME Telling, NEW r \in RowRec, NEW o \in Nat,
         ids' = ids + 1, rows' = Append(rows, r), origin' = Append(origin, o)
  PROVE  Added(r, o) /\ DOMAIN rows = 1..Len(rows) /\ Len(rows) \in Nat
<1>1. rows \in Seq(RowRec) /\ origin \in Seq(Nat) /\ ids \in Nat /\ Len(origin) = ids /\ DOMAIN origin = 1..ids
  BY DEF Telling
<1>2. PICK n \in Nat : n = Len(rows) /\ DOMAIN rows = 1..n
  BY <1>1
<1>3. /\ rows' \in Seq(RowRec) /\ Len(rows') = n + 1 /\ rows'[n + 1] = r
      /\ \A i \in 1..n : rows'[i] = rows[i]
  BY <1>1, <1>2
<1>4. DOMAIN rows' = 1..n + 1
  BY <1>3
<1>5. DOMAIN rows' = DOMAIN rows \union {n + 1} /\ rows' # <<>> /\ \A i \in DOMAIN rows : i < n + 1
  BY <1>2, <1>4
<1>6. /\ origin' \in Seq(Nat) /\ Len(origin') = ids + 1 /\ origin'[ids + 1] = o
      /\ \A k \in 1..ids : origin'[k] = origin[k]
  BY <1>1
<1>7. DOMAIN origin' = 1..ids + 1
  BY <1>6
<1> QED BY <1>2, <1>3, <1>5, <1>6, <1>7 DEF Added

LEMMA AddedTells ==
  ASSUME Telling, NEW r, NEW o \in Nat, Added(r, o), r.id = ids + 1, r.level = counted'[o],
         \A k \in 1..ids : counted'[origin[k]] = counted[origin[k]],
         1 <= o, o <= Len(counted') - Len(queue'),
         \A k \in 1..ids : origin[k] <= Len(counted') - Len(queue'),
         stray' \subseteq 1..ids + 1
  PROVE  Telling'
<1>1. ids' \in Nat /\ ids + 1 \in 1..ids' /\ \A k \in 1..ids : k \in 1..ids'
  BY DEF Telling, Added
<1>2. \A k \in 1..ids' : k \in 1..ids \/ k = ids + 1
  BY DEF Telling, Added
<1>3. \A k \in 1..ids' : origin'[k] \in Nat /\ 1 <= origin'[k] /\ origin'[k] <= Len(counted') - Len(queue')
  BY <1>2 DEF Telling, Added
<1>4. \A i \in DOMAIN rows' : \/ i \in DOMAIN rows /\ rows'[i] = rows[i]
                              \/ i = Len(rows) + 1 /\ rows'[i] = r
  BY DEF Added
<1>5. \A i \in DOMAIN rows : rows[i].id \in 1..ids /\ rows[i].level = counted[origin[rows[i].id]]
  BY DEF Telling
<1>6. \A i \in DOMAIN rows' : rows'[i].id \in 1..ids' /\ rows'[i].level = counted'[origin'[rows'[i].id]]
  BY <1>1, <1>4, <1>5 DEF Added
<1>7. ASSUME NEW i \in DOMAIN rows', NEW j \in DOMAIN rows', i < j PROVE rows'[i].id < rows'[j].id
  <2>1. CASE i \in DOMAIN rows /\ j \in DOMAIN rows
    BY <1>7, <2>1 DEF Telling, Added
  <2>2. CASE i \in DOMAIN rows /\ j = Len(rows) + 1
    <3>1. rows[i].id \in 1..ids /\ ids \in Nat
      BY <2>2 DEF Telling
    <3>2. rows[i].id < ids + 1
      BY <3>1
    <3> QED BY <2>2, <3>2 DEF Added
  <2>3. CASE i = Len(rows) + 1
    <3>1. rows \in Seq(RowRec) /\ DOMAIN rows = 1..Len(rows) /\ Len(rows) \in Nat
      BY DEF Telling
    <3>2. j = Len(rows) + 1 \/ j < Len(rows) + 1
      BY <1>4, <3>1
    <3>3. j \in Nat
      BY <1>4, <3>1
    <3> QED BY <1>7, <2>3, <3>1, <3>2, <3>3
  <2> QED BY <1>4, <2>1, <2>2, <2>3
<1> QED BY <1>1, <1>3, <1>6, <1>7 DEF Telling, Added

LEMMA SetPutsStep == ASSUME GaugeInv, G!SetPuts PROVE GaugeInv'
<1>1. PICK o : o = Len(counted) - Len(queue)
  OBVIOUS
<1>2. PICK r : r = [id |-> ids + 1, level |-> setting.level]
  OBVIOUS
<1>3. /\ setting.pc = "put" /\ setting'.pc = "idle" /\ UNCHANGED <<queue, round, counted, stray>>
      /\ ids' = ids + 1 /\ rows' = Append(rows, r) /\ origin' = Append(origin, o)
  BY <1>1, <1>2 DEF G!SetPuts, G!Keep, G!NoSet
<1>4. counted \in Seq(Level) /\ queue \in Seq(Level) /\ Len(queue) < Len(counted) /\ setting.level = counted[o]
  BY <1>1, <1>3 DEF GaugeInv, Waiting
<1>5. o \in Nat /\ 1 <= o /\ o <= Len(counted)
  <2>1. Len(queue) \in Nat /\ Len(counted) \in Nat
    BY <1>4
  <2> QED BY ONLY <1>1, <1>4, <2>1
<1>6. setting.level \in Level
  BY <1>4, <1>5
<1>7. r \in RowRec /\ r.id = ids + 1 /\ r.level = counted[o]
  BY <1>2, <1>4, <1>6 DEF RowRec, GaugeInv, Telling
<1>8. Added(r, o) /\ DOMAIN rows = 1..Len(rows) /\ Len(rows) \in Nat
  BY <1>3, <1>5, <1>7, AddedIs DEF GaugeInv
<1>9. Telling'
  <2>1. stray' \subseteq 1..ids + 1
    BY <1>3 DEF GaugeInv, Telling
  <2>2. Telling /\ \A k \in 1..ids : origin[k] <= Len(counted') - Len(queue')
    BY <1>3 DEF GaugeInv, Telling
  <2>3. o <= Len(counted') - Len(queue')
    BY <1>1, <1>3, <1>5
  <2> QED BY <1>3, <1>5, <1>7, <1>8, <2>1, <2>2, <2>3, AddedTells
<1>10. Waiting'
  BY <1>3 DEF GaugeInv, Waiting
<1>11. Rounds'
  <2>1. \A k \in 1..ids : k \in 1..ids' /\ origin'[k] = origin[k]
    BY <1>3, <1>8 DEF Added, GaugeInv, Telling
  <2>2. stray' = stray /\ round' = round /\ counted' = counted
    BY <1>3
  <2> QED BY <2>1, <2>2 DEF GaugeInv, Rounds
<1>12. ids + 1 \notin stray \union {round.copy} /\ \A i \in DOMAIN rows : rows[i].id # ids + 1
  <2>1. ids \in Nat /\ stray \subseteq 1..ids /\ \A i \in DOMAIN rows : rows[i].id \in 1..ids
    BY DEF GaugeInv, Telling
  <2>2. round.copy = 0 \/ round.copy \in 1..ids
    BY DEF GaugeInv, Rounds
  <2> QED BY <2>1, <2>2
<1>13. \A i : i \in G!Reliable' <=> i \in G!Reliable \/ i = Len(rows) + 1
  BY <1>3, <1>7, <1>8, <1>12 DEF G!Reliable, Added
<1>14. InOrder'
  <2>1. \A j \in DOMAIN rows' : ~(Len(rows) + 1 < j)
    BY <1>8 DEF Added
  <2>2. ASSUME NEW i \in G!Reliable', NEW j \in G!Reliable', i < j
        PROVE  origin'[rows'[i].id] <= origin'[rows'[j].id]
    <3>1. i \in DOMAIN rows /\ i \in G!Reliable
      BY <1>8, <1>13, <2>1, <2>2 DEF G!Reliable, Added
    <3>2. rows'[i] = rows[i] /\ rows[i].id \in 1..ids /\ origin'[rows[i].id] = origin[rows[i].id]
      BY <1>8, <3>1 DEF Added, GaugeInv, Telling
    <3>3. CASE j \in G!Reliable
      <4>1. j \in DOMAIN rows
        BY <3>3 DEF G!Reliable
      <4>2. rows'[j] = rows[j] /\ rows[j].id \in 1..ids /\ origin'[rows[j].id] = origin[rows[j].id]
        BY <1>8, <4>1 DEF Added, GaugeInv, Telling
      <4> QED BY <2>2, <3>1, <3>2, <3>3, <4>2 DEF GaugeInv, InOrder
    <3>4. CASE j = Len(rows) + 1
      <4>1. rows'[j] = r /\ origin'[r.id] = o
        BY <1>7, <1>8, <3>4 DEF Added
      <4>2. origin[rows[i].id] <= o
        BY <1>1, <3>2 DEF GaugeInv, Telling
      <4> QED BY <3>2, <4>1, <4>2
    <3> QED BY <1>13, <3>3, <3>4
  <2>3. \E i \in G!Reliable' : \A j \in DOMAIN rows' : i < j => rows'[j].id = round'.copy
    BY <1>13, <2>1
  <2> QED BY <2>2, <2>3 DEF InOrder
<1> QED BY <1>9, <1>10, <1>11, <1>14 DEF GaugeInv

LEMMA NotifyStep ==
  ASSUME GaugeInv, UNCHANGED <<rows, queue, setting, round, ids, counted, origin, stray>> PROVE GaugeInv'
BY DEF GaugeInv, Waiting, Telling, Rounds, InOrder, G!Reliable

LEMMA RoundReadsStep == ASSUME GaugeInv, G!RoundReads PROVE GaugeInv'
<1>1. PICK n \in Nat : n = Len(rows) /\ DOMAIN rows = 1..n
  BY DEF GaugeInv, Telling
<1>2. n \in DOMAIN rows
  <2>1. n # 0
    BY <1>1 DEF GaugeInv, Telling
  <2> QED BY <1>1, <2>1
<1>3. PICK r : r = rows[n]
  OBVIOUS
<1>4. r \in RowRec /\ r.id \in 1..ids /\ r.level = counted[origin[r.id]]
  BY <1>2, <1>3 DEF GaugeInv, Telling
<1>5. /\ round.pc = "idle" /\ round.copy = 0 /\ UNCHANGED <<rows, queue, setting, ids, counted, origin, stray>>
      /\ \/ round' = [pc |-> "idle", base |-> 0, copy |-> 0]
         \/ round' = [pc |-> "copy", base |-> r, copy |-> 0]
  BY <1>1, <1>3 DEF G!RoundReads, G!NoRound, G!Newest, GaugeInv, Rounds
<1>6. Rounds'
  BY <1>4, <1>5 DEF Rounds, RowRec
<1>7. round'.copy = round.copy
  BY <1>5
<1>8. Waiting' /\ Telling'
  BY <1>5 DEF GaugeInv, Waiting, Telling
<1>9. InOrder'
  BY <1>5, <1>7 DEF GaugeInv, InOrder, G!Reliable
<1> QED BY <1>6, <1>8, <1>9 DEF GaugeInv

LEMMA RoundCopiesStep == ASSUME GaugeInv, G!RoundCopies PROVE GaugeInv'
<1>1. PICK o : o = origin[round.base.id]
  OBVIOUS
<1>2. PICK r : r = [id |-> ids + 1, level |-> round.base.level]
  OBVIOUS
<1>3. PICK b : b = round.base
  OBVIOUS
<1>4. /\ round = [pc |-> "copy", base |-> b, copy |-> 0]
      /\ b.id \in 1..ids /\ b.level \in Level /\ b.level = counted[origin[b.id]]
  BY <1>3 DEF GaugeInv, Rounds, G!RoundCopies
<1>5. /\ UNCHANGED <<queue, setting, counted, stray>>
      /\ ids' = ids + 1 /\ rows' = Append(rows, r) /\ origin' = Append(origin, o)
      /\ round' = [pc |-> "check", base |-> b, copy |-> ids + 1]
  BY <1>1, <1>2, <1>4 DEF G!RoundCopies, G!Keep
<1>6. o \in Nat /\ 1 <= o /\ o <= Len(counted) - Len(queue) /\ b.level = counted[o]
  BY <1>1, <1>3, <1>4 DEF GaugeInv, Telling
<1>7. r \in RowRec /\ r.id = ids + 1 /\ r.level = counted[o]
  BY <1>2, <1>3, <1>4, <1>6 DEF RowRec, GaugeInv, Telling
<1>8. Added(r, o) /\ DOMAIN rows = 1..Len(rows) /\ Len(rows) \in Nat
  BY <1>5, <1>6, <1>7, AddedIs DEF GaugeInv
<1>9. Telling'
  <2>1. stray' \subseteq 1..ids + 1
    BY <1>5 DEF GaugeInv, Telling
  <2>2. Telling /\ \A k \in 1..ids : origin[k] <= Len(counted') - Len(queue')
    BY <1>5 DEF GaugeInv, Telling
  <2> QED BY <1>5, <1>6, <1>7, <1>8, <2>1, <2>2, AddedTells
<1>10. Waiting'
  BY <1>5 DEF GaugeInv, Waiting
<1>11. Rounds'
  <2>1. ids \in Nat /\ b.id < ids + 1 /\ ids + 1 \in 1..ids' /\ b.id \in 1..ids'
    BY <1>4, <1>5 DEF GaugeInv, Telling
  <2>2. b.level = counted'[origin'[b.id]]
    BY <1>4, <1>5, <1>8 DEF Added
  <2>3. ids + 1 \notin stray /\ origin'[ids + 1] = origin'[b.id]
    <3>1. stray \subseteq 1..ids /\ ids \in Nat
      BY DEF GaugeInv, Telling
    <3> QED BY <1>1, <1>3, <1>4, <1>8, <3>1 DEF Added
  <2> QED BY <1>4, <1>5, <2>1, <2>2, <2>3 DEF Rounds
<1>12. \A i \in DOMAIN rows : rows[i].id \in 1..ids /\ rows[i].id # ids + 1 /\ rows[i].id # 0
  BY DEF GaugeInv, Telling
<1>13. \A i : i \in G!Reliable' <=> i \in G!Reliable
  <2>1. ASSUME NEW i PROVE i \in G!Reliable' <=> i \in G!Reliable
    <3>1. Len(rows) + 1 \notin G!Reliable'
      BY <1>5, <1>7, <1>8 DEF G!Reliable, Added
    <3>2. Len(rows) + 1 \notin G!Reliable
      BY <1>8 DEF G!Reliable
    <3>3. i # Len(rows) + 1 => (i \in DOMAIN rows' <=> i \in DOMAIN rows)
      BY <1>8 DEF Added
    <3>4. i \in DOMAIN rows => rows'[i] = rows[i] /\ rows[i].id # ids + 1 /\ rows[i].id # 0
      BY <1>8, <1>12 DEF Added
    <3>5. round.copy = 0 /\ round'.copy = ids + 1 /\ stray' = stray
      BY <1>4, <1>5
    <3> QED BY <3>1, <3>2, <3>3, <3>4, <3>5 DEF G!Reliable
  <2> QED BY <2>1
<1>14. InOrder'
  <2>1. PICK i \in G!Reliable : \A j \in DOMAIN rows : i < j => rows[j].id = round.copy
    BY DEF GaugeInv, InOrder
  <2>2. \A j \in DOMAIN rows' : i < j => rows'[j].id = round'.copy
    <3>1. \A j \in DOMAIN rows : rows[j].id # round.copy
      BY <1>4, <1>12
    <3> QED BY <1>5, <1>7, <1>8, <2>1, <3>1 DEF Added
  <2>3. \A x \in G!Reliable : rows'[x] = rows[x] /\ origin'[rows[x].id] = origin[rows[x].id]
    BY <1>8, <1>12 DEF G!Reliable, Added
  <2>4. \A x, y \in G!Reliable' : x < y => origin'[rows'[x].id] <= origin'[rows'[y].id]
    BY <1>13, <2>3 DEF GaugeInv, InOrder
  <2> QED BY <1>13, <2>1, <2>2, <2>4 DEF InOrder
<1> QED BY <1>9, <1>10, <1>11, <1>14 DEF GaugeInv

LEMMA RoundChecksStep == ASSUME GaugeInv, G!RoundChecks PROVE GaugeInv'
<1>1. PICK n \in Nat : n = Len(rows) /\ DOMAIN rows = 1..n
  BY DEF GaugeInv, Telling
<1>2. PICK c : c = round.copy
  OBVIOUS
<1>3. PICK b : b = round.base
  OBVIOUS
<1>4. /\ round = [pc |-> "check", base |-> b, copy |-> c] /\ c \in 1..ids /\ c \notin stray
      /\ b.id < c /\ origin[c] = origin[b.id] /\ b.id \in 1..ids /\ b.level \in Level
      /\ b.level = counted[origin[b.id]]
  BY <1>2, <1>3 DEF GaugeInv, Rounds, G!RoundChecks
<1>5. /\ UNCHANGED <<rows, queue, setting, ids, counted, origin, stray>>
      /\ round' = IF G!Overtaken THEN [pc |-> "delete", base |-> b, copy |-> c]
                  ELSE [pc |-> "idle", base |-> 0, copy |-> 0]
  BY <1>4 DEF G!RoundChecks, G!Keep, G!NoRound
<1>6. Waiting' /\ Telling'
  BY <1>5 DEF GaugeInv, Waiting, Telling
<1>7. CASE G!Overtaken
  <2>1. round' = [pc |-> "delete", base |-> b, copy |-> c]
    BY <1>5, <1>7
  <2>2. Rounds'
    BY <1>4, <1>5, <2>1 DEF Rounds
  <2>3. round'.copy = round.copy
    BY <1>4, <2>1
  <2>4. InOrder'
    BY <1>5, <2>3 DEF GaugeInv, InOrder, G!Reliable
  <2> QED BY <1>6, <2>2, <2>4 DEF GaugeInv
<1>8. CASE ~G!Overtaken
  <2>1. round' = [pc |-> "idle", base |-> 0, copy |-> 0]
    BY <1>5, <1>8
  <2>2. Rounds'
    BY <2>1 DEF Rounds
  <2>3. rows[n].id = c /\ rows[n - 1].id = b.id
    BY <1>1, <1>2, <1>3, <1>8 DEF G!Overtaken, G!Newest
  <2>4. \A x, y \in 1..n : x < y => rows[x].id < rows[y].id
    BY <1>1 DEF GaugeInv, Telling
  <2>5. \A x \in 1..n : rows[x].id \in 1..ids
    BY <1>1 DEF GaugeInv, Telling
  <2>6. n \in 1..n
    BY <1>1 DEF GaugeInv, Telling
  <2>7. PICK i \in 1..n : /\ i \in G!Reliable /\ rows[i].id # c
                         /\ \A j \in 1..n : i < j => rows[j].id = c
    BY <1>1, <1>2 DEF GaugeInv, InOrder, G!Reliable
  <2>8. i = n - 1 /\ n - 1 \in 1..n
    <3>1. i # n
      BY <2>3, <2>7
    <3>2. n - 1 \in 1..n /\ i <= n - 1 /\ n - 1 < n /\ i \in Int
      BY ONLY <1>1, <2>6, <2>7, <3>1
    <3>3. rows[n - 1].id # c
      BY <2>3, <2>4, <2>5, <2>6, <3>2
    <3>4. ~(i < n - 1)
      BY <2>7, <3>2, <3>3
    <3> QED BY ONLY <1>1, <3>2, <3>4
  <2>9. \A x : x \in G!Reliable' <=> x \in G!Reliable \/ x = n
    <3>1. ASSUME NEW x PROVE x \in G!Reliable' <=> x \in G!Reliable \/ x = n
      <4>1. x \in 1..n => (rows[x].id = c => x = n) /\ rows[x].id # 0
        <5>1. x \in 1..n => x < n \/ x = n
          BY <1>1
        <5>2. \A k \in 1..ids : ~(k < k) /\ k # 0
          BY DEF GaugeInv, Telling
        <5> QED BY <2>3, <2>4, <2>5, <2>6, <5>1, <5>2
      <4>2. round'.copy = 0 /\ round.copy = c /\ rows' = rows /\ stray' = stray
        BY <1>4, <1>5, <2>1
      <4> QED BY <1>1, <1>4, <2>3, <2>6, <4>1, <4>2 DEF G!Reliable
    <3> QED BY <3>1
  <2>10. \A x, y \in G!Reliable : x < y => origin[rows[x].id] <= origin[rows[y].id]
    BY DEF GaugeInv, InOrder
  <2>11. ASSUME NEW x \in G!Reliable', NEW y \in G!Reliable', x < y
         PROVE  origin[rows[x].id] <= origin[rows[y].id]
    <3>1. x \in 1..n /\ y \in 1..n
      BY <1>1, <1>5, <2>11 DEF G!Reliable
    <3>2. x # n
      BY <1>1, <2>11, <3>1
    <3>3. x \in G!Reliable
      BY <2>9, <3>2
    <3>4. CASE y # n
      BY <2>9, <2>10, <2>11, <3>3, <3>4
    <3>5. CASE y = n
      <4>1. origin[rows[y].id] = origin[rows[n - 1].id]
        BY <1>4, <2>3, <3>5
      <4>2. x < n - 1 \/ x = n - 1
        BY <1>1, <3>1, <3>2
      <4>3. n - 1 \in G!Reliable
        BY <2>7, <2>8
      <4>4. origin[rows[n - 1].id] \in Nat
        BY <2>5, <2>8 DEF GaugeInv, Telling
      <4> QED BY <2>10, <3>3, <4>1, <4>2, <4>3, <4>4
    <3> QED BY <3>4, <3>5
  <2>12. \A j \in DOMAIN rows' : ~(n < j)
    BY <1>1, <1>5
  <2>13. InOrder'
    BY <1>5, <2>9, <2>11, <2>12 DEF InOrder
  <2> QED BY <1>6, <2>2, <2>13 DEF GaugeInv
<1> QED BY <1>7, <1>8

LEMMA RoundDeletesStep == ASSUME GaugeInv, G!RoundDeletes PROVE GaugeInv'
<1>1. rows \in Seq(RowRec) /\ DOMAIN rows = 1..Len(rows) /\ Len(rows) \in Nat
  BY DEF GaugeInv, Telling
<1>2. PICK k : k = round.copy
  OBVIOUS
<1>3. /\ UNCHANGED <<queue, setting, ids, counted, origin, stray>>
      /\ round' = [pc |-> "idle", base |-> 0, copy |-> 0]
      /\ k \in 1..ids
  BY <1>2 DEF G!RoundDeletes, G!Keep, G!NoRound, GaugeInv, Rounds
<1>4. \A i \in DOMAIN rows : rows[i].id \in 1..ids /\ rows[i].id # 0
  BY DEF GaugeInv, Telling
<1>5. \A x, y \in DOMAIN rows : x < y => rows[x].id < rows[y].id
  BY DEF GaugeInv, Telling
<1>6. \A x, y \in DOMAIN rows : rows[x].id = rows[y].id => x = y
  <2>1. \A i \in 1..ids : ~(i < i)
    BY DEF GaugeInv, Telling
  <2>2. \A x, y \in DOMAIN rows : x < y \/ y < x \/ x = y
    BY <1>1
  <2> QED BY <1>4, <1>5, <2>1, <2>2
<1>7. Waiting' /\ Rounds'
  BY <1>3 DEF GaugeInv, Waiting, Rounds
<1>8. PICK i \in DOMAIN rows : i \in G!Reliable /\ \A j \in DOMAIN rows : i < j => rows[j].id = k
  BY <1>2 DEF GaugeInv, InOrder, G!Reliable
<1>9. rows[i].id # k /\ rows[i].id \notin stray
  BY <1>2, <1>8 DEF G!Reliable
<1>10. \A x, y \in G!Reliable : x < y => origin[rows[x].id] <= origin[rows[y].id]
  BY DEF GaugeInv, InOrder
<1>11. PICK own : own = {x \in 1..Len(rows) : rows[x].id = k}
  OBVIOUS
<1>12. G!SelectInSeq(rows, LAMBDA r : r.id = round.copy) = IF own # {} THEN G!Min(own) ELSE 0
  BY <1>2, <1>11 DEF G!SelectInSeq
<1>13. rows' = IF own # {} THEN G!RemoveAt(rows, G!Min(own)) ELSE rows
  BY <1>2, <1>11, <1>12 DEF G!RoundDeletes, G!RemoveFirstMatch
<1>14. CASE own = {}
  <2>1. rows' = rows
    BY <1>13, <1>14
  <2>2. \A x \in DOMAIN rows : rows[x].id # k
    BY <1>1, <1>11, <1>14
  <2>3. \A x : x \in G!Reliable' <=> x \in G!Reliable
    BY <1>2, <1>3, <1>4, <2>1, <2>2 DEF G!Reliable
  <2>4. Telling'
    BY <1>3, <2>1 DEF GaugeInv, Telling
  <2>5. InOrder'
    BY <1>3, <1>8, <1>10, <2>1, <2>2, <2>3 DEF InOrder
  <2> QED BY <1>7, <2>4, <2>5 DEF GaugeInv
<1>15. CASE own # {}
  <2>1. PICK c \in own : TRUE
    BY <1>15
  <2>2. c \in DOMAIN rows /\ c \in Nat /\ rows[c].id = k
    BY <1>1, <1>11, <2>1
  <2>3. own = {c}
    BY <1>1, <1>6, <1>11, <2>1, <2>2
  <2>4. G!Min(own) = c
    BY <2>2, <2>3 DEF G!Min
  <2>5. rows' \in Seq(RowRec) /\ Omits(rows', rows, c)
    BY <1>1, <1>13, <1>15, <2>2, <2>4, OmitsIs
  <2>6. DOMAIN rows' \subseteq Nat /\ DOMAIN rows \subseteq Nat
    BY <1>1, <2>5 DEF Omits
  <2>7. ASSUME NEW y \in DOMAIN rows'
        PROVE  \E x \in DOMAIN rows : x # c /\ rows'[y] = rows[x] /\ y = IF x < c THEN x ELSE x - 1
    <3>1. CASE y < c
      <4>1. y \in DOMAIN rows /\ rows'[y] = rows[y]
        BY <2>5, <3>1 DEF Omits
      <4> QED BY <2>2, <2>6, <3>1, <4>1
    <3>2. CASE ~(y < c)
      <4>1. y + 1 \in DOMAIN rows /\ rows'[y] = rows[y + 1]
        BY <2>5, <3>2 DEF Omits
      <4>2. y + 1 # c /\ ~(y + 1 < c) /\ y = (y + 1) - 1
        BY <2>2, <2>6, <3>2
      <4> QED BY <4>1, <4>2
    <3> QED BY <3>1, <3>2
  <2>8. ASSUME NEW x \in DOMAIN rows, x # c
        PROVE  \E y \in DOMAIN rows' : rows'[y] = rows[x] /\ y = IF x < c THEN x ELSE x - 1
    <3>1. x \in Nat /\ c \in Nat
      BY <2>2, <2>6
    <3>2. x < c \/ (c < x /\ ~(x < c))
      BY ONLY <2>8, <3>1
    <3>3. CASE x < c
      BY <2>5, <3>3 DEF Omits
    <3>4. CASE c < x /\ ~(x < c)
      BY <2>5, <3>4 DEF Omits
    <3> QED BY <3>2, <3>3, <3>4
  <2>9. \A x, y \in DOMAIN rows : /\ x # c /\ y # c
                                 /\ (IF x < c THEN x ELSE x - 1) < (IF y < c THEN y ELSE y - 1) => x < y
    BY <2>2, <2>6
  <2>10. Telling'
    <3>1. rows' # <<>>
      <4>1. i # c
        BY <1>9, <2>2
      <4>2. PICK y \in DOMAIN rows' : rows'[y] = rows[i]
        BY <1>8, <2>8, <4>1
      <4> QED BY <2>5, <4>2
    <3>2. \A y \in DOMAIN rows' : rows'[y].id \in 1..ids /\ rows'[y].level = counted[origin[rows'[y].id]]
      BY <2>7 DEF GaugeInv, Telling
    <3>3. ASSUME NEW u \in DOMAIN rows', NEW w \in DOMAIN rows', u < w PROVE rows'[u].id < rows'[w].id
      <4>1. PICK x \in DOMAIN rows : x # c /\ rows'[u] = rows[x] /\ u = IF x < c THEN x ELSE x - 1
        BY <2>7
      <4>2. PICK y \in DOMAIN rows : y # c /\ rows'[w] = rows[y] /\ w = IF y < c THEN y ELSE y - 1
        BY <2>7
      <4>3. x < y
        BY ONLY <2>2, <2>6, <3>3, <4>1, <4>2
      <4> QED BY <1>5, <4>1, <4>2, <4>3
    <3> QED BY <1>3, <2>5, <3>1, <3>2, <3>3 DEF GaugeInv, Telling
  <2>11. ASSUME NEW x \in DOMAIN rows, x # c, NEW y \in DOMAIN rows', rows'[y] = rows[x]
         PROVE  x \in G!Reliable <=> y \in G!Reliable'
    <3>1. rows[x].id # k /\ rows[x].id # 0
      BY <1>4, <1>6, <2>2, <2>11
    <3>2. round'.copy = 0 /\ round.copy = k /\ stray' = stray
      BY <1>2, <1>3
    <3> QED BY <2>11, <3>1, <3>2 DEF G!Reliable
  <2>12. InOrder'
    <3>1. i # c
      BY <1>9, <2>2
    <3>2. PICK m \in DOMAIN rows' : rows'[m] = rows[i] /\ m = IF i < c THEN i ELSE i - 1
      BY <1>8, <2>8, <3>1
    <3>3. m \in G!Reliable'
      BY <1>8, <2>11, <3>1, <3>2
    <3>4. ASSUME NEW w \in DOMAIN rows', m < w PROVE FALSE
      <4>1. PICK y \in DOMAIN rows : y # c /\ rows'[w] = rows[y] /\ w = IF y < c THEN y ELSE y - 1
        BY <2>7
      <4>2. i < y
        BY ONLY <1>8, <2>2, <2>6, <3>1, <3>2, <3>4, <4>1
      <4> QED BY <1>6, <1>8, <2>2, <4>1, <4>2
    <3>5. ASSUME NEW u \in G!Reliable', NEW w \in G!Reliable', u < w
          PROVE  origin[rows'[u].id] <= origin[rows'[w].id]
      <4>1. u \in DOMAIN rows' /\ w \in DOMAIN rows'
        BY DEF G!Reliable
      <4>2. PICK x \in DOMAIN rows : x # c /\ rows'[u] = rows[x] /\ u = IF x < c THEN x ELSE x - 1
        BY <2>7, <4>1
      <4>3. PICK y \in DOMAIN rows : y # c /\ rows'[w] = rows[y] /\ w = IF y < c THEN y ELSE y - 1
        BY <2>7, <4>1
      <4>4. x < y
        BY ONLY <2>2, <2>6, <3>5, <4>2, <4>3
      <4>5. x \in G!Reliable /\ y \in G!Reliable
        BY <2>11, <3>5, <4>1, <4>2, <4>3
      <4> QED BY <1>10, <4>2, <4>3, <4>4, <4>5
    <3> QED BY <1>3, <3>3, <3>4, <3>5 DEF InOrder
  <2> QED BY <1>7, <2>10, <2>12 DEF GaugeInv
<1> QED BY <1>14, <1>15

LEMMA CrashStep == ASSUME GaugeInv, G!Crash PROVE GaugeInv'
<1>1. PICK n \in Nat : n = Len(counted)
  BY DEF GaugeInv, Waiting
<1>2. PICK m \in Nat : m = Len(rows) /\ DOMAIN rows = 1..m /\ m \in DOMAIN rows
  <2>1. rows \in Seq(RowRec) /\ rows # <<>>
    BY DEF GaugeInv, Telling
  <2> QED BY <2>1
<1>3. /\ queue' = <<>> /\ setting'.pc = "idle" /\ round' = [pc |-> "idle", base |-> 0, copy |-> 0]
      /\ counted' = Append(counted, 0)
  BY DEF G!Crash, G!NoSet, G!NoRound
<1>4. /\ counted' \in Seq(Level) /\ Len(counted') = n + 1 /\ counted'[n + 1] = 0
      /\ \A k \in 1..n : counted'[k] = counted[k]
  BY <1>1, <1>3, LevelsAre DEF GaugeInv, Waiting
<1>5. Waiting'
  <2>1. Len(queue') = 0 /\ queue' \in Seq(Level) /\ DOMAIN queue' = {}
    BY <1>3
  <2> QED BY <1>3, <1>4, <2>1 DEF Waiting
<1>6. Rounds'
  BY <1>3 DEF Rounds
<1>7. n + 1 \in Nat /\ 1 <= n + 1 /\ n + 1 <= Len(counted') - Len(queue')
  BY <1>3, <1>4
<1>8. ids \in Nat /\ DOMAIN origin = 1..ids /\ origin \in Seq(Nat) /\ Len(origin) = ids /\ stray \subseteq 1..ids
  BY DEF GaugeInv, Telling
<1>9. \A k \in 1..ids : /\ origin[k] \in Nat /\ 1 <= origin[k] /\ origin[k] <= n
                       /\ counted'[origin[k]] = counted[origin[k]]
  <2>1. \A k \in 1..ids : origin[k] \in Nat /\ 1 <= origin[k] /\ origin[k] <= n - Len(queue)
    BY <1>1 DEF GaugeInv, Telling
  <2>2. Len(queue) \in Nat
    BY DEF GaugeInv, Waiting
  <2>3. \A k \in 1..ids : origin[k] \in 1..n
    BY ONLY <1>1, <2>1, <2>2
  <2> QED BY <1>4, <2>1, <2>3
<1>10. \A k \in 1..ids : origin[k] <= Len(counted') - Len(queue')
  BY <1>1, <1>7, <1>9
<1>11. \A x \in DOMAIN rows : rows[x].id \in 1..ids /\ rows[x].id # 0
  BY DEF GaugeInv, Telling
<1>12. \A x, y \in DOMAIN rows : x < y => rows[x].id < rows[y].id
  BY DEF GaugeInv, Telling
<1>13. round.copy = 0 \/ round.copy \in 1..ids
  BY DEF GaugeInv, Rounds
<1>14. \A x, y \in G!Reliable : x < y => origin[rows[x].id] <= origin[rows[y].id]
  BY DEF GaugeInv, InOrder
<1>15. CASE G!Differs(rows, 0)
  <2>1. PICK r : r = [id |-> ids + 1, level |-> 0]
    OBVIOUS
  <2>2. ids' = ids + 1 /\ rows' = Append(rows, r) /\ origin' = Append(origin, n + 1)
    BY <1>4, <1>15, <2>1 DEF G!Crash, G!Reset
  <2>3. r \in RowRec /\ r.id = ids + 1 /\ r.level = 0
    BY <1>8, <2>1, LevelsAre DEF RowRec
  <2>4. Added(r, n + 1)
    BY <1>7, <2>2, <2>3, AddedIs DEF GaugeInv
  <2>5. stray' = stray \union ({round.copy} \ {0})
    <3>1. G!Newest(rows').id = ids + 1
      <4>1. Len(rows') = m + 1 /\ rows'[m + 1] = r
        BY <1>2, <2>2, <2>3 DEF GaugeInv, Telling
      <4> QED BY <2>3, <4>1 DEF G!Newest
    <3>2. ids + 1 \notin stray /\ round.copy # ids + 1
      BY <1>8, <1>13
    <3> QED BY <3>1, <3>2 DEF G!Crash
  <2>6. Telling'
    <3>1. stray' \subseteq 1..ids
      BY <1>8, <1>13, <2>5
    <3>2. \A k \in 1..ids : k \in 1..ids + 1
      BY <1>8
    <3>3. stray' \subseteq 1..ids + 1
      BY <3>1, <3>2
    <3> QED BY <1>4, <1>7, <1>9, <1>10, <2>3, <2>4, <3>3, AddedTells DEF GaugeInv
  <2>7. ASSUME NEW x PROVE x \in G!Reliable' <=> x \in G!Reliable \/ x = m + 1
    <3>1. x \in DOMAIN rows' <=> x \in DOMAIN rows \/ x = m + 1
      BY <1>2, <2>4 DEF Added
    <3>2. round'.copy = 0 /\ m + 1 \notin DOMAIN rows /\ rows'[m + 1] = r
      BY <1>2, <1>3, <2>4 DEF Added
    <3>3. ids + 1 # 0 /\ ids + 1 \notin stray'
      BY <1>8, <1>13, <2>5
    <3>4. CASE x = m + 1
      BY <2>3, <3>1, <3>2, <3>3, <3>4 DEF G!Reliable
    <3>5. CASE x # m + 1
      <4>1. x \in DOMAIN rows => rows'[x] = rows[x] /\ rows[x].id # 0
        BY <1>11, <2>4 DEF Added
      <4> QED BY <2>5, <3>1, <3>2, <3>5, <4>1 DEF G!Reliable
    <3> QED BY <3>4, <3>5
  <2>8. \A j \in DOMAIN rows' : ~(m + 1 < j)
    BY <1>2, <2>4 DEF Added
  <2>9. ASSUME NEW x \in G!Reliable', NEW y \in G!Reliable', x < y
        PROVE  origin'[rows'[x].id] <= origin'[rows'[y].id]
    <3>1. y \in DOMAIN rows'
      BY DEF G!Reliable
    <3>2. x # m + 1
      BY <2>8, <2>9, <3>1
    <3>3. x \in G!Reliable /\ x \in DOMAIN rows
      BY <2>7, <3>2 DEF G!Reliable
    <3>4. rows'[x] = rows[x] /\ rows[x].id \in 1..ids /\ origin'[rows[x].id] = origin[rows[x].id]
      BY <1>11, <2>4, <3>3 DEF Added
    <3>5. CASE y = m + 1
      <4>1. rows'[y].id = ids + 1 /\ origin'[ids + 1] = n + 1
        BY <1>2, <2>3, <2>4, <3>5 DEF Added
      <4>2. origin[rows[x].id] \in Nat /\ origin[rows[x].id] <= n
        BY <1>9, <3>4
      <4>3. origin[rows[x].id] <= n + 1
        BY ONLY <1>1, <4>2
      <4> QED BY <3>4, <4>1, <4>3
    <3>6. CASE y # m + 1
      <4>1. y \in G!Reliable /\ y \in DOMAIN rows
        BY <2>7, <3>6 DEF G!Reliable
      <4>2. rows'[y] = rows[y] /\ origin'[rows[y].id] = origin[rows[y].id]
        BY <1>11, <2>4, <4>1 DEF Added
      <4> QED BY <1>14, <2>9, <3>3, <3>4, <4>1, <4>2
    <3> QED BY <3>5, <3>6
  <2>10. InOrder'
    BY <2>7, <2>8, <2>9 DEF InOrder
  <2> QED BY <1>5, <1>6, <2>6, <2>10 DEF GaugeInv
<1>16. CASE ~G!Differs(rows, 0)
  <2>1. PICK d : d = rows[m].id
    OBVIOUS
  <2>2. /\ rows' = rows /\ ids' = ids /\ rows[m].level = 0
        /\ origin' = [origin EXCEPT ![d] = n + 1]
        /\ stray' = (stray \union ({round.copy} \ {0})) \ {d}
    BY <1>2, <1>4, <1>16, <2>1 DEF G!Crash, G!Reset, G!Differs, G!Newest
  <2>3. d \in 1..ids
    BY <1>2, <1>11, <2>1
  <2>4. /\ origin' \in Seq(Nat) /\ DOMAIN origin' = 1..ids /\ Len(origin') = ids
        /\ origin'[d] = n + 1 /\ \A k \in 1..ids : k # d => origin'[k] = origin[k]
    <3>1. /\ DOMAIN origin' = 1..ids /\ origin'[d] = n + 1
          /\ \A k \in 1..ids : k # d => origin'[k] = origin[k]
      BY <1>8, <2>2, <2>3
    <3>2. \A k \in 1..ids : origin'[k] \in Nat
      BY <1>7, <1>9, <3>1
    <3>3. origin' = [k \in 1..ids |-> origin'[k]]
      BY <1>8, <2>2
    <3>4. origin' \in Seq(Nat)
      BY <1>8, <3>2, <3>3
    <3>5. Len(origin') = ids
      BY <1>8, <3>1, <3>4
    <3> QED BY <3>1, <3>4, <3>5
  <2>5. ASSUME NEW x \in DOMAIN rows, x # m PROVE rows[x].id # d /\ x < m
    <3>1. x < m
      BY <1>2, <2>5
    <3>2. rows[x].id < d
      BY <1>2, <1>12, <2>1, <3>1
    <3>3. ~(d < d)
      BY <1>8, <2>3
    <3> QED BY <3>1, <3>2, <3>3
  <2>6. Telling'
    <3>1. \A k \in 1..ids : origin'[k] \in Nat /\ 1 <= origin'[k] /\ origin'[k] <= Len(counted') - Len(queue')
      BY <1>7, <1>9, <1>10, <2>4
    <3>2. ASSUME NEW x \in DOMAIN rows PROVE rows[x].level = counted'[origin'[rows[x].id]]
      <4>1. CASE x = m
        BY <1>4, <2>1, <2>2, <2>4, <4>1
      <4>2. CASE x # m
        BY <1>9, <1>11, <2>4, <2>5, <4>2 DEF GaugeInv, Telling
      <4> QED BY <4>1, <4>2
    <3>3. stray' \subseteq 1..ids
      BY <1>8, <1>13, <2>2
    <3> QED BY <1>8, <2>2, <2>4, <3>1, <3>2, <3>3 DEF GaugeInv, Telling
  <2>7. ASSUME NEW x PROVE x \in G!Reliable' <=> x \in G!Reliable \/ x = m
    <3>1. round'.copy = 0 /\ rows' = rows
      BY <1>3, <2>2
    <3>2. CASE x = m
      BY <1>2, <1>11, <2>1, <2>2, <3>1, <3>2 DEF G!Reliable
    <3>3. CASE x # m
      BY <1>11, <2>2, <2>5, <3>1, <3>3 DEF G!Reliable
    <3> QED BY <3>2, <3>3
  <2>8. \A j \in DOMAIN rows' : ~(m < j)
    BY <1>2, <2>2
  <2>9. ASSUME NEW x \in G!Reliable', NEW y \in G!Reliable', x < y
        PROVE  origin'[rows[x].id] <= origin'[rows[y].id]
    <3>1. x \in DOMAIN rows /\ y \in DOMAIN rows
      BY <2>2 DEF G!Reliable
    <3>2. x # m
      BY <2>2, <2>8, <2>9, <3>1
    <3>3. x \in G!Reliable
      BY <2>7, <3>2
    <3>4. origin'[rows[x].id] = origin[rows[x].id]
      BY <1>11, <2>4, <2>5, <3>1, <3>2
    <3>5. CASE y = m
      <4>1. origin'[rows[y].id] = n + 1
        BY <2>1, <2>4, <3>5
      <4>2. origin[rows[x].id] \in Nat /\ origin[rows[x].id] <= n
        BY <1>9, <1>11, <3>1
      <4>3. origin[rows[x].id] <= n + 1
        BY ONLY <1>1, <4>2
      <4> QED BY <3>4, <4>1, <4>3
    <3>6. CASE y # m
      <4>1. y \in G!Reliable
        BY <2>7, <3>6
      <4>2. origin'[rows[y].id] = origin[rows[y].id]
        BY <1>11, <2>4, <2>5, <3>1, <3>6
      <4> QED BY <1>14, <2>9, <3>3, <3>4, <4>1, <4>2
    <3> QED BY <3>5, <3>6
  <2>10. InOrder'
    BY <2>2, <2>7, <2>8, <2>9 DEF InOrder
  <2> QED BY <1>5, <1>6, <2>6, <2>10 DEF GaugeInv
<1> QED BY <1>15, <1>16

LEMMA GaugeMoves == ASSUME GaugeInv, G!Next PROVE GaugeInv'
<1>1. ASSUME G!Notify PROVE GaugeInv'
  BY <1>1, NotifyStep DEF G!Notify, G!Keep
<1> QED BY <1>1, CountStep, SetReadsStep, SetPutsStep, RoundReadsStep, RoundCopiesStep,
           RoundChecksStep, RoundDeletesStep, CrashStep DEF G!Next

LEMMA GaugeInvariance == LiveSpec => []GaugeInv
<1>1. LiveInit => GaugeInv
  BY GaugeStarts DEF LiveInit
<1>2. GaugeInv /\ [LiveNext]_all => GaugeInv'
  <2>1. SUFFICES ASSUME GaugeInv, LiveNext \/ UNCHANGED all PROVE GaugeInv'
    OBVIOUS
  <2>2. UNCHANGED gauges \/ G!Next
    BY <2>1 DEF LiveNext, all
  <2>3. UNCHANGED gauges => UNCHANGED <<rows, queue, setting, round, ids, counted, origin, stray>>
    BY DEF gauges
  <2> QED BY <2>1, <2>2, <2>3, NotifyStep, GaugeMoves
<1> QED BY <1>1, <1>2, PTL DEF LiveSpec

(* Whatever was counted while the newest row was repeated, and wherever a   *)
(* crash came, the rows that are to be relied on tell of levels that were   *)
(* counted, in the order in which they were (_gr_gauges_maintain_type).     *)
THEOREM LevelsAlwaysTrue == LiveSpec => []NoFalseLevel
<1>1. GaugeInv => NoFalseLevel
  <2>1. SUFFICES ASSUME GaugeInv PROVE G!NoFalseLevel
    BY DEF NoFalseLevel
  <2>2. \A i \in G!Reliable : rows[i].level = counted[origin[rows[i].id]]
    BY <2>1 DEF GaugeInv, Telling, G!Reliable
  <2>3. \A i, j \in G!Reliable : i < j => origin[rows[i].id] <= origin[rows[j].id]
    BY <2>1 DEF GaugeInv, InOrder
  <2> QED BY <2>2, <2>3 DEF G!NoFalseLevel
<1> QED BY <1>1, GaugeInvariance, PTL
-----------------------------------------------------------------------------
(* The channel to a worker process: the loop of _on_channel_read.          *)

LEMMA Concat ==
  ASSUME NEW M, NEW a \in Seq(M), NEW b \in Seq(M), NEW w, w = a \o b
  PROVE  /\ w \in Seq(M) /\ Len(w) = Len(a) + Len(b)
         /\ \A i \in 1..Len(a) + Len(b) : w[i] = IF i <= Len(a) THEN a[i] ELSE b[i - Len(a)]
OBVIOUS

LEMMA LeastNat ==
  ASSUME NEW V \in SUBSET Nat, V # {}
  PROVE  \E n \in V : \A m \in V : n <= m
<1>1. PICK Low : Low = {0..m : m \in V}
  OBVIOUS
<1>2. Low \subseteq FiniteSubsetsOf(Nat) /\ Low # {}
  <2>1. ASSUME NEW m \in Nat PROVE 0..m \in FiniteSubsetsOf(Nat)
    <3>1. IsFiniteSet(0..m)
      BY FS_Interval
    <3>2. 0..m \in SUBSET Nat
      OBVIOUS
    <3> QED BY <3>1, <3>2 DEF FiniteSubsetsOf
  <2> QED BY <1>1, <2>1
<1>3. PICK x \in Low : \A y \in Low : ~ (<<y, x>> \in StrictSubsetOrdering(Nat))
  <2>1. IsWellFoundedOn(StrictSubsetOrdering(Nat), FiniteSubsetsOf(Nat))
    BY FS_StrictSubsetOrderingWellFounded
  <2> QED BY <1>2, <2>1, WFMin
<1>4. PICK n \in V : x = 0..n
  BY <1>1
<1>5. ASSUME NEW m \in V, ~(n <= m) PROVE FALSE
  <2>1. m \in Nat /\ n \in Nat /\ m < n
    BY <1>5
  <2>2. 0..m \subseteq 0..n /\ n \in 0..n /\ n \notin 0..m
    BY <2>1
  <2>3. 0..m \in SUBSET Nat /\ 0..n \in SUBSET Nat /\ 0..m # 0..n
    BY <2>1, <2>2
  <2>4. <<0..m, 0..n>> \in StrictSubsetOrdering(Nat)
    BY <2>2, <2>3 DEF StrictSubsetOrdering
  <2>5. 0..m \in Low
    BY <1>1
  <2> QED BY <1>3, <1>4, <2>4, <2>5
<1> QED BY <1>5


Heads == Seq(Nat \X Nat) \X (Nat \union {-1})

\* What the loop does with a buffer, where f is what it does with what is left.
Round(f, x) ==
  IF x[2] = -1
  THEN IF Len(x[1]) < Header THEN [buf |-> x[1], len |-> -1, out |-> <<>>, bad |-> FALSE]
       ELSE IF C!LengthIn(x[1]) > MaxSize
            THEN [buf |-> x[1], len |-> -1, out |-> <<>>, bad |-> TRUE]
       ELSE f[<<C!Shifted(x[1], Header), C!LengthIn(x[1])>>]
  ELSE IF x[2] > Len(x[1]) THEN [buf |-> x[1], len |-> x[2], out |-> <<>>, bad |-> FALSE]
  ELSE C!Before(C!MessageOf(C!Taken(x[1], x[2])), f[<<C!Shifted(x[1], x[2]), -1>>])
Cuts(f) == f = [x \in Heads |-> Round(f, x)]

\* The units left, and one more while a message is awaited.
Size(x) == 2 * Len(x[1]) + IF x[2] = -1 THEN 0 ELSE 1

LEMMA SizeIs ==
  ASSUME NEW buf, NEW len, NEW n, n = Len(buf)
  PROVE  Size(<<buf, len>>) = 2 * n + IF len = -1 THEN 0 ELSE 1
BY DEF Size

LEMMA RoundIs ==
  ASSUME NEW f, NEW buf, NEW len
  PROVE  Round(f, <<buf, len>>) =
           IF len = -1
           THEN IF Len(buf) < Header THEN [buf |-> buf, len |-> -1, out |-> <<>>, bad |-> FALSE]
                ELSE IF C!LengthIn(buf) > MaxSize
                     THEN [buf |-> buf, len |-> -1, out |-> <<>>, bad |-> TRUE]
                ELSE f[<<C!Shifted(buf, Header), C!LengthIn(buf)>>]
           ELSE IF len > Len(buf) THEN [buf |-> buf, len |-> len, out |-> <<>>, bad |-> FALSE]
           ELSE C!Before(C!MessageOf(C!Taken(buf, len)), f[<<C!Shifted(buf, len), -1>>])
<1>1. <<buf, len>>[1] = buf /\ <<buf, len>>[2] = len
  OBVIOUS
<1> QED BY <1>1 DEF Round

LEMMA SizesAre ==
  /\ Header \in Nat /\ Header # 0 /\ Sizes \subseteq Nat /\ ReadSize \in Nat \ {0}
BY LiveAssumption DEF C!ChannelSizes

LEMMA CutIs == C!Cut = CHOOSE f : Cuts(f)
BY DEF C!Cut, Cuts, Round, Heads

\* k units of s from place b on.
Copies(q, k, s, b) == DOMAIN q = 1..k /\ \A i \in 1..k : q[i] = s[b + i]

LEMMA TakenIs ==
  ASSUME NEW M, NEW s \in Seq(M), NEW k \in 0..Len(s), NEW q, q = C!Taken(s, k)
  PROVE  q \in Seq(M) /\ Len(q) = k /\ Copies(q, k, s, 0)
<1>1. q = SubSeq(s, 1, k)
  BY DEF C!Taken
<1>2. q \in Seq(M) /\ Len(q) = k /\ \A i \in 1..k : q[i] = s[i]
  BY <1>1
<1>3. \A i \in 1..k : 0 + i = i
  OBVIOUS
<1> QED BY <1>2, <1>3 DEF Copies

LEMMA ShiftedIs ==
  ASSUME NEW M, NEW s \in Seq(M), NEW k \in 0..Len(s), NEW q, q = C!Shifted(s, k)
  PROVE  q \in Seq(M) /\ Len(q) = Len(s) - k /\ Copies(q, Len(s) - k, s, k)
<1>1. PICK n \in Nat : n = Len(s)
  OBVIOUS
<1>2. q = SubSeq(s, k + 1, n)
  BY <1>1 DEF C!Shifted
<1>3. q \in Seq(M) /\ Len(q) = n - k /\ \A i \in 1..n - k : q[i] = s[k + i]
  BY <1>1, <1>2
<1> QED BY <1>1, <1>3 DEF Copies

LEMMA LengthIsNat ==
  ASSUME sent \in Seq(Nat), NEW s \in Seq(Nat \X Nat), Header <= Len(s)
  PROVE  C!LengthIn(s) \in Nat
<1>1. CASE \E i \in DOMAIN sent : C!Taken(s, Header) = [k \in 1..Header |-> <<i, k>>]
  <2>1. PICK i \in DOMAIN sent : C!Taken(s, Header) = [k \in 1..Header |-> <<i, k>>]
    BY <1>1
  <2>2. 1 \in 1..Header /\ Header \in 0..Len(s)
    BY SizesAre
  <2>3. C!Taken(s, Header)[1] = s[1]
    <3>1. Copies(C!Taken(s, Header), Header, s, 0)
      BY <2>2, TakenIs
    <3> QED BY <2>2, <3>1 DEF Copies
  <2>4. s[1][1] = i
    BY <2>1, <2>2, <2>3
  <2>5. C!LengthIn(s) = sent[i]
    BY <1>1, <2>4 DEF C!LengthIn
  <2> QED BY <2>5
<1>2. CASE ~\E i \in DOMAIN sent : C!Taken(s, Header) = [k \in 1..Header |-> <<i, k>>]
  BY <1>2 DEF C!LengthIn
<1> QED BY <1>1, <1>2

\* A round only needs to know of what is smaller.
LEMMA RoundOfLess ==
  ASSUME sent \in Seq(Nat), NEW x \in Heads, NEW f, NEW g,
         \A y \in Heads : Size(y) < Size(x) => f[y] = g[y]
  PROVE  Round(f, x) = Round(g, x)
<1>1. PICK buf \in Seq(Nat \X Nat), len \in Nat \union {-1} : x = <<buf, len>>
  BY DEF Heads
<1>2. PICK n \in Nat : n = Len(buf)
  OBVIOUS
<1>3. Size(x) = 2 * n + IF len = -1 THEN 0 ELSE 1
  BY <1>1, <1>2, SizeIs
<1>4. Header \in Nat /\ Header # 0
  BY SizesAre
<1>5. CASE len = -1 /\ ~(n < Header)
  <2>1. PICK rest, k : rest = C!Shifted(buf, Header) /\ k = C!LengthIn(buf)
    OBVIOUS
  <2>2. Header \in 0..n
    BY <1>4, <1>5
  <2>3. rest \in Seq(Nat \X Nat) /\ Len(rest) = n - Header
    BY <1>2, <2>1, <2>2, ShiftedIs
  <2>4. k \in Nat
    BY <1>2, <1>4, <1>5, <2>1, LengthIsNat
  <2>5. <<rest, k>> \in Heads
    BY <2>3, <2>4 DEF Heads
  <2>6. Size(<<rest, k>>) = 2 * (n - Header) + IF k = -1 THEN 0 ELSE 1
    BY <2>3, SizeIs
  <2>7. Size(<<rest, k>>) < Size(x)
    BY ONLY <1>3, <1>4, <1>5, <2>2, <2>6, n \in Nat
  <2>8. f[<<rest, k>>] = g[<<rest, k>>]
    BY <2>5, <2>7
  <2>9. /\ Round(f, x) = IF k > MaxSize THEN [buf |-> buf, len |-> -1, out |-> <<>>, bad |-> TRUE]
                          ELSE f[<<rest, k>>]
        /\ Round(g, x) = IF k > MaxSize THEN [buf |-> buf, len |-> -1, out |-> <<>>, bad |-> TRUE]
                          ELSE g[<<rest, k>>]
    BY ONLY <1>1, <1>2, <1>5, <2>1, RoundIs
  <2> QED BY <2>8, <2>9
<1>6. CASE len # -1 /\ ~(len > n)
  <2>1. PICK rest : rest = C!Shifted(buf, len)
    OBVIOUS
  <2>2. len \in 0..n
    BY <1>6
  <2>3. rest \in Seq(Nat \X Nat) /\ Len(rest) = n - len
    BY <1>2, <2>1, <2>2, ShiftedIs
  <2>4. <<rest, -1>> \in Heads
    BY <2>3 DEF Heads
  <2>5. Size(<<rest, -1>>) = 2 * (n - len)
    <3>1. Size(<<rest, -1>>) = 2 * (n - len) + 0
      BY <2>3, SizeIs
    <3> QED BY ONLY <2>2, <3>1, n \in Nat
  <2>6. Size(<<rest, -1>>) < Size(x)
    BY ONLY <1>3, <1>6, <2>2, <2>5, n \in Nat
  <2>7. f[<<rest, -1>>] = g[<<rest, -1>>]
    BY <2>4, <2>6
  <2>8. PICK m : m = C!MessageOf(C!Taken(buf, len))
    OBVIOUS
  <2>9. /\ Round(f, x) = C!Before(m, f[<<rest, -1>>])
        /\ Round(g, x) = C!Before(m, g[<<rest, -1>>])
    BY ONLY <1>1, <1>2, <1>6, <2>1, <2>8, RoundIs
  <2> QED BY <2>7, <2>9
<1>7. CASE len = -1 /\ n < Header
  BY <1>1, <1>2, <1>7, RoundIs
<1>8. CASE len # -1 /\ len > n
  BY <1>1, <1>2, <1>8, RoundIs
<1> QED BY <1>5, <1>6, <1>7, <1>8

\* So there is such a function, as far as any size and then at all.
UpTo(f, m) == \A x \in Heads : Size(x) < m => f[x] = Round(f, x)

LEMMA SizeIsNat == ASSUME NEW x \in Heads PROVE Size(x) \in Nat
<1>1. PICK buf \in Seq(Nat \X Nat), len \in Nat \union {-1} : x = <<buf, len>>
  BY DEF Heads
<1>2. PICK n \in Nat : n = Len(buf)
  OBVIOUS
<1>3. Size(x) = 2 * n + IF len = -1 THEN 0 ELSE 1
  BY <1>1, <1>2, SizeIs
<1> QED BY ONLY <1>3, n \in Nat

LEMMA UpToAny == ASSUME sent \in Seq(Nat), NEW k \in Nat PROVE \E f : UpTo(f, k)
<1>1. PICK Bad : Bad = {m \in Nat : ~\E f : UpTo(f, m)}
  OBVIOUS
<1>2. SUFFICES ASSUME Bad # {} PROVE FALSE
  BY <1>1
<1>3. PICK m \in Bad : \A y \in Bad : m <= y
  <2>1. Bad \in SUBSET Nat
    BY <1>1
  <2> QED BY <1>2, <2>1, LeastNat
<1>4. m \in Nat /\ ~\E f : UpTo(f, m)
  BY <1>1
<1>5. m # 0
  <2>1. \A x \in Heads : ~(Size(x) < 0)
    BY SizeIsNat
  <2>2. ASSUME m = 0 PROVE FALSE
    <3>1. UpTo(<<>>, 0)
      BY <2>1 DEF UpTo
    <3> QED BY <1>4, <2>2, <3>1
  <2> QED BY <2>2
<1>6. m - 1 \in Nat /\ ~(m <= m - 1)
  BY <1>4, <1>5
<1>7. PICK h : UpTo(h, m - 1)
  BY <1>1, <1>3, <1>6
<1>8. PICK f : f = [x \in Heads |-> IF Size(x) < m - 1 THEN h[x] ELSE Round(h, x)]
  OBVIOUS
<1>9. ASSUME NEW x \in Heads, Size(x) < m PROVE f[x] = Round(f, x)
  <2>1. ASSUME NEW y \in Heads, Size(y) < Size(x) PROVE h[y] = f[y]
    <3>1. Size(y) < m - 1
      <4>1. Size(x) \in Nat /\ Size(y) \in Nat
        BY SizeIsNat
      <4> QED BY ONLY <1>4, <1>9, <2>1, <4>1
    <3> QED BY <1>8, <3>1
  <2>2. Round(h, x) = Round(f, x)
    BY <2>1, RoundOfLess
  <2>3. f[x] = Round(h, x)
    BY <1>7, <1>8 DEF UpTo
  <2> QED BY <2>2, <2>3
<1>10. UpTo(f, m)
  BY <1>9 DEF UpTo
<1> QED BY <1>4, <1>10

LEMMA UpToOnce ==
  ASSUME sent \in Seq(Nat), NEW m \in Nat, NEW f, NEW g, UpTo(f, m), UpTo(g, m)
  PROVE  \A x \in Heads : Size(x) < m => f[x] = g[x]
<1>1. PICK Bad : Bad = {Size(x) : x \in {x \in Heads : Size(x) < m /\ f[x] # g[x]}}
  OBVIOUS
<1>2. ASSUME Bad # {} PROVE FALSE
  <2>1. PICK k \in Bad : \A l \in Bad : k <= l
    <3>1. Bad \in SUBSET Nat
      BY <1>1, SizeIsNat
    <3> QED BY <1>2, <3>1, LeastNat
  <2>2. PICK x \in Heads : k = Size(x) /\ Size(x) < m /\ f[x] # g[x]
    BY <1>1
  <2>3. ASSUME NEW y \in Heads, Size(y) < Size(x) PROVE f[y] = g[y]
    <3>1. Size(y) < m /\ ~(Size(x) <= Size(y))
      <4>1. Size(x) \in Nat /\ Size(y) \in Nat
        BY SizeIsNat
      <4> QED BY ONLY <2>2, <2>3, <4>1, m \in Nat
    <3>2. Size(y) \notin Bad
      BY <2>1, <2>2, <3>1
    <3> QED BY <1>1, <3>1, <3>2
  <2>4. Round(f, x) = Round(g, x)
    BY <2>3, RoundOfLess
  <2>5. f[x] = Round(f, x) /\ g[x] = Round(g, x)
    BY <2>2 DEF UpTo
  <2> QED BY <2>2, <2>4, <2>5
<1> QED BY <1>1, <1>2

LEMMA CutRounds ==
  ASSUME sent \in Seq(Nat), NEW x \in Heads PROVE C!Cut[x] = Round(C!Cut, x)
<1>1. PICK f : f = [y \in Heads |-> (CHOOSE h : UpTo(h, Size(y) + 1))[y]]
  OBVIOUS
<1>2. ASSUME NEW y \in Heads, NEW h, UpTo(h, Size(y) + 1) PROVE f[y] = h[y]
  <2>1. PICK g : g = CHOOSE h_1 : UpTo(h_1, Size(y) + 1)
    OBVIOUS
  <2>2. UpTo(g, Size(y) + 1)
    BY <1>2, <2>1
  <2>3. Size(y) + 1 \in Nat /\ Size(y) < Size(y) + 1
    BY SizeIsNat
  <2>4. g[y] = h[y]
    BY <1>2, <2>2, <2>3, UpToOnce
  <2> QED BY <1>1, <2>1, <2>4
<1>3. ASSUME NEW y \in Heads PROVE f[y] = Round(f, y)
  <2>1. Size(y) + 1 \in Nat /\ Size(y) < Size(y) + 1
    BY SizeIsNat
  <2>2. PICK h : UpTo(h, Size(y) + 1)
    BY <2>1, UpToAny
  <2>3. f[y] = h[y] /\ h[y] = Round(h, y)
    BY <1>2, <2>1, <2>2 DEF UpTo
  <2>4. ASSUME NEW z \in Heads, Size(z) < Size(y) PROVE h[z] = f[z]
    <3>1. \A v : Size(v) \in Nat /\ Size(v) < Size(z) + 1 => Size(v) < Size(y) + 1
      <4>1. Size(z) \in Nat /\ Size(y) \in Nat
        BY SizeIsNat
      <4> QED BY ONLY <2>4, <4>1
    <3>2. UpTo(h, Size(z) + 1)
      BY <2>2, <3>1, SizeIsNat DEF UpTo
    <3> QED BY <1>2, <3>2
  <2>5. Round(h, y) = Round(f, y)
    BY <2>4, RoundOfLess
  <2> QED BY <2>3, <2>5
<1>4. Cuts(f)
  <2>1. f = [y \in Heads |-> f[y]]
    BY <1>1
  <2> QED BY <1>3, <2>1 DEF Cuts
<1>5. Cuts(C!Cut)
  BY <1>4, CutIs
<1>6. PICK c : c = C!Cut
  OBVIOUS
<1>7. c = [y \in Heads |-> Round(c, y)]
  BY <1>5, <1>6 DEF Cuts
<1>8. c[x] = Round(c, x)
  BY <1>7
<1> QED BY <1>6, <1>8

-----------------------------------------------------------------------------
\* All that was ever sent, w: message i lies behind place o[i - 1].
Laid(w, o) ==
  /\ w \in Seq(Nat \X Nat) /\ o \in [0..Len(sent) -> Nat]
  /\ o[0] = 0 /\ Len(w) = o[Len(sent)] /\ \A i \in 0..Len(sent) : o[i] <= Len(w)
  /\ \A i \in 1..Len(sent) :
       /\ o[i] = o[i - 1] + Header + sent[i]
       /\ \A k \in 1..Header + sent[i] : w[o[i - 1] + k] = <<i, k>>

\* A piece of it, behind place b.
Piece(s, w, b) ==
  /\ s \in Seq(Nat \X Nat) /\ b \in Nat /\ b + Len(s) <= Len(w)
  /\ \A i \in 1..Len(s) : s[i] = w[b + i]

\* Where the reader is that has r messages.
Place(r, len, o) == o[r] + IF len = -1 THEN 0 ELSE Header
Reads(buf, len, r, w, o) ==
  /\ r \in 0..Len(sent) /\ len \in Nat \union {-1}
  /\ len # -1 => r < Len(sent) /\ len = sent[r + 1]
  /\ Piece(buf, w, Place(r, len, o))

LEMMA PieceIs ==
  ASSUME NEW w \in Seq(Nat \X Nat), NEW s, NEW b, Piece(s, w, b)
  PROVE  /\ s \in Seq(Nat \X Nat) /\ b \in Nat /\ Len(s) \in Nat /\ Len(w) \in Nat
         /\ b + Len(s) <= Len(w)
<1>1. s \in Seq(Nat \X Nat)
  BY DEF Piece
<1>2. Len(s) \in Nat /\ Len(w) \in Nat
  BY <1>1
<1> QED BY <1>1, <1>2 DEF Piece

LEMMA PieceTaken ==
  ASSUME NEW w \in Seq(Nat \X Nat), NEW s, NEW b, Piece(s, w, b),
         NEW k \in 0..Len(s), NEW q, q = C!Taken(s, k)
  PROVE  Piece(q, w, b) /\ Len(q) = k
<1>1. s \in Seq(Nat \X Nat) /\ b \in Nat /\ \A i \in 1..Len(s) : s[i] = w[b + i]
  BY DEF Piece
<1>2. PICK n \in Nat, l \in Nat : n = Len(s) /\ l = Len(w) /\ b + n <= l
  BY PieceIs
<1>3. q \in Seq(Nat \X Nat) /\ Len(q) = k /\ \A i \in 1..k : q[i] = s[i]
  <2>1. q \in Seq(Nat \X Nat) /\ Len(q) = k /\ Copies(q, k, s, 0)
    BY <1>1, TakenIs
  <2> QED BY <2>1 DEF Copies
<1>4. k \in 0..n
  BY <1>2
<1>5. (\A i \in 1..k : i \in 1..n) /\ b + k <= l
  <2>1. b \in Nat /\ b + n <= l
    BY <1>1, <1>2
  <2> QED BY ONLY <1>4, <2>1, n \in Nat, l \in Nat
<1>6. \A i \in 1..k : q[i] = w[b + i]
  BY <1>1, <1>2, <1>3, <1>5
<1> QED BY <1>1, <1>2, <1>3, <1>5, <1>6 DEF Piece

LEMMA PieceShifted ==
  ASSUME NEW w \in Seq(Nat \X Nat), NEW s, NEW b, Piece(s, w, b),
         NEW k \in 0..Len(s), NEW q, q = C!Shifted(s, k)
  PROVE  Piece(q, w, b + k) /\ Len(q) = Len(s) - k
<1>1. s \in Seq(Nat \X Nat) /\ b \in Nat /\ \A i \in 1..Len(s) : s[i] = w[b + i]
  BY DEF Piece
<1>2. PICK n \in Nat, l \in Nat : n = Len(s) /\ l = Len(w) /\ b + n <= l
  BY PieceIs
<1>3. q \in Seq(Nat \X Nat) /\ Len(q) = n - k /\ \A i \in 1..n - k : q[i] = s[k + i]
  <2>1. q \in Seq(Nat \X Nat) /\ Len(q) = Len(s) - k /\ Copies(q, Len(s) - k, s, k)
    BY <1>1, ShiftedIs
  <2> QED BY <1>2, <2>1 DEF Copies
<1>4. k \in 0..n
  BY <1>2
<1>5. /\ \A i \in 1..n - k : k + i \in 1..n /\ b + (k + i) = (b + k) + i
      /\ b + k \in Nat /\ (b + k) + (n - k) <= l
  <2>1. b \in Nat /\ b + n <= l
    BY <1>1, <1>2
  <2> QED BY ONLY <1>4, <2>1, n \in Nat, l \in Nat
<1>6. \A i \in 1..n - k : q[i] = w[(b + k) + i]
  BY <1>1, <1>2, <1>3, <1>5
<1> QED BY <1>2, <1>3, <1>5, <1>6 DEF Piece

LEMMA PieceJoined ==
  ASSUME NEW w \in Seq(Nat \X Nat), NEW s, NEW t, NEW b, Piece(s, w, b), Piece(t, w, b + Len(s))
  PROVE  Piece(s \o t, w, b) /\ Len(s \o t) = Len(s) + Len(t)
<1> PICK q : q = s \o t
  OBVIOUS
<1>1. /\ s \in Seq(Nat \X Nat) /\ b \in Nat /\ \A i \in 1..Len(s) : s[i] = w[b + i]
      /\ t \in Seq(Nat \X Nat) /\ (b + Len(s)) + Len(t) <= Len(w)
      /\ \A i \in 1..Len(t) : t[i] = w[(b + Len(s)) + i]
  BY DEF Piece
<1>2. PICK n \in Nat, m \in Nat, l \in Nat : n = Len(s) /\ m = Len(t) /\ l = Len(w)
  BY <1>1
<1>3. /\ q \in Seq(Nat \X Nat) /\ Len(q) = n + m
      /\ \A i \in 1..n + m : q[i] = IF i <= n THEN s[i] ELSE t[i - n]
  BY <1>1, <1>2, Concat
<1>4. ASSUME NEW i \in 1..n + m PROVE q[i] = w[b + i]
  <2>1. CASE i <= n
    <3>1. i \in 1..n
      BY <2>1
    <3> QED BY <1>1, <1>2, <1>3, <2>1, <3>1
  <2>2. CASE ~(i <= n)
    <3>1. i - n \in 1..m /\ (b + n) + (i - n) = b + i
      BY <1>1, <2>2
    <3>2. q[i] = t[i - n]
      BY <1>3, <2>2
    <3> QED BY <1>1, <1>2, <3>1, <3>2
  <2> QED BY <2>1, <2>2
<1>5. b + (n + m) <= l
  BY <1>1, <1>2
<1> QED BY <1>1, <1>2, <1>3, <1>4, <1>5 DEF Piece

\* The first units that the reader has not taken are the header of the next message.
LEMMA HeaderIs ==
  ASSUME sent \in Seq(Nat), NEW w, NEW o, Laid(w, o), NEW buf, NEW r,
         Reads(buf, -1, r, w, o), Header <= Len(buf)
  PROVE  r < Len(sent) /\ C!LengthIn(buf) = sent[r + 1]
<1>1. PICK n \in Nat : n = Len(sent) /\ DOMAIN sent = 1..n
  OBVIOUS
<1>2. r \in 0..n /\ Piece(buf, w, Place(r, -1, o)) /\ o \in [0..n -> Nat] /\ Len(w) = o[n]
  BY <1>1 DEF Reads, Laid
<1>3. o[r] \in Nat /\ o[n] \in Nat /\ Place(r, -1, o) = o[r]
  BY <1>1, <1>2 DEF Place
<1>4. /\ buf \in Seq(Nat \X Nat) /\ o[r] + Len(buf) <= o[n]
      /\ \A i \in 1..Len(buf) : buf[i] = w[o[r] + i]
  BY <1>2, <1>3 DEF Piece
<1>5. Header \in Nat /\ Header # 0 /\ 1 \in 1..Header
  BY SizesAre
<1>6. PICK m \in Nat : m = Len(buf)
  BY <1>4
<1>7. r # n
  BY <1>3, <1>4, <1>5, <1>6
<1>8. r < n /\ r + 1 \in 1..n /\ (r + 1) - 1 = r
  BY <1>1, <1>2, <1>7
<1>9. sent[r + 1] \in Nat
  BY <1>1, <1>8
<1>10. \A k \in 1..Header + sent[r + 1] : w[o[r] + k] = <<r + 1, k>>
  BY <1>1, <1>8 DEF Laid
<1>11. PICK q : q = C!Taken(buf, Header)
  OBVIOUS
<1>12. q \in Seq(Nat \X Nat) /\ DOMAIN q = 1..Header /\ \A i \in 1..Header : q[i] = buf[i]
  <2>1. Header \in 0..Len(buf)
    <3>1. Header <= m
      BY <1>6
    <3> QED BY ONLY <1>5, <1>6, <3>1, m \in Nat
  <2>2. q \in Seq(Nat \X Nat) /\ Copies(q, Header, buf, 0)
    BY <1>4, <1>11, <2>1, TakenIs
  <2> QED BY <2>2 DEF Copies
<1>13. \A k \in 1..Header : k \in 1..m /\ k \in 1..Header + sent[r + 1]
  BY <1>5, <1>6, <1>9
<1>14. \A k \in 1..Header : q[k] = <<r + 1, k>> /\ buf[k] = <<r + 1, k>>
  BY <1>4, <1>6, <1>10, <1>12, <1>13
<1>15. q = [k \in 1..Header |-> <<r + 1, k>>]
  <2>1. q = [k \in 1..Header |-> q[k]]
    <3>1. q = [k \in DOMAIN q |-> q[k]]
      BY <1>12
    <3> QED BY <1>12, <3>1
  <2> QED BY <1>14, <2>1
<1>16. buf[1][1] = r + 1
  BY <1>5, <1>14
<1>17. r + 1 \in DOMAIN sent
  BY <1>1, <1>8
<1>18. \E i \in DOMAIN sent : C!Taken(buf, Header) = [k \in 1..Header |-> <<i, k>>]
  BY <1>11, <1>15, <1>17
<1>19. C!LengthIn(buf) = sent[buf[1][1]]
  BY <1>18 DEF C!LengthIn
<1> QED BY <1>1, <1>8, <1>16, <1>19

\* And those after it, as many as it says, are the message.
LEMMA MessageIs ==
  ASSUME sent \in Seq(Nat), NEW w, NEW o, Laid(w, o), NEW buf, NEW r, NEW len,
         Reads(buf, len, r, w, o), len # -1, len <= Len(buf)
  PROVE  C!MessageOf(C!Taken(buf, len)) = sent[r + 1]
<1>1. PICK n \in Nat : n = Len(sent) /\ DOMAIN sent = 1..n
  OBVIOUS
<1>2. /\ r \in 0..n /\ r < n /\ len \in Nat /\ len = sent[r + 1]
      /\ Piece(buf, w, Place(r, len, o)) /\ o \in [0..n -> Nat]
  BY <1>1 DEF Reads, Laid
<1>3. o[r] \in Nat /\ Place(r, len, o) = o[r] + Header
  BY <1>1, <1>2 DEF Place
<1>4. buf \in Seq(Nat \X Nat) /\ \A i \in 1..Len(buf) : buf[i] = w[(o[r] + Header) + i]
  BY <1>2, <1>3 DEF Piece
<1>5. Header \in Nat /\ Header # 0
  BY SizesAre
<1>6. PICK m \in Nat : m = Len(buf)
  BY <1>4
<1>7. r + 1 \in 1..n /\ (r + 1) - 1 = r
  BY <1>1, <1>2
<1>8. \A k \in 1..Header + len : w[o[r] + k] = <<r + 1, k>>
  BY <1>1, <1>2, <1>7 DEF Laid
<1>9. PICK q : q = C!Taken(buf, len)
  OBVIOUS
<1>10. q \in Seq(Nat \X Nat) /\ Len(q) = len /\ DOMAIN q = 1..len /\ \A i \in 1..len : q[i] = buf[i]
  <2>1. len \in 0..Len(buf)
    <3>1. len <= m
      BY <1>6
    <3> QED BY ONLY <1>2, <1>6, <3>1, m \in Nat
  <2>2. q \in Seq(Nat \X Nat) /\ Len(q) = len /\ Copies(q, len, buf, 0)
    BY <1>4, <1>9, <2>1, TakenIs
  <2> QED BY <2>2 DEF Copies
<1>11. \A k \in 1..len : /\ k \in 1..m /\ Header + k \in 1..Header + len
                          /\ (o[r] + Header) + k = o[r] + (Header + k)
  <2>1. len <= m /\ len \in Nat /\ o[r] \in Nat
    BY <1>2, <1>3, <1>6
  <2> QED BY ONLY <1>5, <2>1, m \in Nat
<1>12. \A k \in 1..len : q[k] = <<r + 1, Header + k>>
  BY <1>4, <1>6, <1>8, <1>10, <1>11
<1>13. PICK f : f = C!Frame(r + 1, len)
  OBVIOUS
<1>14. f \in Seq(Nat \X Nat) /\ Len(f) = Header + len /\ \A k \in 1..Header + len : f[k] = <<r + 1, k>>
  <2>1. f = [k \in 1..Header + len |-> <<r + 1, k>>]
    BY <1>13 DEF C!Frame
  <2>2. PICK l \in Nat : l = Header + len
    BY <1>2, <1>5
  <2>3. f = [k \in 1..l |-> <<r + 1, k>>] /\ r + 1 \in Nat
    BY <2>1, <2>2, <1>2
  <2>4. f \in [1..l -> Nat \X Nat]
    BY <2>3
  <2>5. f \in Seq(Nat \X Nat) /\ Len(f) = l
    BY <2>4
  <2> QED BY <2>2, <2>3, <2>5
<1>15. PICK g : g = C!Shifted(f, Header)
  OBVIOUS
<1>16. DOMAIN g = 1..len /\ g \in Seq(Nat \X Nat) /\ \A k \in 1..len : g[k] = f[Header + k]
  <2>1. Header \in 0..Len(f) /\ Len(f) - Header = len
    <3>1. len \in Nat /\ Len(f) = Header + len
      BY <1>2, <1>14
    <3> QED BY ONLY <1>5, <3>1
  <2>2. f \in Seq(Nat \X Nat)
    BY <1>14
  <2>3. g \in Seq(Nat \X Nat) /\ Copies(g, Len(f) - Header, f, Header)
    BY ONLY <1>15, <2>1, <2>2, ShiftedIs
  <2> QED BY <2>1, <2>3 DEF Copies
<1>17. \A k \in 1..len : g[k] = <<r + 1, Header + k>>
  BY <1>11, <1>14, <1>16
<1>18. q = g
  <2>1. q = [k \in DOMAIN q |-> q[k]] /\ g = [k \in DOMAIN g |-> g[k]]
    BY <1>10, <1>16
  <2>2. DOMAIN q = DOMAIN g /\ \A k \in DOMAIN q : q[k] = g[k]
    BY <1>10, <1>12, <1>16, <1>17
  <2> QED BY ONLY <2>1, <2>2
<1>19. q = C!Shifted(C!Frame(r + 1, sent[r + 1]), Header)
  BY <1>2, <1>13, <1>15, <1>18
<1>20. r + 1 \in DOMAIN sent
  BY <1>1, <1>7
<1>21. C!MessageOf(q) = Len(q)
  BY <1>19, <1>20 DEF C!MessageOf
<1> QED BY <1>2, <1>9, <1>10, <1>21

Part(q, M, s, a, b) ==
  q \in Seq(M) /\ Len(q) = (b - a) + 1 /\ Copies(q, (b - a) + 1, s, a - 1)

LEMMA SubSeqIs ==
  ASSUME NEW M, NEW s \in Seq(M), NEW a \in Nat, a # 0, NEW b \in Nat, a <= b + 1, b <= Len(s)
  PROVE  Part(SubSeq(s, a, b), M, s, a, b)
<1> PICK q : q = SubSeq(s, a, b)
  OBVIOUS
<1>1. PICK n \in Nat : n = Len(s)
  OBVIOUS
<1>2. b <= n
  BY <1>1
<1>3. \A i \in 1..(b - a) + 1 : (a + i) - 1 \in 1..n /\ (a + i) - 1 = (a - 1) + i
  BY ONLY <1>2, a \in Nat, a # 0, b \in Nat, n \in Nat
<1>4. q \in Seq(M) /\ Len(q) = (b - a) + 1 /\ \A i \in 1..(b - a) + 1 : q[i] = s[(a + i) - 1]
  BY <1>1, <1>2
<1>5. DOMAIN q = 1..(b - a) + 1
  BY <1>4
<1> QED BY <1>3, <1>4, <1>5 DEF Copies, Part

LEMMA OneIs ==
  ASSUME NEW M, NEW s \in Seq(M), NEW a \in Nat, a # 0, a <= Len(s)
  PROVE  SubSeq(s, a, a) = <<s[a]>>
<1>1. PICK q : q = SubSeq(s, a, a)
  OBVIOUS
<1>2. PICK p : p = <<s[a]>>
  OBVIOUS
<1>3. a <= a + 1 /\ (a - a) + 1 = 1 /\ (a - 1) + 1 = a /\ 1 \in 1..1
  OBVIOUS
<1>4. q \in Seq(M) /\ Copies(q, 1, s, a - 1)
  BY <1>1, <1>3, SubSeqIs DEF Part
<1>5. DOMAIN q = 1..1 /\ q[1] = s[a]
  BY <1>3, <1>4 DEF Copies
<1>6. DOMAIN p = 1..1 /\ p[1] = s[a] /\ p = [i \in DOMAIN p |-> p[i]]
  BY <1>2
<1>7. q = [i \in DOMAIN q |-> q[i]]
  BY <1>4
<1>8. \A i \in 1..1 : q[i] = p[i]
  <2>1. \A i \in 1..1 : i = 1
    OBVIOUS
  <2> QED BY <1>5, <1>6, <2>1
<1>9. q = p
  BY ONLY <1>5, <1>6, <1>7, <1>8
<1> QED BY <1>1, <1>2, <1>9

LEMMA Joined ==
  ASSUME NEW M, NEW s \in Seq(M), NEW a \in Nat, a # 0, NEW b \in Nat, a <= b + 1,
         NEW c \in Nat, b <= c, c <= Len(s)
  PROVE  SubSeq(s, a, b) \o SubSeq(s, b + 1, c) = SubSeq(s, a, c)
<1>1. PICK n \in Nat : n = Len(s)
  OBVIOUS
<1>2. PICK x, y, z : x = SubSeq(s, a, b) /\ y = SubSeq(s, b + 1, c) /\ z = SubSeq(s, a, c)
  OBVIOUS
<1>3. PICK k \in Nat, l \in Nat : k = (b - a) + 1 /\ l = (c - (b + 1)) + 1
  OBVIOUS
<1>4. /\ b <= n /\ c <= n /\ b + 1 # 0 /\ b + 1 \in Nat /\ b + 1 <= c + 1 /\ a <= c + 1
      /\ k + l = (c - a) + 1 /\ b = (a - 1) + k
  BY <1>1, <1>3
<1>13. b <= Len(s) /\ c <= Len(s)
  BY <1>1, <1>4
<1>5. x \in Seq(M) /\ Len(x) = k /\ Copies(x, k, s, a - 1)
  <2>1. x \in Seq(M) /\ Len(x) = (b - a) + 1 /\ Copies(x, (b - a) + 1, s, a - 1)
    <3>1. Part(SubSeq(s, a, b), M, s, a, b)
      BY <1>13, SubSeqIs
    <3> QED BY <1>2, <3>1 DEF Part
  <2> QED BY <1>3, <2>1
<1>6. y \in Seq(M) /\ Len(y) = l /\ Copies(y, l, s, b)
  <2>1. y \in Seq(M) /\ Len(y) = (c - (b + 1)) + 1 /\ Copies(y, (c - (b + 1)) + 1, s, (b + 1) - 1)
    <3>1. Part(SubSeq(s, b + 1, c), M, s, b + 1, c)
      BY <1>4, <1>13, SubSeqIs
    <3> QED BY <1>2, <3>1 DEF Part
  <2>2. (b + 1) - 1 = b
    OBVIOUS
  <2> QED BY <1>3, <2>1, <2>2
<1>7. z \in Seq(M) /\ Len(z) = k + l /\ Copies(z, k + l, s, a - 1)
  <2>1. z \in Seq(M) /\ Len(z) = (c - a) + 1 /\ Copies(z, (c - a) + 1, s, a - 1)
    <3>1. Part(SubSeq(s, a, c), M, s, a, c)
      BY <1>4, <1>13, SubSeqIs
    <3> QED BY <1>2, <3>1 DEF Part
  <2> QED BY <1>4, <2>1
<1>8. PICK q : q = x \o y
  OBVIOUS
<1>9. /\ q \in Seq(M) /\ Len(q) = k + l
      /\ \A i \in 1..k + l : q[i] = IF i <= k THEN x[i] ELSE y[i - k]
  <2>1. x \in Seq(M) /\ y \in Seq(M)
    BY <1>5, <1>6
  <2>2. /\ q \in Seq(M) /\ Len(q) = Len(x) + Len(y)
        /\ \A i \in 1..Len(x) + Len(y) : q[i] = IF i <= Len(x) THEN x[i] ELSE y[i - Len(x)]
    BY ONLY <1>8, <2>1, Concat
  <2> QED BY ONLY <1>5, <1>6, <2>2
<1>10. DOMAIN q = 1..k + l
  BY <1>3, <1>9
<1>11. ASSUME NEW i \in 1..k + l PROVE q[i] = z[i]
  <2>1. z[i] = s[(a - 1) + i]
    BY <1>7 DEF Copies
  <2>2. CASE i <= k
    <3>1. i \in 1..k
      BY <2>2
    <3> QED BY <1>5, <1>9, <2>1, <2>2, <3>1 DEF Copies
  <2>3. CASE ~(i <= k)
    <3>1. i - k \in 1..l /\ b + (i - k) = (a - 1) + i
      BY ONLY <1>4, <2>3, k \in Nat, l \in Nat, i \in 1..k + l, a \in Nat, b \in Nat
    <3>2. q[i] = y[i - k]
      BY <1>9, <2>3
    <3> QED BY <1>6, <2>1, <3>1, <3>2 DEF Copies
  <2> QED BY <2>2, <2>3
<1>12. q = z
  <2>1. q = [i \in DOMAIN q |-> q[i]] /\ z = [i \in DOMAIN z |-> z[i]]
    BY <1>7, <1>9
  <2>2. DOMAIN z = 1..k + l
    BY <1>7 DEF Copies
  <2> QED BY <1>10, <1>11, <2>1, <2>2
<1> QED BY <1>2, <1>8, <1>12

\* What the loop leaves to a reader that had r messages.
Outcome(c, r, w, o, e) ==
  /\ c = [buf |-> c.buf, len |-> c.len, out |-> c.out, bad |-> c.bad] /\ c.bad \in BOOLEAN
  /\ \E m \in r..Len(sent) : /\ Reads(c.buf, c.len, m, w, o)
                             /\ Place(m, c.len, o) + Len(c.buf) = e
                             /\ c.out = SubSeq(sent, r + 1, m)

LEMMA NothingCut ==
  ASSUME sent \in Seq(Nat), NEW w, NEW o, NEW buf, NEW len, NEW r, Reads(buf, len, r, w, o),
         NEW bad \in BOOLEAN, NEW c, c = [buf |-> buf, len |-> len, out |-> <<>>, bad |-> bad]
  PROVE  Outcome(c, r, w, o, Place(r, len, o) + Len(buf))
<1>1. PICK n \in Nat : n = Len(sent)
  OBVIOUS
<1>2. r \in 0..n
  BY <1>1 DEF Reads
<1>3. r \in r..n /\ SubSeq(sent, r + 1, r) = <<>>
  BY <1>2
<1>4. c.buf = buf /\ c.len = len /\ c.out = <<>> /\ c.bad = bad
  OBVIOUS
<1> QED BY <1>1, <1>3, <1>4 DEF Outcome

LEMMA CutOutcome ==
  ASSUME sent \in Seq(Nat), NEW w, NEW o, Laid(w, o), NEW buf, NEW len, NEW r,
         Reads(buf, len, r, w, o)
  PROVE  Outcome(C!Cut[<<buf, len>>], r, w, o, Place(r, len, o) + Len(buf))
<1>1. PICK Bad : Bad = {m \in Nat : \E b, l, k : /\ Reads(b, l, k, w, o) /\ m = Size(<<b, l>>)
                                  /\ ~Outcome(C!Cut[<<b, l>>], k, w, o, Place(k, l, o) + Len(b))}
  OBVIOUS
<1>2. ASSUME NEW b, NEW l, NEW k, Reads(b, l, k, w, o)
      PROVE  <<b, l>> \in Heads /\ b \in Seq(Nat \X Nat) /\ Len(b) \in Nat /\ Size(<<b, l>>) \in Nat
  <2>1. b \in Seq(Nat \X Nat) /\ l \in Nat \union {-1}
    BY <1>2 DEF Reads, Piece
  <2>2. <<b, l>> \in Heads
    BY <2>1 DEF Heads
  <2> QED BY <2>1, <2>2, SizeIsNat
<1>3. ASSUME Bad # {} PROVE FALSE
  <2>1. PICK m \in Bad : \A x \in Bad : m <= x
    <3>1. Bad \in SUBSET Nat
      BY <1>1
    <3> QED BY <1>3, <3>1, LeastNat
  <2>2. PICK b, l, k : /\ Reads(b, l, k, w, o) /\ m = Size(<<b, l>>)
                       /\ ~Outcome(C!Cut[<<b, l>>], k, w, o, Place(k, l, o) + Len(b))
    BY <1>1
  <2>3. ASSUME NEW x, NEW y, NEW z, Reads(x, y, z, w, o), Size(<<x, y>>) < m
        PROVE  Outcome(C!Cut[<<x, y>>], z, w, o, Place(z, y, o) + Len(x))
    <3>1. Size(<<x, y>>) \in Nat /\ ~(m <= Size(<<x, y>>))
      <4>1. Size(<<x, y>>) \in Nat /\ m \in Nat
        BY <1>1, <1>2, <2>3
      <4> QED BY ONLY <2>3, <4>1
    <3>2. Size(<<x, y>>) \notin Bad
      BY <2>1, <3>1
    <3> QED BY <1>1, <2>3, <3>1, <3>2
  <2>4. <<b, l>> \in Heads /\ b \in Seq(Nat \X Nat)
    BY <1>2, <2>2
  <2>5. PICK q \in Nat : q = Len(b)
    BY <2>4
  <2>6. PICK n \in Nat : n = Len(sent) /\ DOMAIN sent = 1..n
    OBVIOUS
  <2>7. /\ k \in 0..n /\ l \in Nat \union {-1} /\ (l # -1 => k < n /\ l = sent[k + 1])
        /\ Piece(b, w, Place(k, l, o)) /\ w \in Seq(Nat \X Nat) /\ o \in [0..n -> Nat]
    BY <2>2, <2>6 DEF Reads, Laid
  <2>8. o[k] \in Nat /\ Header \in Nat /\ Header # 0
    BY <2>7, SizesAre
  <2>9. PICK cut : cut = C!Cut
    OBVIOUS
  <2>10. cut[<<b, l>>] = Round(cut, <<b, l>>)
    BY <2>4, <2>9, CutRounds
  <2>11. m = 2 * q + IF l = -1 THEN 0 ELSE 1
    BY <2>2, <2>5, SizeIs
  <2>12. CASE l = -1 /\ q < Header
    <3>1. cut[<<b, l>>] = [buf |-> b, len |-> l, out |-> <<>>, bad |-> FALSE]
      BY <2>5, <2>10, <2>12, RoundIs
    <3> QED BY <2>2, <2>9, <3>1, NothingCut
  <2>13. CASE l = -1 /\ ~(q < Header) /\ C!LengthIn(b) > MaxSize
    <3>1. cut[<<b, l>>] = [buf |-> b, len |-> l, out |-> <<>>, bad |-> TRUE]
      BY <2>5, <2>10, <2>13, RoundIs
    <3> QED BY <2>2, <2>9, <3>1, NothingCut
  <2>14. CASE l = -1 /\ ~(q < Header) /\ ~(C!LengthIn(b) > MaxSize)
    <3>1. PICK x, y : x = C!Shifted(b, Header) /\ y = C!LengthIn(b)
      OBVIOUS
    <3>2. cut[<<b, l>>] = cut[<<x, y>>]
      BY <2>5, <2>10, <2>14, <3>1, RoundIs
    <3>3. Header \in 0..q /\ Header <= Len(b)
      BY <2>5, <2>8, <2>14
    <3>4. k < n /\ y = sent[k + 1]
      BY <2>2, <2>6, <2>14, <3>1, <3>3, HeaderIs
    <3>5. y \in Nat
      BY <2>6, <2>7, <3>4
    <3>6. Place(k, l, o) = o[k] /\ Place(k, y, o) = o[k] + Header
      BY <2>8, <2>14, <3>5 DEF Place
    <3>7. Piece(x, w, o[k] + Header) /\ Len(x) = q - Header
      BY <2>5, <2>7, <3>1, <3>3, <3>6, PieceShifted
    <3>8. Reads(x, y, k, w, o)
      BY <2>6, <2>7, <3>4, <3>5, <3>6, <3>7 DEF Reads
    <3>9. Size(<<x, y>>) = 2 * (q - Header) + IF y = -1 THEN 0 ELSE 1
      BY <3>7, SizeIs
    <3>10. Size(<<x, y>>) < m
      BY ONLY <2>8, <2>11, <2>14, <3>3, <3>9, q \in Nat
    <3>11. Outcome(cut[<<x, y>>], k, w, o, Place(k, y, o) + Len(x))
      BY <2>3, <2>9, <3>8, <3>10
    <3>12. Place(k, y, o) + Len(x) = Place(k, l, o) + Len(b)
      BY ONLY <2>5, <2>8, <3>6, <3>7, q \in Nat
    <3> QED BY <2>2, <2>9, <3>2, <3>11, <3>12
  <2>15. CASE l # -1 /\ l > q
    <3>1. cut[<<b, l>>] = [buf |-> b, len |-> l, out |-> <<>>, bad |-> FALSE]
      BY <2>5, <2>10, <2>15, RoundIs
    <3> QED BY <2>2, <2>9, <3>1, NothingCut
  <2>16. CASE l # -1 /\ ~(l > q)
    <3>1. PICK x : x = C!Shifted(b, l)
      OBVIOUS
    <3>2. cut[<<b, l>>] = C!Before(C!MessageOf(C!Taken(b, l)), cut[<<x, -1>>])
      BY <2>5, <2>10, <2>16, <3>1, RoundIs
    <3>3. l \in 0..q /\ l <= Len(b) /\ k < n /\ l = sent[k + 1]
      BY <2>5, <2>7, <2>16
    <3>4. C!MessageOf(C!Taken(b, l)) = l
      BY <2>2, <2>16, <3>3, MessageIs
    <3>5. k + 1 \in 1..n /\ k + 1 \in 0..n /\ (k + 1) - 1 = k
      BY <2>7, <3>3
    <3>6. o[k + 1] = o[k] + Header + l
      BY <2>6, <3>3, <3>5 DEF Laid
    <3>7. /\ Place(k, l, o) = o[k] + Header
          /\ Place(k + 1, -1, o) = (o[k] + Header) + l
      BY <2>8, <2>16, <3>3, <3>5, <3>6, <2>7 DEF Place
    <3>8. Piece(x, w, (o[k] + Header) + l) /\ Len(x) = q - l
      <4>1. Piece(b, w, o[k] + Header) /\ w \in Seq(Nat \X Nat) /\ l \in 0..Len(b)
        BY <2>5, <2>7, <3>3, <3>7
      <4> QED BY ONLY <2>5, <3>1, <4>1, PieceShifted
    <3>9. Reads(x, -1, k + 1, w, o)
      BY <2>6, <3>5, <3>7, <3>8 DEF Reads
    <3>10. Size(<<x, -1>>) = 2 * (q - l) + 0
      BY <3>8, SizeIs
    <3>11. Size(<<x, -1>>) < m
      BY ONLY <2>11, <2>16, <3>3, <3>10, q \in Nat
    <3>12. Place(k + 1, -1, o) + Len(x) = Place(k, l, o) + Len(b)
      BY ONLY <2>5, <2>8, <3>3, <3>7, <3>8, q \in Nat
    <3>13. PICK c : c = cut[<<x, -1>>]
      OBVIOUS
    <3>14. Outcome(c, k + 1, w, o, Place(k, l, o) + Len(b))
      BY <2>3, <2>9, <3>9, <3>11, <3>12, <3>13
    <3>15. PICK j \in (k + 1)..n :
             /\ Reads(c.buf, c.len, j, w, o) /\ Place(j, c.len, o) + Len(c.buf) = Place(k, l, o) + Len(b)
             /\ c.out = SubSeq(sent, (k + 1) + 1, j)
      BY <2>6, <3>14 DEF Outcome
    <3>16. PICK d : d = C!Before(l, c)
      OBVIOUS
    <3>17. d = [buf |-> c.buf, len |-> c.len, out |-> <<l>> \o c.out, bad |-> c.bad] /\ c.bad \in BOOLEAN
      BY <3>14, <3>16 DEF Outcome, C!Before
    <3>18. <<l>> \o c.out = SubSeq(sent, k + 1, j)
      <4>1. SubSeq(sent, k + 1, k + 1) = <<l>>
        <5>1. PICK i \in 1..n : i = k + 1
          BY <3>5
        <5>2. SubSeq(sent, i, i) = <<sent[i]>>
          <6>1. i \in Nat /\ i # 0 /\ i <= Len(sent)
            BY <2>6
          <6> QED BY ONLY <6>1, sent \in Seq(Nat), OneIs
        <5> QED BY <3>3, <5>1, <5>2
      <4>2. SubSeq(sent, k + 1, k + 1) \o SubSeq(sent, (k + 1) + 1, j) = SubSeq(sent, k + 1, j)
        <5>1. k + 1 \in Nat /\ k + 1 # 0 /\ k + 1 <= (k + 1) + 1 /\ j \in Nat /\ k + 1 <= j /\ j <= n
          BY <2>7, <3>15
        <5> QED BY <2>6, <5>1, Joined
      <4> QED BY <3>15, <4>1, <4>2
    <3>19. j \in k..n
      BY <2>7, <3>15
    <3>20. Outcome(d, k, w, o, Place(k, l, o) + Len(b))
      <4>1. d.buf = c.buf /\ d.len = c.len /\ d.out = SubSeq(sent, k + 1, j) /\ d.bad = c.bad
        BY <3>17, <3>18
      <4> QED BY <2>6, <3>15, <3>17, <3>19, <4>1 DEF Outcome
    <3>21. cut[<<b, l>>] = d
      BY <3>2, <3>4, <3>13, <3>16
    <3> QED BY <2>2, <2>9, <3>20, <3>21
  <2> QED BY <2>7, <2>12, <2>13, <2>14, <2>15, <2>16
<1> QED BY <1>1, <1>2, <1>3

-----------------------------------------------------------------------------
\* What was sent and not handed over: the rest of it lies in the reader's buffer, in
\* the pipe and in the writer's buffer, in this order.
Flows(r, w, o) ==
  /\ Laid(w, o) /\ Reads(readBuf, readLen, r, w, o)
  /\ LET p == Place(r, readLen, o) IN
     /\ Piece(pipe, w, p + Len(readBuf))
     /\ Piece(writeBuf, w, (p + Len(readBuf)) + Len(pipe))
     /\ ((p + Len(readBuf)) + Len(pipe)) + Len(writeBuf) = Len(w)
ChannelInv ==
  /\ sent \in Seq(Nat) /\ closed \in BOOLEAN
  /\ \E r \in 0..Len(sent) : /\ received = SubSeq(sent, 1, r)
                             /\ ~closed => \E w, o : Flows(r, w, o)

LEMMA ChannelStarts == ASSUME C!Init PROVE ChannelInv /\ C!C!Init
<1>1. /\ sent = <<>> /\ received = <<>> /\ writeBuf = <<>> /\ pipe = <<>> /\ readBuf = <<>>
      /\ readLen = -1 /\ closed = FALSE
  BY DEF C!Init
<1>2. sent \in Seq(Nat) /\ Len(sent) = 0 /\ 0 \in 0..Len(sent) /\ received = SubSeq(sent, 1, 0)
  BY <1>1
<1>3. PICK o : o = [i \in 0..0 |-> 0]
  OBVIOUS
<1>4. o \in [0..0 -> Nat] /\ o[0] = 0
  BY <1>3
<1>5. PICK w : w = <<>>
  OBVIOUS
<1>6. w \in Seq(Nat \X Nat) /\ Len(w) = 0 /\ 1..0 = {}
  BY <1>5
<1>7. Laid(w, o)
  <2>1. \A i \in 0..0 : i = 0
    OBVIOUS
  <2> QED BY <2>1, <1>2, <1>4, <1>6 DEF Laid
<1>8. Place(0, -1, o) = 0
  BY <1>4 DEF Place
<1>9. Piece(w, w, 0)
  BY <1>6 DEF Piece
<1>10. Reads(w, -1, 0, w, o)
  BY <1>2, <1>8, <1>9 DEF Reads
<1>11. Flows(0, w, o)
  <2>1. (0 + 0) + 0 = 0 /\ 0 + 0 = 0
    OBVIOUS
  <2> QED BY <1>1, <1>5, <1>6, <1>7, <1>8, <1>9, <1>10, <2>1 DEF Flows
<1>12. ChannelInv
  BY <1>1, <1>2, <1>11 DEF ChannelInv
<1> QED BY <1>1, <1>12 DEF C!C!Init

LEMMA LaidStays ==
  ASSUME sent' = sent, NEW w, NEW o, Laid(w, o) PROVE Laid(w, o)'
BY DEF Laid

LEMMA ReadsStay ==
  ASSUME sent' = sent, NEW x, NEW y, NEW r, NEW w, NEW o, Reads(x, y, r, w, o)
  PROVE  Reads(x, y, r, w, o)'
BY DEF Reads, Place, Piece

\* What is sent next is laid behind it.
Extends(v, w) ==
  /\ w \in Seq(Nat \X Nat) /\ v \in Seq(Nat \X Nat) /\ Len(w) <= Len(v)
  /\ \A i \in 1..Len(w) : v[i] = w[i]

LEMMA PieceOfLonger ==
  ASSUME NEW v, NEW w, Extends(v, w), NEW s, NEW b, Piece(s, w, b)
  PROVE  Piece(s, v, b)
<1>1. w \in Seq(Nat \X Nat) /\ v \in Seq(Nat \X Nat) /\ s \in Seq(Nat \X Nat) /\ b \in Nat
  BY DEF Extends, Piece
<1>2. PICK n \in Nat, k \in Nat, l \in Nat : n = Len(w) /\ k = Len(v) /\ l = Len(s)
  BY <1>1
<1>3. n <= k /\ b + l <= n
  BY <1>2 DEF Extends, Piece
<1>4. b + l <= k /\ \A i \in 1..l : b + i \in 1..n
  BY ONLY <1>1, <1>3, n \in Nat, k \in Nat, l \in Nat
<1>5. \A i \in 1..l : s[i] = w[b + i]
  BY <1>2 DEF Piece
<1>6. \A i \in 1..n : v[i] = w[i]
  BY <1>2 DEF Extends
<1> QED BY <1>1, <1>2, <1>4, <1>5, <1>6 DEF Piece

Framed(f, i, n) ==
  f \in Seq(Nat \X Nat) /\ Len(f) = Header + n /\ \A k \in 1..Header + n : f[k] = <<i, k>>

LEMMA FrameIs ==
  ASSUME NEW i \in Nat, NEW n \in Nat PROVE Framed(C!Frame(i, n), i, n)
<1> PICK f : f = C!Frame(i, n)
  OBVIOUS
<1>1. PICK l \in Nat : l = Header + n
  BY SizesAre
<1>2. f = [k \in 1..l |-> <<i, k>>]
  BY <1>1 DEF C!Frame
<1>3. f \in [1..l -> Nat \X Nat]
  BY <1>2
<1>4. f \in Seq(Nat \X Nat) /\ Len(f) = l
  BY <1>3
<1> QED BY <1>1, <1>2, <1>4 DEF Framed

LEMMA LaidOn ==
  ASSUME sent \in Seq(Nat), NEW n \in Nat, sent' = Append(sent, n), NEW w, NEW o, Laid(w, o)
  PROVE  \E f, v, p :
           /\ f = C!Frame(Len(sent) + 1, n) /\ Laid(v, p)' /\ Extends(v, w)
           /\ Piece(f, v, Len(w)) /\ Len(v) = Len(w) + Len(f)
           /\ \A i \in 0..Len(sent) : p[i] = o[i]
<1> PICK f : f = C!Frame(Len(sent) + 1, n)
  OBVIOUS
<1> PICK v : v = w \o f
  OBVIOUS
<1> PICK p : p = [i \in 0..Len(sent) + 1 |-> IF i = Len(sent) + 1 THEN (o[Len(sent)] + Header) + n
                                            ELSE o[i]]
  OBVIOUS
<1>1. PICK l \in Nat : l = Len(sent) /\ DOMAIN sent = 1..l
  OBVIOUS
<1>2. /\ sent' \in Seq(Nat) /\ Len(sent') = l + 1
      /\ \A i \in 1..l + 1 : sent'[i] = IF i = l + 1 THEN n ELSE sent[i]
  BY <1>1
<1>3. /\ w \in Seq(Nat \X Nat) /\ o \in [0..l -> Nat] /\ o[0] = 0 /\ Len(w) = o[l]
      /\ \A i \in 0..l : o[i] <= Len(w)
      /\ \A i \in 1..l : o[i] = o[i - 1] + Header + sent[i]
      /\ \A i \in 1..l : \A k \in 1..Header + sent[i] : w[o[i - 1] + k] = <<i, k>>
  BY <1>1 DEF Laid
<1>4. Header \in Nat
  BY SizesAre
<1>5. PICK h \in Nat : h = Header + n
  BY <1>4
<1>6. f \in Seq(Nat \X Nat) /\ Len(f) = h /\ \A k \in 1..h : f[k] = <<l + 1, k>>
  <2>1. l + 1 \in Nat /\ f = C!Frame(l + 1, n)
    BY <1>1
  <2>2. /\ f \in Seq(Nat \X Nat) /\ Len(f) = Header + n
        /\ \A k \in 1..Header + n : f[k] = <<l + 1, k>>
    <3>1. Framed(C!Frame(l + 1, n), l + 1, n)
      BY <2>1, FrameIs
    <3> QED BY <2>1, <3>1 DEF Framed
  <2> QED BY ONLY <1>5, <2>2
<1>7. PICK q \in Nat : q = Len(w)
  BY <1>3
<1>8. /\ v \in Seq(Nat \X Nat) /\ Len(v) = q + h
      /\ \A i \in 1..q + h : v[i] = IF i <= q THEN w[i] ELSE f[i - q]
  <2>1. w \in Seq(Nat \X Nat) /\ f \in Seq(Nat \X Nat)
    BY <1>3, <1>6
  <2>2. /\ v \in Seq(Nat \X Nat) /\ Len(v) = Len(w) + Len(f)
        /\ \A i \in 1..Len(w) + Len(f) : v[i] = IF i <= Len(w) THEN w[i] ELSE f[i - Len(w)]
    BY ONLY <2>1, v = w \o f, Concat
  <2> QED BY ONLY <1>6, <1>7, <2>2
<1>9. \A i \in 1..q : i \in 1..q + h /\ i <= q
  OBVIOUS
<1>10. \A i \in 1..q : v[i] = w[i]
  BY <1>8, <1>9
<1>11. Extends(v, w)
  <2>1. q <= q + h
    OBVIOUS
  <2> QED BY <1>3, <1>7, <1>8, <1>10, <2>1 DEF Extends
<1>12. \A i \in 1..h : q + i \in 1..q + h /\ ~(q + i <= q) /\ (q + i) - q = i
  OBVIOUS
<1>13. \A i \in 1..h : v[q + i] = f[i]
  BY <1>8, <1>12
<1>14. Piece(f, v, Len(w))
  <2>1. q + h <= q + h
    OBVIOUS
  <2> QED BY <1>6, <1>7, <1>8, <1>13, <2>1 DEF Piece
<1>15. p = [i \in 0..l + 1 |-> IF i = l + 1 THEN (o[l] + Header) + n ELSE o[i]]
  BY <1>1
<1>16. /\ p \in [0..l + 1 -> Nat] /\ p[l + 1] = (o[l] + Header) + n
       /\ \A i \in 0..l : p[i] = o[i]
  <2>1. o[l] \in Nat /\ l + 1 \in 0..l + 1
    BY <1>3
  <2>2. (o[l] + Header) + n \in Nat
    BY <1>4, <2>1
  <2>3. \A i \in 0..l + 1 : i # l + 1 => i \in 0..l
    OBVIOUS
  <2>4. \A i \in 0..l : i \in 0..l + 1 /\ i # l + 1
    OBVIOUS
  <2>5. \A i \in 0..l + 1 : p[i] \in Nat
    BY <1>3, <1>15, <2>2, <2>3
  <2> QED BY <1>15, <2>1, <2>4, <2>5
<1>17. p[0] = 0 /\ Len(v) = p[l + 1]
  <2>1. 0 \in 0..l /\ o[l] = q
    BY <1>3, <1>7
  <2>2. p[l + 1] = (q + Header) + n
    BY <1>16, <2>1
  <2>3. p[l + 1] = q + h
    BY ONLY <1>4, <1>5, <2>2, q \in Nat, n \in Nat
  <2> QED BY <1>3, <1>8, <1>16, <2>1, <2>3
<1>20. \A i \in 0..l + 1 : p[i] <= Len(v)
  <2>1. ASSUME NEW i \in 0..l + 1 PROVE p[i] <= q + h
    <3>1. CASE i = l + 1
      <4>1. p[i] = q + h
        BY <1>8, <1>17, <3>1
      <4> QED BY ONLY <4>1, q \in Nat, h \in Nat
    <3>2. CASE i # l + 1
      <4>1. i \in 0..l
        BY <3>2
      <4>2. p[i] = o[i] /\ o[i] <= q /\ o[i] \in Nat
        BY <1>3, <1>7, <1>16, <4>1
      <4> QED BY ONLY <4>2, q \in Nat, h \in Nat
    <3> QED BY <3>1, <3>2
  <2> QED BY <1>8, <2>1
<1>18. ASSUME NEW i \in 1..l + 1
       PROVE  /\ p[i] = p[i - 1] + Header + sent'[i]
              /\ \A k \in 1..Header + sent'[i] : v[p[i - 1] + k] = <<i, k>>
  <2>1. CASE i = l + 1
    <3>1. i - 1 = l /\ l \in 0..l /\ o[l] = q
      BY <1>3, <1>7, <2>1
    <3>2. p[i - 1] = q /\ p[i] = (q + Header) + n /\ sent'[i] = n
      BY <1>2, <1>16, <2>1, <3>1
    <3>3. \A k \in 1..h : v[q + k] = <<i, k>>
      BY <1>6, <1>13, <2>1
    <3> QED BY <1>5, <3>2, <3>3
  <2>2. CASE i # l + 1
    <3>1. i \in 1..l /\ i - 1 \in 0..l /\ i \in 0..l
      BY <2>2
    <3>2. p[i - 1] = o[i - 1] /\ p[i] = o[i] /\ sent'[i] = sent[i]
      BY <1>2, <1>16, <2>2, <3>1
    <3>3. ASSUME NEW k \in 1..Header + sent[i] PROVE v[o[i - 1] + k] = <<i, k>>
      <4>1. PICK s \in Nat : s = sent[i]
        BY <1>1, <3>1
      <4>2. o[i] = o[i - 1] + Header + s /\ w[o[i - 1] + k] = <<i, k>>
        BY <1>3, <3>1, <3>3, <4>1
      <4>3. o[i] <= q
        BY <1>3, <1>7, <3>1
      <4>4. o[i - 1] \in Nat /\ o[i] \in Nat /\ k \in 1..Header + s
        BY <1>3, <1>7, <3>1, <3>3, <4>1
      <4>5. o[i - 1] + k \in 1..q
        BY ONLY <1>4, <4>2, <4>3, <4>4, s \in Nat, q \in Nat
      <4> QED BY <1>10, <4>2, <4>5
    <3> QED BY <1>3, <3>1, <3>2, <3>3
  <2> QED BY <2>1, <2>2
<1>19. Laid(v, p)'
  <2>1. v \in Seq(Nat \X Nat) /\ p \in [0..Len(sent') -> Nat]
    BY <1>2, <1>8, <1>16
  <2>2. p[0] = 0 /\ Len(v) = p[Len(sent')] /\ \A i \in 0..Len(sent') : p[i] <= Len(v)
    BY <1>2, <1>17, <1>20
  <2>3. \A i \in 1..Len(sent') : /\ p[i] = p[i - 1] + Header + sent'[i]
                                 /\ \A k \in 1..Header + sent'[i] : v[p[i - 1] + k] = <<i, k>>
    BY <1>2, <1>18
  <2> QED BY <2>1, <2>2, <2>3 DEF Laid
<1>21. Len(v) = Len(w) + Len(f) /\ \A i \in 0..Len(sent) : p[i] = o[i]
  <2>1. Len(v) = Len(w) + Len(f)
    BY ONLY <1>6, <1>7, <1>8
  <2> QED BY <1>1, <1>16, <2>1
<1>22. f = C!Frame(Len(sent) + 1, n)
  OBVIOUS
<1> QED BY ONLY <1>11, <1>14, <1>19, <1>21, <1>22

LEMMA SubSeqOfLonger ==
  ASSUME NEW s \in Seq(Nat), NEW n \in Nat, NEW r \in 0..Len(s)
  PROVE  SubSeq(s, 1, r) = SubSeq(Append(s, n), 1, r)
<1>1. PICK l, t : l = Len(s) /\ t = Append(s, n) /\ l \in Nat /\ t \in Seq(Nat)
  <2>1. Append(s, n) \in Seq(Nat) /\ Len(s) \in Nat
    OBVIOUS
  <2> QED BY <2>1
<1>2. r \in 0..l /\ Len(t) = l + 1 /\ \A i \in 1..l : t[i] = s[i]
  BY <1>1
<1>3. PICK x, y : x = SubSeq(s, 1, r) /\ y = SubSeq(t, 1, r)
  OBVIOUS
<1>4. /\ r \in Nat /\ 1 # 0 /\ 1 \in Nat /\ 1 <= r + 1 /\ r <= Len(s) /\ r <= Len(t)
      /\ (r - 1) + 1 = r /\ 1 - 1 = 0 /\ \A i \in 1..r : 0 + i = i /\ i \in 1..l
  BY <1>1, <1>2
<1>5. x \in Seq(Nat) /\ DOMAIN x = 1..r /\ \A i \in 1..r : x[i] = s[i]
  <2>1. Part(SubSeq(s, 1, r), Nat, s, 1, r)
    BY <1>4, SubSeqIs
  <2>2. x \in Seq(Nat) /\ Copies(x, r, s, 0)
    BY <1>3, <1>4, <2>1 DEF Part
  <2> QED BY <1>4, <2>2 DEF Copies
<1>6. y \in Seq(Nat) /\ DOMAIN y = 1..r /\ \A i \in 1..r : y[i] = t[i]
  <2>1. Part(SubSeq(t, 1, r), Nat, t, 1, r)
    BY <1>1, <1>4, SubSeqIs
  <2>2. y \in Seq(Nat) /\ Copies(y, r, t, 0)
    BY <1>3, <1>4, <2>1 DEF Part
  <2> QED BY <1>4, <2>2 DEF Copies
<1>7. x = [i \in DOMAIN x |-> x[i]] /\ y = [i \in DOMAIN y |-> y[i]]
  BY <1>5, <1>6
<1>8. \A i \in 1..r : x[i] = y[i]
  BY <1>2, <1>4, <1>5, <1>6
<1>9. x = y
  BY ONLY <1>5, <1>6, <1>7, <1>8
<1> QED BY <1>1, <1>3, <1>9

LEMMA SendKeeps ==
  ASSUME ChannelInv, NEW n \in Sizes, C!Send(n)
  PROVE  ChannelInv' /\ C!C!Send
<1>1. /\ sent' = Append(sent, n) /\ writeBuf' = writeBuf \o C!Frame(Len(sent) + 1, n)
      /\ pipe' = pipe /\ readBuf' = readBuf /\ readLen' = readLen /\ received' = received
      /\ closed' = closed
  BY DEF C!Send, C!reader
<1>2. sent \in Seq(Nat) /\ closed \in BOOLEAN
  BY DEF ChannelInv
<1>3. n \in Nat
  BY SizesAre
<1>4. PICK l \in Nat : l = Len(sent)
  BY <1>2
<1>5. sent' \in Seq(Nat) /\ Len(sent') = l + 1 /\ \A i \in 1..l : sent'[i] = sent[i]
  BY <1>1, <1>2, <1>3, <1>4
<1>6. PICK r \in 0..l : received = SubSeq(sent, 1, r) /\ (~closed => \E w, o : Flows(r, w, o))
  BY <1>4 DEF ChannelInv
<1>7. received' = SubSeq(sent', 1, r)
  BY <1>1, <1>2, <1>3, <1>4, <1>6, SubSeqOfLonger
<1>8. ASSUME ~closed PROVE \E v, p : Flows(r, v, p)'
  <2>1. PICK w, o : Flows(r, w, o)
    BY <1>6, <1>8
  <2>2. Laid(w, o) /\ Reads(readBuf, readLen, r, w, o)
    BY <2>1 DEF Flows
  <2>3. w \in Seq(Nat \X Nat) /\ o \in [0..l -> Nat]
    BY <1>4, <2>2 DEF Laid
  <2>7. PICK f, v, p : /\ f = C!Frame(Len(sent) + 1, n) /\ Laid(v, p)' /\ Extends(v, w)
                       /\ Piece(f, v, Len(w)) /\ Len(v) = Len(w) + Len(f)
                       /\ \A i \in 0..Len(sent) : p[i] = o[i]
    BY <1>1, <1>2, <1>3, <2>2, LaidOn
  <2>8. p[r] = o[r]
    <3>1. r \in 0..Len(sent)
      BY <1>4, <1>6
    <3> QED BY <2>7, <3>1
  <2>9. PICK a : a = Place(r, readLen, o)
    OBVIOUS
  <2>10. Place(r, readLen, p) = a
    BY <2>8, <2>9 DEF Place
  <2>11. /\ readLen \in Nat \union {-1} /\ (readLen # -1 => r < l /\ readLen = sent[r + 1])
         /\ Piece(readBuf, w, a)
    BY <1>4, <2>2, <2>9 DEF Reads
  <2>12. /\ Piece(pipe, w, a + Len(readBuf))
         /\ Piece(writeBuf, w, (a + Len(readBuf)) + Len(pipe))
         /\ ((a + Len(readBuf)) + Len(pipe)) + Len(writeBuf) = Len(w)
    BY <2>1, <2>9 DEF Flows
  <2>13. /\ Piece(readBuf, v, a) /\ Piece(pipe, v, a + Len(readBuf))
         /\ Piece(writeBuf, v, (a + Len(readBuf)) + Len(pipe))
    BY <2>7, <2>11, <2>12, PieceOfLonger
  <2>14. v \in Seq(Nat \X Nat)
    BY <2>7 DEF Extends
  <2>15. /\ Piece(writeBuf', v, (a + Len(readBuf)) + Len(pipe))
         /\ Len(writeBuf') = Len(writeBuf) + Len(f)
    <3>1. ((a + Len(readBuf)) + Len(pipe)) + Len(writeBuf) = Len(w)
      BY <2>12
    <3>2. Piece(f, v, ((a + Len(readBuf)) + Len(pipe)) + Len(writeBuf))
      BY <2>7, <3>1
    <3>3. Piece(writeBuf, v, (a + Len(readBuf)) + Len(pipe))
      BY <2>13
    <3>4. writeBuf' = writeBuf \o f
      BY <1>1, <2>7
    <3>5. Piece(writeBuf \o f, v, (a + Len(readBuf)) + Len(pipe)) /\ Len(writeBuf \o f) = Len(writeBuf) + Len(f)
      BY ONLY <2>14, <3>2, <3>3, PieceJoined
    <3> QED BY ONLY <3>4, <3>5
  <2>16. ((a + Len(readBuf)) + Len(pipe)) + Len(writeBuf') = Len(v)
    <3>1. a \in Nat /\ Len(readBuf) \in Nat /\ Len(pipe) \in Nat /\ Len(writeBuf) \in Nat
      BY <2>3, <2>11, <2>12, PieceIs
    <3>2. Len(f) \in Nat
      BY <2>7, <2>14, PieceIs
    <3>3. Len(w) \in Nat
      BY <2>3
    <3>4. /\ ((a + Len(readBuf)) + Len(pipe)) + Len(writeBuf) = Len(w)
          /\ Len(writeBuf') = Len(writeBuf) + Len(f) /\ Len(v) = Len(w) + Len(f)
      BY <2>7, <2>12, <2>15
    <3> QED BY ONLY <3>1, <3>2, <3>3, <3>4
  <2>17. Reads(readBuf, readLen, r, v, p)'
    <3>1. r \in 0..Len(sent')
      BY <1>5, <1>6
    <3>2. readLen # -1 => r < Len(sent') /\ readLen = sent'[r + 1]
      <4>1. r < l => r + 1 \in 1..l /\ r < l + 1
        BY <1>6
      <4> QED BY <1>5, <2>11, <4>1
    <3>3. readLen' = readLen /\ readBuf' = readBuf
      BY <1>1
    <3>4. Place(r, readLen', p) = a
      BY <2>10, <3>3
    <3> QED BY <2>11, <2>13, <3>1, <3>2, <3>3, <3>4 DEF Reads
  <2>18. Flows(r, v, p)'
    <3>1. Place(r, readLen, p)' = a /\ readBuf' = readBuf /\ pipe' = pipe
      <4>1. readLen' = readLen /\ readBuf' = readBuf /\ pipe' = pipe
        BY <1>1
      <4> QED BY <2>10, <4>1 DEF Place
    <3> QED BY <2>7, <2>13, <2>15, <2>16, <2>17, <3>1 DEF Flows
  <2> QED BY <2>18
<1>9. ChannelInv'
  <2>1. r \in 0..Len(sent')
    BY <1>5, <1>6
  <2> QED BY <1>1, <1>2, <1>5, <1>7, <1>8, <2>1 DEF ChannelInv
<1>10. C!C!Send
  BY <1>1 DEF C!C!Send
<1> QED BY <1>9, <1>10

\* What changes neither the messages nor what lies where.
LEMMA FlowsStay ==
  ASSUME sent' = sent, pipe' = pipe, writeBuf' = writeBuf, readBuf' = readBuf, readLen' = readLen,
         NEW r, NEW w, NEW o, Flows(r, w, o)
  PROVE  Flows(r, w, o)'
<1>1. Laid(w, o) /\ Reads(readBuf, readLen, r, w, o)
  BY DEF Flows
<1>2. Laid(w, o)'
  BY <1>1, LaidStays
<1>3. Reads(readBuf, readLen, r, w, o)'
  BY <1>1 DEF Reads, Place, Piece
<1> QED BY <1>2, <1>3 DEF Flows, Place, Piece

LEMMA QuietKeeps ==
  ASSUME ChannelInv, sent' = sent, received' = received, closed' = closed,
         \A r, w, o : Flows(r, w, o) => \E v, p : Flows(r, v, p)'
  PROVE  ChannelInv'
<1>1. PICK r \in 0..Len(sent) : received = SubSeq(sent, 1, r) /\ (~closed => \E w, o : Flows(r, w, o))
  BY DEF ChannelInv
<1>2. ~closed => \E v, p : Flows(r, v, p)'
  BY <1>1
<1>3. sent \in Seq(Nat) /\ closed \in BOOLEAN
  BY DEF ChannelInv
<1> QED BY <1>1, <1>2, <1>3 DEF ChannelInv

LEMMA ChannelStays ==
  ASSUME ChannelInv, UNCHANGED channel
  PROVE  ChannelInv' /\ UNCHANGED C!C!vars
<1>1. /\ sent' = sent /\ pipe' = pipe /\ writeBuf' = writeBuf /\ readBuf' = readBuf
      /\ readLen' = readLen /\ received' = received /\ closed' = closed
  BY DEF channel
<1>2. ASSUME NEW r, NEW w, NEW o, Flows(r, w, o) PROVE \E v, p : Flows(r, v, p)'
  BY <1>1, <1>2, FlowsStay
<1> QED BY <1>1, <1>2, QuietKeeps DEF C!C!vars

LEMMA WriterKeeps ==
  ASSUME ChannelInv, C!StartWrite
  PROVE  ChannelInv' /\ UNCHANGED C!C!vars
<1>1. /\ sent' = sent /\ pipe' = pipe /\ writeBuf' = writeBuf /\ readBuf' = readBuf
      /\ readLen' = readLen /\ received' = received /\ closed' = closed
  BY DEF C!StartWrite, C!reader
<1>2. ASSUME NEW r, NEW w, NEW o, Flows(r, w, o) PROVE \E v, p : Flows(r, v, p)'
  BY <1>1, <1>2, FlowsStay
<1> QED BY <1>1, <1>2, QuietKeeps DEF C!C!vars

LEMMA WriteKeeps ==
  ASSUME ChannelInv, C!Write
  PROVE  ChannelInv' /\ UNCHANGED C!C!vars
<1>1. /\ sent' = sent /\ readBuf' = readBuf /\ readLen' = readLen /\ received' = received
      /\ closed' = closed
  BY DEF C!Write, C!reader
<1>2. ASSUME NEW r, NEW w, NEW o, Flows(r, w, o) PROVE Flows(r, w, o)'
  <2>1. CASE writeBuf' = writeBuf /\ pipe' = pipe
    BY <1>1, <1>2, <2>1, FlowsStay
  <2>2. CASE \E k \in 1..C!Least(Pipe - Len(pipe), Len(writeBuf)) :
               pipe' = pipe \o C!Taken(writeBuf, k) /\ writeBuf' = C!Rest(k)
    <3>1. PICK k \in 1..C!Least(Pipe - Len(pipe), Len(writeBuf)) :
               pipe' = pipe \o C!Taken(writeBuf, k) /\ writeBuf' = C!Rest(k)
      BY <2>2
    <3>2. PICK a : a = Place(r, readLen, o) + Len(readBuf)
      OBVIOUS
    <3>3. /\ Laid(w, o) /\ Reads(readBuf, readLen, r, w, o)
          /\ Piece(pipe, w, a) /\ Piece(writeBuf, w, a + Len(pipe))
          /\ (a + Len(pipe)) + Len(writeBuf) = Len(w)
      BY <1>2, <3>2 DEF Flows
    <3>4. w \in Seq(Nat \X Nat)
      BY <3>3 DEF Laid
    <3>5. PICK n \in Nat, m \in Nat : n = Len(pipe) /\ m = Len(writeBuf)
      BY <3>3, <3>4, PieceIs
    <3>6. a \in Nat
      BY <3>3, <3>4, PieceIs
    <3>7. k \in 0..m /\ k \in Nat
      <4>1. Pipe - n \in Int
        BY LiveAssumption DEF C!ChannelSizes
      <4>2. k \in 1..IF Pipe - n < m THEN Pipe - n ELSE m
        BY <3>5 DEF C!Least
      <4> QED BY ONLY <4>1, <4>2, m \in Nat
    <3>8. PICK q, s : q = C!Taken(writeBuf, k) /\ s = C!Shifted(writeBuf, k)
      OBVIOUS
    <3>9. Piece(q, w, a + n) /\ Len(q) = k /\ Piece(s, w, (a + n) + k) /\ Len(s) = m - k
      <4>1. Piece(writeBuf, w, a + n) /\ k \in 0..Len(writeBuf)
        BY <3>3, <3>5, <3>7
      <4>2. Piece(q, w, a + n) /\ Len(q) = k
        BY ONLY <3>4, <3>8, <4>1, PieceTaken
      <4>3. Piece(s, w, (a + n) + k) /\ Len(s) = Len(writeBuf) - k
        BY ONLY <3>4, <3>8, <4>1, PieceShifted
      <4> QED BY <3>5, <4>2, <4>3
    <3>10. Piece(pipe', w, a) /\ Len(pipe') = n + k /\ writeBuf' = s
      <4>1. Piece(pipe, w, a) /\ Piece(q, w, a + Len(pipe))
        BY <3>3, <3>5, <3>9
      <4>2. Piece(pipe \o q, w, a) /\ Len(pipe \o q) = Len(pipe) + Len(q)
        BY ONLY <3>4, <4>1, PieceJoined
      <4> QED BY <3>1, <3>5, <3>8, <3>9, <4>2 DEF C!Rest
    <3>11. /\ (a + n) + k = a + (n + k) /\ (a + (n + k)) + (m - k) = (a + n) + m
      BY ONLY <3>6, <3>7, n \in Nat, m \in Nat
    <3>12. /\ Piece(writeBuf', w, a + Len(pipe')) /\ (a + Len(pipe')) + Len(writeBuf') = Len(w)
      BY <3>3, <3>5, <3>9, <3>10, <3>11
    <3>13. Laid(w, o)' /\ Reads(readBuf, readLen, r, w, o)'
      <4>1. Reads(readBuf, readLen, r, w, o)'
        BY <1>1, <3>3 DEF Reads, Place, Piece
      <4> QED BY <1>1, <3>3, <4>1, LaidStays
    <3>14. Place(r, readLen, o)' + Len(readBuf)' = a
      BY <1>1, <3>2 DEF Place
    <3> QED BY <3>10, <3>12, <3>13, <3>14 DEF Flows
  <2>3. \/ writeBuf' = writeBuf /\ pipe' = pipe
        \/ \E k \in 1..C!Least(Pipe - Len(pipe), Len(writeBuf)) :
               pipe' = pipe \o C!Taken(writeBuf, k) /\ writeBuf' = C!Rest(k)
    BY DEF C!Write
  <2> QED BY <2>1, <2>2, <2>3
<1>3. \A r, w, o : Flows(r, w, o) => \E v, p : Flows(r, v, p)'
  BY <1>2
<1> QED BY <1>1, <1>3, QuietKeeps DEF C!C!vars

LEMMA ReadKeeps ==
  ASSUME ChannelInv, C!Read
  PROVE  ChannelInv' /\ (C!C!Next \/ UNCHANGED C!C!vars)
<1>1. sent' = sent /\ writeBuf' = writeBuf /\ closed = FALSE
  BY DEF C!Read, C!writer, ChannelInv
<1>2. sent \in Seq(Nat) /\ sent' \in Seq(Nat)
  BY <1>1 DEF ChannelInv
<1>3. PICK l \in Nat : l = Len(sent)
  BY <1>2
<1>4. PICK r, w, o : r \in 0..l /\ received = SubSeq(sent, 1, r) /\ Flows(r, w, o)
  BY <1>1, <1>3 DEF ChannelInv
<1>5. Len(received) = r
  <2>1. r \in Nat /\ 1 \in Nat /\ 1 # 0 /\ 1 <= r + 1 /\ r <= Len(sent) /\ (r - 1) + 1 = r
    BY <1>3, <1>4
  <2>2. Part(SubSeq(sent, 1, r), Nat, sent, 1, r)
    BY <1>2, <2>1, SubSeqIs
  <2> QED BY <1>4, <2>1, <2>2 DEF Part
<1>6. PICK k \in 1..C!Least(ReadSize, Len(pipe)) :
        /\ pipe' = C!Shifted(pipe, k)
        /\ \/ /\ C!TooLong(k) /\ closed' = TRUE
              /\ readBuf' = readBuf /\ readLen' = readLen /\ received' = received
           \/ /\ ~C!TooLong(k)
              /\ LET c == C!Cut[<<readBuf \o C!Taken(pipe, k), readLen>>] IN
                   /\ readBuf' = c.buf /\ readLen' = c.len
                   /\ received' = received \o c.out /\ closed' = c.bad
  BY DEF C!Read, C!Kept
<1>7. CASE C!TooLong(k) /\ closed' = TRUE /\ received' = received
  <2>1. C!C!Break
    BY <1>1, <1>7 DEF C!C!Break
  <2>2. ChannelInv'
    BY <1>1, <1>2, <1>3, <1>4, <1>7 DEF ChannelInv
  <2> QED BY <2>1, <2>2 DEF C!C!Next
<1>8. CASE LET c == C!Cut[<<readBuf \o C!Taken(pipe, k), readLen>>] IN
             /\ readBuf' = c.buf /\ readLen' = c.len
             /\ received' = received \o c.out /\ closed' = c.bad
  <2>1. PICK q, s : q = C!Taken(pipe, k) /\ s = C!Shifted(pipe, k)
    OBVIOUS
  <2>2. PICK buf, len : buf = readBuf \o q /\ len = readLen
    OBVIOUS
  <2>3. PICK c : c = C!Cut[<<buf, len>>]
    OBVIOUS
  <2>4. readBuf' = c.buf /\ readLen' = c.len /\ received' = received \o c.out /\ closed' = c.bad
    BY <1>8, <2>1, <2>2, <2>3
  <2>5. PICK a, b : a = Place(r, readLen, o) /\ b = a + Len(readBuf)
    OBVIOUS
  <2>6. /\ Laid(w, o) /\ Reads(readBuf, readLen, r, w, o)
        /\ Piece(pipe, w, b) /\ Piece(writeBuf, w, b + Len(pipe))
        /\ (b + Len(pipe)) + Len(writeBuf) = Len(w)
    BY <1>4, <2>5 DEF Flows
  <2>7. w \in Seq(Nat \X Nat)
    BY <2>6 DEF Laid
  <2>8. Piece(readBuf, w, a)
    BY <2>5, <2>6 DEF Reads
  <2>9. PICK n \in Nat, m \in Nat, h \in Nat : n = Len(pipe) /\ m = Len(writeBuf) /\ h = Len(readBuf)
    BY <2>6, <2>7, <2>8, PieceIs
  <2>10. a \in Nat /\ b = a + h
    BY <2>5, <2>7, <2>8, <2>9, PieceIs
  <2>11. k \in 0..n /\ k \in Nat
    <3>1. ReadSize \in Nat /\ k \in 1..IF ReadSize < n THEN ReadSize ELSE n
      BY <2>9, SizesAre DEF C!Least
    <3> QED BY ONLY <3>1, n \in Nat
  <2>12. Piece(q, w, b) /\ Len(q) = k /\ Piece(s, w, b + k) /\ Len(s) = n - k
    <3>1. Piece(pipe, w, b) /\ k \in 0..Len(pipe)
      BY <2>6, <2>9, <2>11
    <3>2. Piece(q, w, b) /\ Len(q) = k
      BY ONLY <2>1, <2>7, <3>1, PieceTaken
    <3>3. Piece(s, w, b + k) /\ Len(s) = Len(pipe) - k
      BY ONLY <2>1, <2>7, <3>1, PieceShifted
    <3> QED BY <2>9, <3>2, <3>3
  <2>13. Piece(buf, w, a) /\ Len(buf) = h + k
    <3>1. Piece(readBuf, w, a) /\ Piece(q, w, a + Len(readBuf))
      BY <2>5, <2>8, <2>12
    <3>2. Piece(readBuf \o q, w, a) /\ Len(readBuf \o q) = Len(readBuf) + Len(q)
      BY ONLY <2>7, <3>1, PieceJoined
    <3> QED BY <2>2, <2>9, <2>12, <3>2
  <2>14. Reads(buf, len, r, w, o)
    BY <2>2, <2>5, <2>6, <2>13 DEF Reads
  <2>15. Outcome(c, r, w, o, Place(r, len, o) + Len(buf))
    BY <1>2, <2>3, <2>6, <2>14, CutOutcome
  <2>16. PICK j : /\ j \in r..l /\ Reads(c.buf, c.len, j, w, o)
                  /\ Place(j, c.len, o) + Len(c.buf) = Place(r, len, o) + Len(buf)
                  /\ c.out = SubSeq(sent, r + 1, j)
    BY <1>3, <2>15 DEF Outcome
  <2>17. c.bad \in BOOLEAN
    BY <2>15 DEF Outcome
  <2>18. r \in Nat /\ j \in Nat /\ r <= j /\ j <= l /\ j \in 0..l
    BY <1>4, <2>16
  <2>19. received' = SubSeq(sent, 1, j)
    <3>1. 1 \in Nat /\ 1 # 0 /\ 1 <= r + 1 /\ j <= Len(sent)
      BY <1>3, <2>18
    <3>2. SubSeq(sent, 1, r) \o SubSeq(sent, r + 1, j) = SubSeq(sent, 1, j)
      BY <1>2, <2>18, <3>1, Joined
    <3> QED BY <1>4, <2>4, <2>16, <3>2
  <2>20. Reads(readBuf, readLen, j, w, o)'
    <3>1. j \in 0..Len(sent')
      BY <1>1, <1>3, <2>18
    <3>2. /\ c.len \in Nat \union {-1} /\ (c.len # -1 => j < Len(sent) /\ c.len = sent[j + 1])
          /\ Piece(c.buf, w, Place(j, c.len, o))
      BY <2>16 DEF Reads
    <3>3. Place(j, readLen', o) = Place(j, c.len, o)
      BY <2>4
    <3> QED BY <1>1, <2>4, <3>1, <3>2, <3>3 DEF Reads
  <2>21. Place(j, readLen', o) + Len(readBuf') = b + k
    <3>1. Place(j, readLen', o) + Len(readBuf') = a + (h + k)
      BY <2>2, <2>4, <2>5, <2>13, <2>16
    <3> QED BY ONLY <2>10, <2>11, <3>1, h \in Nat
  <2>22. pipe' = s /\ Len(s) = n - k
    BY <1>6, <2>1, <2>12
  <2>23. (b + k) + (n - k) = b + n
    BY ONLY <2>10, <2>11, n \in Nat, h \in Nat
  <2>24. /\ Piece(pipe', w, b + k) /\ Piece(writeBuf', w, (b + k) + Len(pipe'))
         /\ ((b + k) + Len(pipe')) + Len(writeBuf') = Len(w)
    BY <1>1, <2>6, <2>9, <2>12, <2>22, <2>23
  <2>25. Flows(j, w, o)'
    <3>1. Laid(w, o)'
      BY <1>1, <2>6, LaidStays
    <3>2. (Place(j, readLen, o) + Len(readBuf))' = b + k
      BY <2>21 DEF Place
    <3> QED BY <2>20, <2>24, <3>1, <3>2 DEF Flows
  <2>26. ChannelInv'
    BY <1>1, <1>2, <1>3, <2>4, <2>17, <2>18, <2>19, <2>25 DEF ChannelInv
  <2>27. CASE j = r
    <3>1. received' = received
      BY <1>4, <2>19, <2>27
    <3>2. closed' = FALSE \/ closed' = TRUE
      BY <2>4, <2>17
    <3> QED BY <1>1, <2>26, <3>1, <3>2 DEF C!C!vars, C!C!Break, C!C!Next
  <2>28. CASE j # r
    <3>1. j \in (Len(received) + 1)..Len(sent)
      BY <1>3, <1>5, <2>18, <2>28
    <3>2. closed' \in BOOLEAN
      BY <2>4, <2>17
    <3>3. C!C!Receive
      BY <1>1, <2>19, <3>1, <3>2 DEF C!C!Receive
    <3> QED BY <2>26, <3>3 DEF C!C!Next
  <2> QED BY <2>27, <2>28
<1> QED BY <1>6, <1>7, <1>8

LEMMA ChannelMoves ==
  ASSUME ChannelInv, [LiveNext]_all
  PROVE  ChannelInv' /\ [C!C!Next]_(C!C!vars)
<1>1. CASE C!Next
  <2>1. CASE C!StartWrite
    BY <2>1, WriterKeeps
  <2>2. CASE C!Write
    BY <2>2, WriteKeeps
  <2>3. CASE C!Read
    BY <2>3, ReadKeeps
  <2>4. CASE \E n \in Sizes : C!Send(n)
    <3>1. PICK n \in Sizes : C!Send(n)
      BY <2>4
    <3> QED BY <3>1, SendKeeps DEF C!C!Next
  <2> QED BY <1>1, <2>1, <2>2, <2>3, <2>4 DEF C!Next
<1>2. CASE UNCHANGED channel
  BY <1>2, ChannelStays
<1>3. C!Next \/ UNCHANGED channel
  BY DEF LiveNext, all
<1> QED BY <1>1, <1>2, <1>3

(* However frames are split, by the writer and by the reader, whatever the   *)
(* sizes of messages, pipe and reads: what the worker's thread hands over    *)
(* (_on_channel_read) is what was sent (wrc_adapter_send_msg), each message   *)
(* whole, once and in order, until the reader gives up.                      *)
THEOREM ChannelDelivers == LiveSpec => C!C!Init /\ [][C!C!Next]_(C!C!vars)
<1>1. LiveInit => ChannelInv /\ C!C!Init
  BY ChannelStarts DEF LiveInit
<1>2. ChannelInv /\ [LiveNext]_all => ChannelInv'
  BY ChannelMoves
<1>3. ChannelInv /\ [LiveNext]_all => [C!C!Next]_(C!C!vars)
  BY ChannelMoves
<1> QED BY <1>1, <1>2, <1>3, PTL DEF LiveSpec
=============================================================================
