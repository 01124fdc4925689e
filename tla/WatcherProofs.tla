---------------------------- MODULE WatcherProofs ----------------------------
(***************************************************************************)
(* Safety of the deposit watcher for every set of workers, deposits,       *)
(* amounts, webhook bodies and limits: chain_events and the ledger agree,  *)
(* the hook runs at most once per credit, and nothing is credited that the *)
(* chain dropped before it was final or past the threshold.                *)
(***************************************************************************)
EXTENDS Watcher, SumTheorems

Transfer == [status : {"pending", "confirmed"}, user : User, amount : Nat]

\* What the invariants need of the types: nothing of the lists a tick walks,
\* since an entry acts only if it is a row the chain showed as deep enough, or an
\* index of the tables it updates.
StateOK ==
  /\ finality \in [Tx -> {"absent", "confirmed", "deep", "final", "dropped", "reorged"}]
  /\ chainEvent \in [Tx -> {"absent", "detected", "credited"}]
  /\ deposit \in [Tx -> {NoDeposit} \cup Transfer]
  /\ offramps \subseteq Tx
  /\ fired \in [Tx -> Nat]
  /\ pc \in [Worker -> {"idle", "detect", "credit", "hook"}]
  /\ todo = [w \in Worker |-> todo[w]]
  /\ rooted \in [Worker -> SUBSET Tx]

\* A deposit that once was past the threshold is never again short of it,
\* although the chain may since have dropped it.
PastThreshold == {"deep", "final", "reorged"}
RootedInv == \A w \in Worker : \A t \in rooted[w] : finality[t] \in PastThreshold

\* A worker at its hook has credited the row before it, whose hook has not
\* been called, and is the only one there for that row.
HookInv ==
  /\ \A w \in Worker :
       pc[w] = "hook" => /\ Head(todo[w]) \in Tx
                         /\ chainEvent[Head(todo[w])] = "credited"
                         /\ fired[Head(todo[w])] = 0
  /\ \A v, w \in Worker :
       pc[v] = "hook" /\ pc[w] = "hook" /\ Head(todo[v]) = Head(todo[w]) => v = w

IInv == /\ StateOK /\ RootedInv /\ HookInv
        /\ EventsMatchLedger /\ HookOncePerCredit /\ CreditedPastThreshold
-----------------------------------------------------------------------------
LEMMA NotATransfer == NoDeposit \notin Transfer /\ NoDeposit.status = "absent"
BY DEF NoDeposit, Transfer

LEMMA InitInv == Init => IInv
BY NotATransfer DEF Init, IInv, StateOK, RootedInv, HookInv, EventsMatchLedger,
   HookOncePerCredit, CreditedPastThreshold

\* Whoever books under a deposit's key, the deposit keeps its status, or is
\* booked as pending.
LEMMA BookDepositType ==
  ASSUME StateOK, NEW t, NEW u \in User, NEW n \in Nat, BookDeposit(t, u, n)
  PROVE  /\ deposit' \in [Tx -> {NoDeposit} \cup Transfer]
         /\ \A x \in Tx :
              /\ deposit'[x].status = "confirmed" <=> deposit[x].status = "confirmed"
              /\ deposit[x] # NoDeposit => deposit'[x] # NoDeposit
         /\ t \in Tx => deposit'[t] # NoDeposit
<1>1. CASE KeyFree(t)
  BY <1>1, NotATransfer DEF BookDeposit, StateOK, KeyFree, Transfer
<1>2. CASE ~KeyFree(t)
  BY <1>2 DEF BookDeposit, StateOK, KeyFree
<1> QED BY <1>1, <1>2

\* The chain only adds to what is past the threshold.
LEMMA ChainInv ==
  ASSUME IInv, NEW t \in Tx, Land(t) \/ Decided(t)
  PROVE  IInv'
<1>1. UNCHANGED <<bookVars, fired, workerVars>>
  BY DEF Land, Decided, Deepen, Finalize, Drop
<1>2. /\ finality' \in [Tx -> {"absent", "confirmed", "deep", "final", "dropped", "reorged"}]
      /\ \A x \in Tx : finality[x] \in PastThreshold => finality'[x] \in PastThreshold
  BY DEF IInv, StateOK, Land, Decided, Deepen, Finalize, Drop, PastThreshold
<1>3. \A x \in Tx : x \in offramps => finality[x] \in PastThreshold
  BY DEF IInv, CreditedPastThreshold, PastThreshold
<1>4. CreditedPastThreshold'
  BY <1>1, <1>2, <1>3 DEF IInv, CreditedPastThreshold, PastThreshold, bookVars
<1>5. RootedInv'
  BY <1>1, <1>2 DEF IInv, StateOK, RootedInv, workerVars
<1> QED BY <1>1, <1>2, <1>4, <1>5 DEF IInv, StateOK, HookInv, EventsMatchLedger,
           HookOncePerCredit, bookVars, workerVars

LEMMA WebhookInv ==
  ASSUME IInv, NEW t \in Tx, Webhook(t)
  PROVE  IInv'
<1>1. PICK b \in WebhookBody[t] : BookDeposit(t, b.user, b.amount)
  BY DEF Webhook
<1>2. b.user \in User /\ b.amount \in Nat
  BY WatcherAssumption
<1>3. /\ deposit' \in [Tx -> {NoDeposit} \cup Transfer]
      /\ \A x \in Tx :
           /\ deposit'[x].status = "confirmed" <=> deposit[x].status = "confirmed"
           /\ deposit[x] # NoDeposit => deposit'[x] # NoDeposit
  BY <1>1, <1>2, BookDepositType DEF IInv
<1> QED BY <1>3 DEF IInv, StateOK, RootedInv, HookInv, EventsMatchLedger,
           HookOncePerCredit, CreditedPastThreshold, Webhook, chainVars, workerVars

LEMMA DetectDepositInv ==
  ASSUME IInv, NEW w \in Worker, DetectDeposit(w)
  PROVE  IInv'
<1>1. PICK t \in Tx :
        /\ BookDeposit(t, CreditedUser, ChainAmount[t])
        /\ pc' = [pc EXCEPT ![w] = "detect"]
        /\ todo' = [todo EXCEPT ![w] = Tail(@)]
        /\ chainEvent' = [chainEvent EXCEPT ![t] = "detected"]
        /\ chainEvent[t] = "absent"
        /\ UNCHANGED <<finality, offramps, fired, rooted>>
  BY DEF DetectDeposit, Advance, chainVars
<1>2. /\ pc' = [pc EXCEPT ![w] = "detect"]
      /\ todo' = [todo EXCEPT ![w] = Tail(@)]
      /\ chainEvent' = [chainEvent EXCEPT ![t] = "detected"]
      /\ chainEvent[t] = "absent"
      /\ UNCHANGED <<finality, offramps, fired, rooted>>
  BY <1>1
<1>3. /\ deposit' \in [Tx -> {NoDeposit} \cup Transfer]
      /\ \A x \in Tx :
           /\ deposit'[x].status = "confirmed" <=> deposit[x].status = "confirmed"
           /\ deposit[x] # NoDeposit => deposit'[x] # NoDeposit
      /\ deposit'[t] # NoDeposit
  BY <1>1, WatcherAssumption, BookDepositType DEF IInv
<1>4. StateOK'
  BY <1>2, <1>3 DEF IInv, StateOK
<1>5. RootedInv' /\ CreditedPastThreshold'
  BY <1>2 DEF IInv, RootedInv, CreditedPastThreshold
<1>6. EventsMatchLedger' /\ HookOncePerCredit'
  BY <1>2, <1>3 DEF IInv, StateOK, EventsMatchLedger, HookOncePerCredit
<1>7. HookInv'
  <2>1. \A v \in Worker : pc'[v] = "hook" => v # w /\ pc[v] = "hook" /\ todo'[v] = todo[v]
    BY <1>2 DEF IInv, StateOK
  <2> QED BY <1>2, <2>1 DEF IInv, StateOK, HookInv
<1> QED BY <1>4, <1>5, <1>6, <1>7 DEF IInv

\* The guarded update lets one worker through; the row it was shown as deep
\* enough never falls short again.
LEMMA CreditDepositInv ==
  ASSUME IInv, NEW w \in Worker, CreditDeposit(w)
  PROVE  IInv'
<1> DEFINE t == Head(todo[w])
<1>1. t \in Tx /\ finality[t] \in PastThreshold /\ chainEvent[t] = "detected"
  BY DEF CreditDeposit, Advances, IInv, StateOK, RootedInv
<1>2. t \notin offramps /\ deposit[t] \in Transfer /\ fired[t] = 0
  BY <1>1 DEF IInv, StateOK, EventsMatchLedger, HookOncePerCredit
<1>3. /\ deposit' = [deposit EXCEPT ![t].status = "confirmed"]
      /\ chainEvent' = [chainEvent EXCEPT ![t] = "credited"]
      /\ offramps' = offramps \cup {t}
      /\ pc' = [pc EXCEPT ![w] = "hook"]
      /\ UNCHANGED <<finality, fired, todo, rooted>>
  BY <1>2 DEF CreditDeposit, chainVars
<1>4. /\ deposit' \in [Tx -> {NoDeposit} \cup Transfer]
      /\ \A x \in Tx : deposit'[x].status = IF x = t THEN "confirmed" ELSE deposit[x].status
      /\ \A x \in Tx : deposit[x] # NoDeposit => deposit'[x] # NoDeposit
  BY <1>1, <1>2, <1>3, NotATransfer DEF IInv, StateOK, Transfer
<1>5. StateOK' /\ RootedInv' /\ CreditedPastThreshold'
  BY <1>1, <1>3, <1>4 DEF IInv, StateOK, RootedInv, CreditedPastThreshold, PastThreshold
<1>6. EventsMatchLedger' /\ HookOncePerCredit'
  BY <1>1, <1>2, <1>3, <1>4 DEF IInv, StateOK, EventsMatchLedger, HookOncePerCredit
<1>7. HookInv'
  <2>1. \A v \in Worker : v # w /\ pc[v] = "hook" => Head(todo[v]) # t
    BY <1>1 DEF IInv, HookInv
  <2> QED BY <1>1, <1>2, <1>3, <2>1 DEF IInv, StateOK, HookInv
<1> QED BY <1>5, <1>6, <1>7 DEF IInv

LEMMA FireHookInv ==
  ASSUME IInv, NEW w \in Worker, FireHook(w)
  PROVE  IInv'
<1> DEFINE t == Head(todo[w])
<1>1. t \in Tx /\ chainEvent[t] = "credited" /\ fired[t] = 0
  BY DEF FireHook, IInv, HookInv
<1>2. /\ fired' = [fired EXCEPT ![t] = 1]
      /\ pc' = [pc EXCEPT ![w] = "credit"]
      /\ todo' = [todo EXCEPT ![w] = Tail(@)]
      /\ UNCHANGED <<finality, chainEvent, deposit, offramps, rooted>>
  BY <1>1 DEF FireHook, Advance, IInv, StateOK, chainVars, bookVars
<1>3. StateOK' /\ RootedInv' /\ EventsMatchLedger' /\ HookOncePerCredit' /\ CreditedPastThreshold'
  BY <1>1, <1>2 DEF IInv, StateOK, RootedInv, EventsMatchLedger, HookOncePerCredit,
     CreditedPastThreshold
<1>4. HookInv'
  <2>1. \A v \in Worker : v # w /\ pc[v] = "hook" => Head(todo[v]) # t
    BY DEF FireHook, IInv, HookInv
  <2> QED BY <1>2, <2>1 DEF IInv, StateOK, HookInv
<1> QED BY <1>3, <1>4 DEF IInv

\* What a tick does besides leaves the tables and the hook alone.
LEMMA WalkInv ==
  ASSUME IInv, NEW w \in Worker,
         \/ Scan(w) \/ SkipSignature(w) \/ BeginConfirm(w) \/ SkipRow(w)
         \/ EndTick(w) \/ FailTick(w) \/ Crash(w)
  PROVE  IInv'
<1>1. /\ UNCHANGED <<chainVars, bookVars, fired>>
      /\ \E next \in {"idle", "detect", "credit"} : pc' = [pc EXCEPT ![w] = next]
      /\ \E list : todo' = [todo EXCEPT ![w] = list]
      /\ \E set \in SUBSET { t \in Tx : t \in rooted[w] \/ finality[t] \in PastThreshold } :
           rooted' = [rooted EXCEPT ![w] = set]
  <2> USE DEF IInv, StateOK
  <2>1. CASE Scan(w)
    BY <2>1 DEF Scan
  <2>2. CASE SkipSignature(w)
    BY <2>2 DEF SkipSignature, Advance
  <2>3. CASE BeginConfirm(w)
    BY <2>3 DEF BeginConfirm, IsFinal, PastThreshold
  <2>4. CASE SkipRow(w)
    BY <2>4 DEF SkipRow, Advance
  <2>5. CASE EndTick(w)
    BY <2>5 DEF EndTick
  <2>6. CASE FailTick(w)
    BY <2>6 DEF FailTick
  <2>7. CASE Crash(w)
    BY <2>7 DEF Crash
  <2> QED BY <2>1, <2>2, <2>3, <2>4, <2>5, <2>6, <2>7
<1>2. StateOK' /\ RootedInv'
  <2>1. PICK set \in SUBSET { t \in Tx : t \in rooted[w] \/ finality[t] \in PastThreshold } :
          rooted' = [rooted EXCEPT ![w] = set]
    BY <1>1
  <2>2. /\ pc' \in [Worker -> {"idle", "detect", "credit", "hook"}]
        /\ todo' = [v \in Worker |-> todo'[v]]
    BY <1>1 DEF IInv, StateOK
  <2>3. /\ rooted' \in [Worker -> SUBSET Tx]
        /\ \A v \in Worker : rooted'[v] = IF v = w THEN set ELSE rooted[v]
    BY <2>1 DEF IInv, StateOK
  <2>4. RootedInv'
    BY <1>1, <2>3 DEF IInv, RootedInv, chainVars
  <2> QED BY <1>1, <2>2, <2>3, <2>4 DEF IInv, StateOK, chainVars, bookVars
<1>3. HookInv'
  <2>1. \A v \in Worker : pc'[v] = "hook" => v # w /\ pc[v] = "hook" /\ todo'[v] = todo[v]
    BY <1>1 DEF IInv, StateOK
  <2> QED BY <1>1, <2>1 DEF IInv, HookInv, bookVars
<1>4. EventsMatchLedger' /\ HookOncePerCredit' /\ CreditedPastThreshold'
  BY <1>1 DEF IInv, EventsMatchLedger, HookOncePerCredit, CreditedPastThreshold, chainVars, bookVars
<1> QED BY <1>2, <1>3, <1>4 DEF IInv

LEMMA NextInv == IInv /\ [Next]_vars => IInv'
<1> SUFFICES ASSUME IInv, [Next]_vars PROVE IInv'
  OBVIOUS
<1>1. CASE UNCHANGED vars
  BY <1>1 DEF IInv, StateOK, RootedInv, HookInv, EventsMatchLedger, HookOncePerCredit,
     CreditedPastThreshold, vars, chainVars, bookVars, workerVars
<1>2. ASSUME NEW t \in Tx, Land(t) \/ Decided(t) \/ Webhook(t) PROVE IInv'
  BY <1>2, ChainInv, WebhookInv
<1>3. ASSUME NEW w \in Worker, Tick(w) \/ Crash(w) PROVE IInv'
  BY <1>3, DetectDepositInv, CreditDepositInv, FireHookInv, WalkInv DEF Tick
<1> QED BY <1>1, <1>2, <1>3 DEF Next

LEMMA Invariance == Spec => []IInv
<1> QED BY InitInv, NextInv, PTL DEF Spec
-----------------------------------------------------------------------------
\* chain_events is a true statement of the ledger, in every interleaving of
\* workers and webhooks, whichever of them dies.
THEOREM EventsAlwaysMatchLedger == Spec => []EventsMatchLedger
<1>1. IInv => EventsMatchLedger
  BY DEF IInv
<1> QED BY <1>1, Invariance, PTL

\* The routing hook is called at most once for a deposit, after its credit.
THEOREM HookAtMostOnce == Spec => []HookOncePerCredit
<1>1. IInv => HookOncePerCredit
  BY DEF IInv
<1> QED BY <1>1, Invariance, PTL

\* No deposit is spendable that the chain dropped before it was final or past
\* the threshold, in whatever order the chain's decisions fall between the look
\* at it and the credit.
THEOREM OnlyPastThresholdIsCredited == Spec => []CreditedPastThreshold
<1>1. IInv => CreditedPastThreshold
  BY DEF IInv
<1> QED BY <1>1, Invariance, PTL
-----------------------------------------------------------------------------
(* The pending bucket.                                                      *)

\* What the deposits have booked for a user, less what the credits took back
\* from the account the watcher knows.
Booked(u) ==
  [t \in Tx |-> IF deposit[t] # NoDeposit /\ deposit[t].user = u THEN deposit[t].amount ELSE 0]
Drained(u) ==
  [t \in Tx |-> IF t \in offramps /\ u = CreditedUser THEN ChainAmount[t] ELSE 0]
Left(u) == [t \in Tx |-> Booked(u)[t] - Drained(u)[t]]

PendingInv ==
  /\ pending \in [User -> Int]
  /\ \A u \in User : pending[u] = SumFunctionOnSet(Left(u), Tx)

LEMMA LeftType ==
  ASSUME StateOK
  PROVE  \A u : \A t \in Tx : Booked(u)[t] \in Int /\ Drained(u)[t] \in Int /\ Left(u)[t] \in Int
BY WatcherAssumption DEF StateOK, Booked, Drained, Left, Transfer

\* One deposit whose row changes changes each bucket by what it changes there.
LEMMA LeftChanges ==
  ASSUME StateOK, StateOK', PendingInv, NEW t \in Tx, pending' \in [User -> Int],
         \A x \in Tx \ {t} : deposit'[x] = deposit[x] /\ (x \in offramps' <=> x \in offramps),
         \A u \in User : pending'[u] = pending[u] + (Left(u)'[t] - Left(u)[t])
  PROVE  PendingInv'
<1> SUFFICES ASSUME NEW u \in User
             PROVE  pending'[u] = SumFunctionOnSet(Left(u)', Tx)
  BY DEF PendingInv
<1> DEFINE f == Left(u)
           g == Left(u)'
<1>1. \A x \in Tx : f[x] \in Int
  BY LeftType
<1>2. \A x \in Tx : g[x] \in Int
  BY WatcherAssumption DEF StateOK, Booked, Drained, Left, Transfer
<1>3. \A x \in Tx \ {t} : f[x] = g[x]
  BY DEF Left, Booked, Drained
<1>4. pending[u] = SumFunctionOnSet(f, Tx) /\ pending'[u] = pending[u] + (g[t] - f[t])
  BY DEF PendingInv
<1> HIDE DEF f, g
<1>5. SumFunctionOnSet(g, Tx) = SumFunctionOnSet(f, Tx) + (g[t] - f[t])
  BY <1>1, <1>2, <1>3, SumChange, FiniteTx
<1> QED BY <1>4, <1>5 DEF g

LEMMA LeftKept ==
  ASSUME PendingInv, UNCHANGED <<deposit, offramps, pending>>
  PROVE  PendingInv'
BY DEF PendingInv, Left, Booked, Drained

\* A deposit is booked under a key no credit can have used.
LEMMA BookDepositLeft ==
  ASSUME IInv, StateOK', PendingInv, NEW t \in Tx, NEW u \in User, NEW n \in Nat,
         BookDeposit(t, u, n), UNCHANGED offramps
  PROVE  PendingInv'
<1>1. CASE ~KeyFree(t)
  BY <1>1, LeftKept DEF BookDeposit
<1>2. CASE KeyFree(t)
  <2>1. /\ deposit' = [deposit EXCEPT ![t] = [status |-> "pending", user |-> u, amount |-> n]]
        /\ pending' = [pending EXCEPT ![u] = @ + n]
        /\ deposit[t] = NoDeposit
    BY <1>2 DEF BookDeposit, KeyFree
  <2>2. t \notin offramps
    BY <2>1, NotATransfer DEF IInv, EventsMatchLedger
  <2>3. deposit'[t] = [status |-> "pending", user |-> u, amount |-> n]
        /\ deposit'[t] # NoDeposit
    BY <2>1, NotATransfer DEF IInv, StateOK, NoDeposit
  <2>4. \A v \in User : Left(v)[t] = 0 /\ Left(v)'[t] = IF v = u THEN n ELSE 0
    BY <2>1, <2>2, <2>3 DEF Left, Booked, Drained
  <2>5. \A v \in User : pending'[v] = pending[v] + (Left(v)'[t] - Left(v)[t])
    BY <2>1, <2>4 DEF PendingInv
  <2>6. pending' \in [User -> Int]
    BY <2>1 DEF PendingInv
  <2> QED BY <2>1, <2>5, <2>6, LeftChanges DEF IInv, StateOK
<1> QED BY <1>1, <1>2

\* A credit drains the amount the chain showed from the credited account.
LEMMA CreditDepositLeft ==
  ASSUME IInv, StateOK', PendingInv, NEW w \in Worker, CreditDeposit(w)
  PROVE  PendingInv'
<1> DEFINE t == Head(todo[w])
<1>1. t \in Tx /\ chainEvent[t] = "detected"
  BY DEF CreditDeposit, Advances, IInv, StateOK, RootedInv
<1>2. t \notin offramps /\ deposit[t] \in Transfer
  BY <1>1 DEF IInv, StateOK, EventsMatchLedger
<1>3. /\ deposit' = [deposit EXCEPT ![t].status = "confirmed"]
      /\ offramps' = offramps \cup {t}
      /\ pending' = [pending EXCEPT ![CreditedUser] = @ - ChainAmount[t]]
  BY <1>2 DEF CreditDeposit
<1> HIDE DEF t
<1>4. /\ deposit'[t] # NoDeposit /\ deposit[t] # NoDeposit
      /\ deposit'[t].user = deposit[t].user /\ deposit'[t].amount = deposit[t].amount
  BY <1>1, <1>2, <1>3, NotATransfer DEF IInv, StateOK, Transfer, NoDeposit
<1>5. ASSUME NEW u \in User
      PROVE  Left(u)'[t] - Left(u)[t] = IF u = CreditedUser THEN -ChainAmount[t] ELSE 0
  <2>1. Booked(u)'[t] = Booked(u)[t]
    BY <1>1, <1>4 DEF Booked
  <2>2. Drained(u)[t] = 0 /\ Drained(u)'[t] = IF u = CreditedUser THEN ChainAmount[t] ELSE 0
    BY <1>1, <1>2, <1>3 DEF Drained
  <2>3. Booked(u)[t] \in Int /\ ChainAmount[t] \in Int
    BY <1>1, LeftType, WatcherAssumption DEF IInv
  <2> QED BY <1>1, <2>1, <2>2, <2>3 DEF Left
<1>6. pending' \in [User -> Int]
      /\ \A u \in User : pending'[u] = pending[u] + (Left(u)'[t] - Left(u)[t])
  BY <1>1, <1>3, <1>5, WatcherAssumption DEF PendingInv
<1>7. \A x \in Tx \ {t} : deposit'[x] = deposit[x] /\ (x \in offramps' <=> x \in offramps)
  BY <1>3 DEF IInv, StateOK
<1> QED BY <1>1, <1>6, <1>7, LeftChanges DEF IInv

LEMMA PendingNext ==
  ASSUME IInv, IInv', PendingInv, [Next]_vars
  PROVE  PendingInv'
<1>1. CASE UNCHANGED vars
  BY <1>1, LeftKept DEF vars, bookVars
<1>2. ASSUME NEW t \in Tx, Land(t) \/ Decided(t) PROVE PendingInv'
  BY <1>2, LeftKept DEF Land, Decided, Deepen, Finalize, Drop, bookVars
<1>3. ASSUME NEW t \in Tx, Webhook(t) PROVE PendingInv'
  <2>1. PICK b \in WebhookBody[t] : BookDeposit(t, b.user, b.amount)
    BY <1>3 DEF Webhook
  <2>2. b.user \in User /\ b.amount \in Nat
    BY WatcherAssumption
  <2> QED BY <1>3, <2>1, <2>2, BookDepositLeft DEF Webhook, IInv
<1>4. ASSUME NEW w \in Worker, DetectDeposit(w) PROVE PendingInv'
  <2>1. PICK t \in Tx : BookDeposit(t, CreditedUser, ChainAmount[t]) /\ UNCHANGED offramps
    BY <1>4 DEF DetectDeposit
  <2>2. CreditedUser \in User /\ ChainAmount[t] \in Nat
    BY WatcherAssumption
  <2> QED BY <2>1, <2>2, BookDepositLeft DEF IInv
<1>5. ASSUME NEW w \in Worker, CreditDeposit(w) PROVE PendingInv'
  BY <1>5, CreditDepositLeft DEF IInv
<1>6. ASSUME NEW w \in Worker, Tick(w) \/ Crash(w), ~DetectDeposit(w), ~CreditDeposit(w)
      PROVE  PendingInv'
  <2>1. UNCHANGED <<deposit, offramps, pending>>
    BY <1>6 DEF Tick, Crash, Scan, SkipSignature, BeginConfirm, SkipRow, FireHook, EndTick,
       FailTick, bookVars
  <2> QED BY <2>1, LeftKept
<1> QED BY <1>1, <1>2, <1>3, <1>4, <1>5, <1>6 DEF Next

LEMMA PendingInit == Init => PendingInv
<1> SUFFICES ASSUME Init PROVE PendingInv
  OBVIOUS
<1>1. \A u \in User : \A t \in Tx : Left(u)[t] = 0
  BY DEF Init, Left, Booked, Drained
<1>2. \A u \in User : SumFunctionOnSet(Left(u), Tx) = 0
  BY <1>1, SumZero, FiniteTx
<1> QED BY <1>2 DEF Init, PendingInv

\* When every webhook names the account and the amount the watcher will credit,
\* which nothing in the code makes it do.
WebhooksAgree ==
  \A t \in Tx : \A b \in WebhookBody[t] : b.user = CreditedUser /\ b.amount = ChainAmount[t]

\* What a deposit then booked is what its credit drains.
AgreeInv ==
  \A t \in Tx : deposit[t] # NoDeposit =>
    deposit[t].user = CreditedUser /\ deposit[t].amount = ChainAmount[t]

LEMMA AgreeNext ==
  ASSUME WebhooksAgree, IInv, AgreeInv, [Next]_vars
  PROVE  AgreeInv'
<1>1. CASE UNCHANGED deposit
  BY <1>1 DEF AgreeInv
<1>2. ASSUME NEW t \in Tx, NEW u, NEW n, u = CreditedUser, n = ChainAmount[t],
             BookDeposit(t, u, n)
      PROVE  AgreeInv'
  BY <1>2 DEF BookDeposit, AgreeInv, IInv, StateOK
<1>3. ASSUME NEW t \in Tx, Webhook(t) PROVE AgreeInv'
  BY <1>2, <1>3 DEF Webhook, WebhooksAgree
<1>4. ASSUME NEW w \in Worker, DetectDeposit(w) PROVE AgreeInv'
  BY <1>2, <1>4 DEF DetectDeposit
<1>5. ASSUME NEW w \in Worker, CreditDeposit(w) PROVE AgreeInv'
  <2> DEFINE t == Head(todo[w])
  <2>1. t \in Tx /\ deposit[t] \in Transfer
    BY <1>5 DEF CreditDeposit, Advances, IInv, StateOK, RootedInv, EventsMatchLedger
  <2>2. deposit' = deposit \/ deposit' = [deposit EXCEPT ![t].status = "confirmed"]
    BY <1>5 DEF CreditDeposit
  <2> HIDE DEF t
  <2> QED BY <2>1, <2>2, NotATransfer DEF AgreeInv, IInv, StateOK, Transfer
<1>6. UNCHANGED deposit \/ (\E t \in Tx : Webhook(t))
        \/ (\E w \in Worker : DetectDeposit(w) \/ CreditDeposit(w))
  BY DEF Next, Tick, Land, Decided, Deepen, Finalize, Drop, Crash, Scan, SkipSignature, BeginConfirm, SkipRow,
     FireHook, EndTick, FailTick, bookVars, vars
<1> QED BY <1>1, <1>3, <1>4, <1>5, <1>6

\* As long as the webhooks agree with the watcher, a user's pending bucket is
\* what their open deposits booked, whoever booked them and in whatever order
\* workers credit, fail and die.
THEOREM PendingMatchesDeposits ==
  ASSUME WebhooksAgree
  PROVE  Spec => []PendingIsOpenDeposits
<1>1. Init => PendingInv /\ AgreeInv
  BY PendingInit DEF Init, AgreeInv
<1>2. IInv /\ IInv' /\ PendingInv /\ AgreeInv /\ [Next]_vars => PendingInv' /\ AgreeInv'
  BY PendingNext, AgreeNext
<1>3. IInv /\ PendingInv /\ AgreeInv => PendingIsOpenDeposits
  <2> SUFFICES ASSUME IInv, PendingInv, AgreeInv, NEW u \in User
               PROVE  pending[u] = SumFunctionOnSet(Open(u), Tx)
    BY DEF PendingIsOpenDeposits, Open, SumFunction
  <2>1. \A t \in Tx : Left(u)[t] = Open(u)[t]
    <3> SUFFICES ASSUME NEW t \in Tx PROVE Left(u)[t] = Open(u)[t]
      OBVIOUS
    <3>1. CASE deposit[t] = NoDeposit
      BY <3>1, NotATransfer DEF IInv, EventsMatchLedger, Left, Booked, Drained, Open
    <3>2. CASE deposit[t] # NoDeposit
      <4>1. /\ deposit[t] \in Transfer /\ ChainAmount[t] \in Int
            /\ deposit[t].user = CreditedUser /\ deposit[t].amount = ChainAmount[t]
            /\ t \in offramps <=> deposit[t].status = "confirmed"
        BY <3>2, WatcherAssumption DEF IInv, StateOK, AgreeInv, EventsMatchLedger
      <4> QED BY <3>2, <4>1 DEF Transfer, Left, Booked, Drained, Open
    <3> QED BY <3>1, <3>2
  <2>2. SumFunctionOnSet(Left(u), Tx) = SumFunctionOnSet(Open(u), Tx)
    BY <2>1, SumEqual, FiniteTx
  <2> QED BY <2>2 DEF PendingInv
<1> QED BY <1>1, <1>2, <1>3, Invariance, PTL DEF Spec
-----------------------------------------------------------------------------
(* The lists a tick walks.                                                  *)

\* Positions of a list.
Positions(D) == IsFiniteSet(D) /\ D \subseteq Nat

\* g tabulates what Only keeps of s on the subsets of its positions D.
KeepsOnly(g, s, S, D) ==
  g = [T \in SUBSET D |->
         IF T = {} THEN << >>
         ELSE IF s[Max(T)] \in S THEN Append(g[T \ {Max(T)}], s[Max(T)]) ELSE g[T \ {Max(T)}]]

LEMMA OnlyDef ==
  ASSUME NEW s, NEW S
  PROVE  Only(s, S) = (CHOOSE g : KeepsOnly(g, s, S, DOMAIN s))[DOMAIN s]
BY DEF Only, FoldLeft, MapThenFoldSet, KeepsOnly

LEMMA MaxIn ==
  ASSUME NEW T, Positions(T), T # {}
  PROVE  Max(T) \in T
<1>1. \E m \in T : \A n \in T : m >= n
  BY GreatestExists DEF Positions
<1> QED BY <1>1 DEF Max

LEMMA PartOfPositions ==
  ASSUME NEW D, Positions(D), NEW U \in SUBSET D
  PROVE  Positions(U)
BY FS_Subset DEF Positions

\* A table says of fewer positions what theirs does.
LEMMA KeepsAgree ==
  ASSUME NEW s, NEW S, NEW D, Positions(D),
         NEW A, D \subseteq A,
         NEW g, KeepsOnly(g, s, S, A), NEW h, KeepsOnly(h, s, S, D)
  PROVE  g[D] = h[D]
<1> DEFINE Bad == { T \in SUBSET D : g[T] # h[T] }
<1> SUFFICES ASSUME Bad # {} PROVE FALSE
  OBVIOUS
<1>1. PICK T \in Bad : \A U \in SUBSET T : U # T => U \notin Bad
  <2>1. Bad \subseteq SUBSET D
    OBVIOUS
  <2> HIDE DEF Bad
  <2> QED BY <2>1, SmallestBad DEF Positions
<1> DEFINE x == Max(T)
<1>2. LET Of(k) == IF T = {} THEN << >>
                   ELSE IF s[x] \in S THEN Append(k[T \ {x}], s[x]) ELSE k[T \ {x}]
      IN  g[T] = Of(g) /\ h[T] = Of(h)
  <2>1. T \in SUBSET A /\ T \in SUBSET D
    OBVIOUS
  <2> QED BY <2>1 DEF KeepsOnly
<1>3. T # {}
  BY <1>2
<1>4. T \ {x} \in SUBSET T /\ T \ {x} # T
  BY <1>3, MaxIn, PartOfPositions
<1>5. g[T \ {x}] = h[T \ {x}]
  BY <1>1, <1>4
<1> QED BY <1>2, <1>3, <1>5

LEMMA KeepsExists ==
  ASSUME NEW s, NEW S, NEW D, Positions(D)
  PROVE  \E g : KeepsOnly(g, s, S, D)
<1> DEFINE Bad == { T \in SUBSET D : ~ \E g : KeepsOnly(g, s, S, T) }
<1> SUFFICES ASSUME Bad # {} PROVE FALSE
  OBVIOUS
<1>1. PICK T \in Bad : \A U \in SUBSET T : U # T => U \notin Bad
  <2>1. Bad \subseteq SUBSET D
    OBVIOUS
  <2> HIDE DEF Bad
  <2> QED BY <2>1, SmallestBad DEF Positions
<1> DEFINE Table(U) == CHOOSE g : KeepsOnly(g, s, S, U)
           Of(U, kept) == IF U = {} THEN << >>
                          ELSE IF s[Max(U)] \in S THEN Append(kept, s[Max(U)]) ELSE kept
           keep == [U \in SUBSET T |-> Of(U, Table(U \ {Max(U)})[U \ {Max(U)}])]
<1>2. ASSUME NEW U \in SUBSET T, U # {}
      PROVE  Max(U) \in U /\ U \ {Max(U)} \in SUBSET T /\ U \ {Max(U)} # T
  <2>1. Positions(U)
    BY PartOfPositions
  <2> QED BY <1>2, <2>1, MaxIn
<1>3. ASSUME NEW U \in SUBSET T, U # T
      PROVE  KeepsOnly(Table(U), s, S, U) /\ Positions(U)
  <2>1. U \in SUBSET D /\ \E g : KeepsOnly(g, s, S, U)
    BY <1>1, <1>3
  <2> QED BY <2>1, PartOfPositions
<1>4. ASSUME NEW U \in SUBSET T, U # T
      PROVE  Table(U)[U] = keep[U]
  <2>1. Table(U)[U] = Of(U, Table(U)[U \ {Max(U)}])
    <3>1. KeepsOnly(Table(U), s, S, U) /\ U \in SUBSET U
      BY <1>3, <1>4
    <3> HIDE DEF Table
    <3> QED BY <3>1 DEF KeepsOnly
  <2>2. CASE U = {}
    BY <2>1, <2>2
  <2>3. CASE U # {}
    <3> DEFINE V == U \ {Max(U)}
    <3>1. V \in SUBSET T /\ V # T /\ V \subseteq U
      BY <1>2, <2>3
    <3>2. /\ KeepsOnly(Table(V), s, S, V) /\ Positions(V)
          /\ KeepsOnly(Table(U), s, S, U)
      BY <1>3, <1>4, <3>1
    <3> HIDE DEF V, Table
    <3>3. Table(U)[V] = Table(V)[V]
      BY <3>1, <3>2, KeepsAgree
    <3> QED BY <2>1, <2>3, <3>3 DEF V
  <2> QED BY <2>2, <2>3
<1> HIDE DEF Table
<1>5. ASSUME NEW U \in SUBSET T, U # {}
      PROVE  Table(U \ {Max(U)})[U \ {Max(U)}] = keep[U \ {Max(U)}]
  <2> HIDE DEF keep
  <2> QED BY <1>2, <1>4, <1>5
<1>6. KeepsOnly(keep, s, S, T)
  BY <1>5 DEF KeepsOnly
<1> QED BY <1>6

\* What Only keeps of a list are entries of it.
LEMMA OnlyType ==
  ASSUME NEW V, NEW s \in Seq(V), NEW S
  PROVE  Only(s, S) \in Seq(V)
<1> DEFINE g == CHOOSE k : KeepsOnly(k, s, S, DOMAIN s)
           Bad == { T \in SUBSET DOMAIN s : g[T] \notin Seq(V) }
<1>1. DOMAIN s = 1 .. Len(s) /\ Len(s) \in Nat
  OBVIOUS
<1>2. Positions(DOMAIN s)
  BY <1>1, FS_Interval DEF Positions
<1>3. KeepsOnly(g, s, S, DOMAIN s)
  BY <1>2, KeepsExists
<1> HIDE DEF g
<1>4. ASSUME Bad # {} PROVE FALSE
  <2>1. PICK T \in Bad : \A U \in SUBSET T : U # T => U \notin Bad
    <3>1. Bad \subseteq SUBSET DOMAIN s
      OBVIOUS
    <3> HIDE DEF Bad
    <3> QED BY <1>2, <1>4, <3>1, SmallestBad DEF Positions
  <2> DEFINE x == Max(T)
  <2>2. g[T] = IF T = {} THEN << >>
               ELSE IF s[x] \in S THEN Append(g[T \ {x}], s[x]) ELSE g[T \ {x}]
    BY <1>3 DEF KeepsOnly
  <2>3. T # {}
    <3> SUFFICES ASSUME T = {} PROVE FALSE
      OBVIOUS
    <3>1. g[T] = << >>
      BY <2>2
    <3>2. << >> \in Seq(V)
      OBVIOUS
    <3> QED BY <2>1, <3>1, <3>2
  <2>4. x \in T /\ T \ {x} \in SUBSET T /\ T \ {x} # T
    BY <1>2, <2>3, MaxIn, PartOfPositions
  <2>5. g[T \ {x}] \in Seq(V)
    BY <2>1, <2>4
  <2>6. s[x] \in V
    BY <1>1, <2>4
  <2>7. T \in SUBSET DOMAIN s /\ g[T] \notin Seq(V)
    BY <2>1
  <2> HIDE DEF x, Bad
  <2>8. Append(g[T \ {x}], s[x]) \in Seq(V)
    BY <2>5, <2>6
  <2> QED BY <2>2, <2>3, <2>5, <2>7, <2>8
<1>5. g[DOMAIN s] \in Seq(V)
  BY <1>4
<1> QED BY <1>5, OnlyDef DEF g

LEMMA FirstOfType ==
  ASSUME NEW V, NEW s \in Seq(V), NEW n \in Nat
  PROVE  FirstOf(n, s) \in Seq(V)
<1> DEFINE k == IF Len(s) < n THEN Len(s) ELSE n
<1>1. k \in 0 .. Len(s)
  OBVIOUS
<1> HIDE DEF k
<1>2. SubSeq(s, 1, k) \in Seq(V)
  BY <1>1
<1> QED BY <1>2 DEF FirstOf, k

LEMMA ListsOfATick == landed \in Seq(Tx) /\ seen \in Seq(Tx) => Candidates \in Seq(Tx) /\ Batch \in Seq(Tx)
<1> SUFFICES ASSUME landed \in Seq(Tx), seen \in Seq(Tx)
             PROVE  Candidates \in Seq(Tx) /\ Batch \in Seq(Tx)
  OBVIOUS
<1>1. ScanLimit \in Nat /\ BatchLimit \in Nat
  BY WatcherAssumption
<1>2. Reverse(landed) \in Seq(Tx)
  BY DEF Reverse
<1>3. Candidates \in Seq(Tx)
  BY <1>1, <1>2, FirstOfType, OnlyType DEF Candidates
<1>4. Batch \in Seq(Tx)
  BY <1>1, FirstOfType, OnlyType DEF Batch
<1> QED BY <1>3, <1>4

\* The lists hold deposits, and a worker at its hook has one at their head.
ListsInv ==
  /\ landed \in Seq(Tx) /\ seen \in Seq(Tx) /\ todo \in [Worker -> Seq(Tx)]
  /\ \A w \in Worker : pc[w] = "hook" => todo[w] # << >>
  /\ crashes \in 0 .. MaxCrashes

LEMMA ListsInit == Init => ListsInv
BY WatcherAssumption DEF Init, ListsInv

LEMMA ListsNext ==
  ASSUME StateOK, ListsInv, [Next]_vars
  PROVE  ListsInv'
<1> USE DEF StateOK, ListsInv
<1>1. CASE UNCHANGED vars
  BY <1>1 DEF vars, chainVars, bookVars, workerVars
<1>2. ASSUME NEW t \in Tx, Land(t) \/ Deepen(t) \/ Finalize(t) \/ Webhook(t) PROVE ListsInv'
  <2>1. landed' = Append(landed, t) \/ landed' = landed
    BY <1>2 DEF Land, Deepen, Finalize, Webhook, chainVars
  <2>2. Append(landed, t) \in Seq(Tx)
    OBVIOUS
  <2> HIDE DEF StateOK
  <2>3. UNCHANGED <<seen, workerVars>>
    BY <1>2 DEF Land, Deepen, Finalize, Webhook, bookVars
  <2> QED BY <2>1, <2>2, <2>3 DEF workerVars
<1>3. ASSUME NEW t \in Tx, Drop(t) PROVE ListsInv'
  <2>1. landed' \in Seq(Tx)
    BY <1>3, OnlyType DEF Drop
  <2> QED BY <1>3, <2>1 DEF Drop, bookVars, workerVars
<1>4. ASSUME NEW w \in Worker, Scan(w) PROVE ListsInv'
  BY <1>4, ListsOfATick DEF Scan, chainVars, bookVars
<1>5. ASSUME NEW w \in Worker, BeginConfirm(w) PROVE ListsInv'
  BY <1>5, ListsOfATick DEF BeginConfirm, chainVars, bookVars
<1>6. ASSUME NEW w \in Worker, NEW next, next # "hook", todo[w] # << >>, Advance(w, next)
      PROVE  /\ todo' \in [Worker -> Seq(Tx)] /\ crashes' \in 0 .. MaxCrashes
             /\ \A v \in Worker : pc'[v] = "hook" => todo'[v] # << >>
  <2>1. Tail(todo[w]) \in Seq(Tx)
    BY <1>6
  <2> QED BY <1>6, <2>1 DEF Advance
<1>7. ASSUME NEW w \in Worker, DetectDeposit(w) PROVE ListsInv'
  <2>1. PICK t \in Tx : seen' = Append(seen, t) /\ Advance(w, "detect") /\ todo[w] # << >>
                        /\ UNCHANGED landed
    BY <1>7 DEF DetectDeposit, chainVars
  <2>2. seen' \in Seq(Tx) /\ landed' \in Seq(Tx)
    BY <2>1
  <2> QED BY <1>6, <2>1, <2>2
<1>8. ASSUME NEW w \in Worker, SkipSignature(w) \/ SkipRow(w) \/ FireHook(w) PROVE ListsInv'
  <2>1. /\ todo[w] # << >> /\ UNCHANGED <<landed, seen>>
        /\ Advance(w, "detect") \/ Advance(w, "credit")
    BY <1>8 DEF SkipSignature, SkipRow, FireHook, chainVars, bookVars
  <2> QED BY <1>6, <2>1
<1>9. ASSUME NEW w \in Worker, CreditDeposit(w) PROVE ListsInv'
  BY <1>9 DEF CreditDeposit, chainVars
<1>10. ASSUME NEW w \in Worker, EndTick(w) \/ FailTick(w) PROVE ListsInv'
  BY <1>10 DEF EndTick, FailTick, chainVars, bookVars
<1>11. ASSUME NEW w \in Worker, Crash(w) PROVE ListsInv'
  <2>1. crashes' \in 0 .. MaxCrashes /\ UNCHANGED <<landed, seen>>
    BY <1>11, WatcherAssumption DEF Crash, chainVars, bookVars
  <2>2. /\ pc' = [pc EXCEPT ![w] = "idle"] /\ todo' = [todo EXCEPT ![w] = << >>]
        /\ << >> \in Seq(Tx)
    BY <1>11 DEF Crash
  <2> QED BY <2>1, <2>2
<1> QED BY <1>1, <1>2, <1>3, <1>4, <1>5, <1>7, <1>8, <1>9, <1>10, <1>11 DEF Next, Tick, Decided

\* The watcher's state is well typed: the lists a tick walks are made of
\* deposits, and a worker at its hook has one before it.
THEOREM WatcherTypeCorrect == Spec => []TypeOK
<1>1. Init => PendingInv /\ ListsInv
  BY PendingInit, ListsInit
<1>2. IInv /\ IInv' /\ PendingInv /\ ListsInv /\ [Next]_vars => PendingInv' /\ ListsInv'
  BY PendingNext, ListsNext DEF IInv
<1>3. IInv /\ PendingInv /\ ListsInv => TypeOK
  BY DEF IInv, StateOK, PendingInv, ListsInv, TypeOK, Transfer
<1> QED BY <1>1, <1>2, <1>3, Invariance, PTL DEF Spec
=============================================================================
